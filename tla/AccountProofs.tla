--------------------------- MODULE AccountProofs ---------------------------
(***************************************************************************)
(* Theorems about what an account is and may do.                           *)
(*                                                                         *)
(* Session, for any number of sessions, tabs, browsers and secrets: the    *)
(* types, that no refresh token is exchanged twice, that live sessions are *)
(* indexed, and when a browser's cookie is the current token.              *)
(*                                                                         *)
(* Access, for any number of users, events and requests: the types, the    *)
(* separation of duties, and that somebody stays Super Admin.              *)
(***************************************************************************)
EXTENDS Session, Access, FiniteSetTheorems, TLAPS

(* The initial state has the types. *)
LEMMA InitTypeOK == Init => TypeOK
  <1> SUFFICES ASSUME Init PROVE TypeOK
    OBVIOUS
  <1> QED
    BY SessionAssumption DEF Init, TypeOK, Steps

(* No step leaves the types. *)
LEMMA NextTypeOK == TypeOK /\ [Next]_vars => TypeOK'
  <1> SUFFICES ASSUME TypeOK, [Next]_vars PROVE TypeOK'
    OBVIOUS
  <1> USE SessionAssumption DEF TypeOK, Steps, Token, Step, Carry, Mishap, Jar,
        store, calls, history
  <1>1. ASSUME NEW t \in Tabs, SendLogin(t) PROVE TypeOK'
    BY <1>1 DEF SendLogin, Send
  <1>2. ASSUME NEW t \in Tabs, SendRefresh(t) PROVE TypeOK'
    <2>1. Jar(t) \in Token
      BY <1>2 DEF SendRefresh
    <2> QED
      BY <1>2, <2>1 DEF SendRefresh, Send
  <1>3. ASSUME NEW t \in Tabs, SendLogout(t) PROVE TypeOK'
    <2>1. Jar(t) \in Token
      BY <1>3 DEF SendLogout
    <2> QED
      BY <1>3, <2>1 DEF SendLogout, Send
  <1>4. ASSUME NEW t \in Tabs, SendLogoutAll(t) PROVE TypeOK'
    BY <1>4 DEF SendLogoutAll, Send
  <1>5. ASSUME NEW t \in Tabs, NEW f \in Families, OpenSession(t, f) PROVE TypeOK'
    BY <1>5 DEF OpenSession, Indexed
  <1>6. ASSUME NEW t \in Tabs, Rotate(t) PROVE TypeOK'
    <2>1. tok[t] \in Token /\ tok[t].gen < MaxGen
      BY <1>6 DEF Rotate
    <2>2. CASE ~Alive(tok[t].fam)
      BY <1>6, <2>1, <2>2 DEF Rotate
    <2>3. CASE Alive(tok[t].fam) /\ ~Current(tok[t])
      BY <1>6, <2>1, <2>3 DEF Rotate, Ended
    <2>4. CASE Alive(tok[t].fam) /\ Current(tok[t])
      <3>1. [tok[t] EXCEPT !.gen = @ + 1] \in Token
        BY <2>1
      <3> QED
        BY <1>6, <2>1, <2>4, <3>1 DEF Rotate, Rotated
    <2> QED
      BY <2>2, <2>3, <2>4
  <1>7. ASSUME NEW t \in Tabs, DropIndexEntry(t) PROVE TypeOK'
    BY <1>7 DEF DropIndexEntry
  <1>8. ASSUME NEW t \in Tabs, LookUpUser(t) PROVE TypeOK'
    BY <1>8 DEF LookUpUser
  <1>9. ASSUME NEW t \in Tabs, FindSession(t) PROVE TypeOK'
    BY <1>9 DEF FindSession
  <1>10. ASSUME NEW t \in Tabs, EndSession(t) PROVE TypeOK'
    BY <1>10 DEF EndSession, Ended
  <1>11. ASSUME NEW t \in Tabs, ListSessions(t) PROVE TypeOK'
    BY <1>11 DEF ListSessions
  <1>12. ASSUME NEW t \in Tabs, EndAllSessions(t) PROVE TypeOK'
    BY <1>12 DEF EndAllSessions
  <1>13. ASSUME NEW t \in Tabs, StoreFails(t) PROVE TypeOK'
    BY <1>13 DEF StoreFails
  <1>14. ASSUME NEW t \in Tabs, Reply(t) PROVE TypeOK'
    BY <1>14 DEF Reply
  <1>15. ASSUME NEW t \in Tabs, LoseReply(t) PROVE TypeOK'
    BY <1>15 DEF LoseReply
  <1>16. ASSUME NEW f \in Families, SessionExpires(f) PROVE TypeOK'
    BY <1>16 DEF SessionExpires
  <1>17. CASE IndexExpires
    BY <1>17 DEF IndexExpires
  <1>18. CASE UNCHANGED vars
    BY <1>18 DEF vars
  <1>19. ASSUME NEW t \in Tabs, RotateUnheard(t) PROVE TypeOK'
    <2>1. tok[t] \in Token /\ tok[t].gen < MaxGen
      BY <1>19 DEF RotateUnheard
    <2> QED
      BY <1>19, <2>1 DEF RotateUnheard, Rotated, Ended
  <1> QED
    BY <1>1, <1>2, <1>3, <1>4, <1>5, <1>6, <1>7, <1>8, <1>9, <1>10, <1>11,
       <1>12, <1>13, <1>14, <1>15, <1>16, <1>17, <1>18, <1>19 DEF Next, TabStep

(* Every variable of every behaviour stays in its type. *)
THEOREM TypeCorrect == Spec => []TypeOK
  BY InitTypeOK, NextTypeOK, PTL DEF Spec

----------------------------------------------------------------------------
(* The inductive invariant behind the next theorems: a family that was not *)
(* drawn yet has no session and no exchanged token, so a login cannot make *)
(* an exchanged token current again.                                       *)
UnusedFamiliesAreFresh ==
    /\ \A f \in unused : ~Alive(f)
    /\ \A x \in won : x.fam \notin unused

StaleInv == ExchangedTokensAreStale /\ UnusedFamiliesAreFresh

(* A step that neither writes a secret nor exchanges a token, or that only *)
(* deletes sessions, keeps the invariant.                                  *)
LEMMA DeletionKeepsStaleInv ==
    ASSUME TypeOK, StaleInv,
           \A f \in Families : secret'[f] \in {secret[f], None},
           UNCHANGED <<unused, won>>
    PROVE  StaleInv'
  BY DEF TypeOK, StaleInv, ExchangedTokensAreStale, UnusedFamiliesAreFresh,
         Alive, Token

(* Every step keeps it: rotation makes the token it exchanges stale, and a *)
(* login starts a family that no exchanged token belongs to.               *)
LEMMA NextStaleInv == TypeOK /\ StaleInv /\ [Next]_vars => StaleInv'
  <1> SUFFICES ASSUME TypeOK, StaleInv, [Next]_vars PROVE StaleInv'
    OBVIOUS
  <1>1. ASSUME NEW t \in Tabs, NEW f \in Families, OpenSession(t, f) PROVE StaleInv'
    BY <1>1 DEF OpenSession, TypeOK, StaleInv, ExchangedTokensAreStale,
         UnusedFamiliesAreFresh, Alive, Token
  <1>2. ASSUME NEW t \in Tabs, Rotate(t) \/ RotateUnheard(t),
               Alive(tok[t].fam), Current(tok[t])
        PROVE StaleInv'
    <2>1. tok[t] \in Token /\ tok[t].fam \notin unused
      BY <1>2 DEF Rotate, RotateUnheard, TypeOK, StaleInv, UnusedFamiliesAreFresh
    <2>2. /\ secret' = [secret EXCEPT ![tok[t].fam] = tok[t].gen + 1]
          /\ won' = won \cup {tok[t]}
          /\ unused' = unused
      BY <1>2 DEF Rotate, RotateUnheard, Rotated
    <2>3. ExchangedTokensAreStale'
      BY <1>2, <2>1, <2>2 DEF TypeOK, StaleInv, ExchangedTokensAreStale,
           Alive, Current, Token
    <2>4. UnusedFamiliesAreFresh'
      BY <2>1, <2>2 DEF TypeOK, StaleInv, UnusedFamiliesAreFresh, Alive
    <2> QED
      BY <2>3, <2>4 DEF StaleInv
  <1>3. CASE \/ UNCHANGED <<secret, unused, won>>
             \/ \E t \in Tabs : /\ Rotate(t) \/ RotateUnheard(t)
                               /\ ~(Alive(tok[t].fam) /\ Current(tok[t]))
             \/ \E t \in Tabs : EndSession(t) \/ EndAllSessions(t)
             \/ \E f \in Families : SessionExpires(f)
    <2>1. UNCHANGED <<unused, won>>
      BY <1>3 DEF Rotate, RotateUnheard, EndSession, EndAllSessions,
                  SessionExpires, history
    <2>2. \A f \in Families : secret'[f] \in {secret[f], None}
      <3>1. ASSUME NEW t \in Tabs, Rotate(t) \/ RotateUnheard(t),
                   ~(Alive(tok[t].fam) /\ Current(tok[t]))
            PROVE  \A f \in Families : secret'[f] \in {secret[f], None}
        BY <3>1 DEF Rotate, RotateUnheard, Ended, TypeOK
      <3>2. ASSUME NEW t \in Tabs, EndSession(t) \/ EndAllSessions(t)
            PROVE  \A f \in Families : secret'[f] \in {secret[f], None}
        BY <3>2 DEF EndSession, Ended, EndAllSessions, TypeOK
      <3> QED
        BY <1>3, <3>1, <3>2 DEF SessionExpires, TypeOK
    <2> QED
      BY <2>1, <2>2, DeletionKeepsStaleInv
  <1>4. \/ UNCHANGED <<secret, unused, won>>
        \/ \E t \in Tabs : \/ \E f \in Families : OpenSession(t, f)
                           \/ Rotate(t) \/ RotateUnheard(t)
                           \/ EndSession(t) \/ EndAllSessions(t)
        \/ \E f \in Families : SessionExpires(f)
    BY DEF Next, TabStep, vars, store, calls, history, SendLogin, SendRefresh,
         SendLogout, SendLogoutAll, Send, DropIndexEntry, LookUpUser, FindSession,
         ListSessions, StoreFails, Reply, LoseReply, IndexExpires
  <1> QED
    BY <1>1, <1>2, <1>3, <1>4

(* Exchanged tokens are stale in every reachable state.                  *)
LEMMA StaleInvariant == Spec => []StaleInv
  <1>1. Init => StaleInv
    BY DEF Init, StaleInv, ExchangedTokensAreStale, UnusedFamiliesAreFresh, Alive
  <1> QED
    BY <1>1, NextStaleInv, TypeCorrect, PTL DEF Spec

(* A token that was exchanged is older than its session's secret for ever. *)
THEOREM ExchangedStale == Spec => []ExchangedTokensAreStale
  <1>1. StaleInv => ExchangedTokensAreStale
    BY DEF StaleInv
  <1> QED
    BY <1>1, StaleInvariant, PTL

(* However refreshes interleave, one token is exchanged at most once. *)
THEOREM WinOnce == Spec => TokensWinOnce
  <1>1. ASSUME TypeOK, StaleInv, [Next]_vars PROVE ExchangesFreshToken
    <2> SUFFICES ASSUME NEW t \in Tabs, at[t] = "rotate", at'[t] = "lookup"
                 PROVE  tok[t] \notin won
      BY DEF ExchangesFreshToken
    <2>1. Rotate(t)
      BY <1>1 DEF Next, TabStep, vars, calls, history, TypeOK, Step, SendLogin,
           SendRefresh, SendLogout, SendLogoutAll, Send, OpenSession, Rotate,
           RotateUnheard, DropIndexEntry, LookUpUser, FindSession, EndSession,
           ListSessions, EndAllSessions, StoreFails, Reply, LoseReply,
           SessionExpires, IndexExpires
    <2>2. Alive(tok[t].fam) /\ Current(tok[t]) /\ tok[t] \in Token
      BY <1>1, <2>1 DEF Rotate, TypeOK, Step
    <2> QED
      BY <1>1, <2>2 DEF StaleInv, ExchangedTokensAreStale, Alive, Current, Token
  <1>2. TypeOK /\ StaleInv /\ [Next]_vars => [ExchangesFreshToken]_vars
    BY <1>1
  <1> QED
    BY <1>2, TypeCorrect, StaleInvariant, PTL DEF Spec, TokensWinOnce

(* No step revives a session that was drawn and is gone. *)
THEOREM EndedStayEnded == Spec => EndedSessionsStayEnded
  <1> DEFINE Dead == \A f \in Families : ~Alive(f) /\ f \notin unused => secret'[f] = None
  <1>1. ASSUME TypeOK, [Next]_vars PROVE Dead
    <2>1. \/ UNCHANGED secret
          \/ \E t \in Tabs : \/ \E f \in Families : OpenSession(t, f)
                             \/ Rotate(t) \/ RotateUnheard(t)
                             \/ EndSession(t) \/ EndAllSessions(t)
          \/ \E f \in Families : SessionExpires(f)
      BY <1>1 DEF Next, TabStep, vars, store, calls, history, SendLogin, SendRefresh,
           SendLogout, SendLogoutAll, Send, DropIndexEntry, LookUpUser, FindSession,
           ListSessions, StoreFails, Reply, LoseReply, IndexExpires
    <2>2. ASSUME NEW t \in Tabs, Rotate(t) \/ RotateUnheard(t) PROVE Dead
      BY <1>1, <2>2 DEF Rotate, RotateUnheard, Rotated, Ended, TypeOK, Alive
    <2>3. CASE \/ UNCHANGED secret
               \/ \E t \in Tabs : EndSession(t) \/ EndAllSessions(t)
               \/ \E f \in Families : SessionExpires(f)
      BY <1>1, <2>3 DEF EndSession, Ended, EndAllSessions, SessionExpires, TypeOK, Alive
    <2>4. ASSUME NEW t \in Tabs, NEW f \in Families, OpenSession(t, f) PROVE Dead
      BY <1>1, <2>4 DEF OpenSession, TypeOK, Alive
    <2> QED
      BY <2>1, <2>2, <2>3, <2>4
  <1>2. TypeOK /\ [Next]_vars => [Dead]_vars
    BY <1>1
  <1> QED
    BY <1>2, TypeCorrect, PTL DEF Spec, EndedSessionsStayEnded

----------------------------------------------------------------------------
(* The inductive invariant behind the index.  A logout of all devices that *)
(* has listed the sessions has listed every live one but those drawn since;*)
(* a replay that is about to drop an index entry has already deleted its   *)
(* session, which cannot come back because its family was drawn.           *)
TokensWereDrawn ==
    /\ \A t \in Tabs : tok[t] # None => tok[t].fam \notin unused
    /\ \A b \in Browsers : cookie[b] # None => cookie[b].fam \notin unused

DroppedSessionsAreGone ==
    \A t \in Tabs : at[t] = "drop" => ~Alive(tok[t].fam)

ListsAreComplete ==
    \A t \in Tabs : at[t] = "endAll" =>
        \A f \in Families : Alive(f) => f \in seen[t] \cup raced

IndexInv ==
    /\ TokensWereDrawn
    /\ DroppedSessionsAreGone
    /\ ListsAreComplete
    /\ SessionsAreIndexed

(* Every step keeps the invariant. *)
LEMMA NextIndexInv == TypeOK /\ IndexInv /\ [Next]_vars => IndexInv'
  <1> SUFFICES ASSUME TypeOK, IndexInv, [Next]_vars PROVE IndexInv'
    OBVIOUS
  <1> USE SessionAssumption
      DEF IndexInv, TokensWereDrawn, DroppedSessionsAreGone, ListsAreComplete,
          SessionsAreIndexed, TypeOK, Steps, Token, Step, Carry, Jar, Alive,
          store, calls, history
  <1>1. ASSUME NEW t \in Tabs,
               SendLogin(t) \/ SendRefresh(t) \/ SendLogout(t) \/ SendLogoutAll(t)
        PROVE  IndexInv'
    <2>1. /\ \A u \in Tabs : at'[u] \in {"drop", "endAll"} => at'[u] = at[u] /\ u # t
          /\ \A u \in Tabs : u # t => tok'[u] = tok[u]
          /\ tok'[t] \in {None, cookie[JarOf[t]]}
          /\ UNCHANGED <<secret, index, unused, seen, cookie, raced>>
      BY <1>1 DEF SendLogin, SendRefresh, SendLogout, SendLogoutAll, Send
    <2> QED
      BY <2>1
  <1>2. ASSUME NEW t \in Tabs, NEW f \in Families, OpenSession(t, f)
        PROVE  IndexInv'
    <2>1. /\ secret' = [secret EXCEPT ![f] = 0]
          /\ index' = index \cup {f}
          /\ f \in unused /\ unused' = unused \ {f}
          /\ tok' = [tok EXCEPT ![t] = [fam |-> f, gen |-> 0]]
          /\ at[t] = "open" /\ at' = [at EXCEPT ![t] = "give"]
          /\ UNCHANGED <<seen, cookie>>
      BY <1>2 DEF OpenSession, Indexed
    <2>2. raced \subseteq raced' /\ (LoggingOutAll => f \in raced')
      BY <1>2 DEF OpenSession
    <2>3. TokensWereDrawn' /\ SessionsAreIndexed'
      BY <2>1, <2>2
    <2>4. DroppedSessionsAreGone'
      BY <2>1
    <2>5. ListsAreComplete'
      BY <2>1, <2>2 DEF LoggingOutAll
    <2> QED
      BY <2>3, <2>4, <2>5
  <1>3. ASSUME NEW t \in Tabs, Rotate(t)
        PROVE  IndexInv'
    <2>1. tok[t] \in Token /\ at[t] = "rotate"
      BY <1>3 DEF Rotate
    <2>2. /\ \A f \in Families : secret'[f] # None => secret[f] # None
          /\ at'[t] = "drop" => secret'[tok[t].fam] = None /\ tok' = tok
          /\ at'[t] # "endAll"
          /\ \A u \in Tabs : u # t => at'[u] = at[u] /\ tok'[u] = tok[u]
          /\ tok'[t].fam = tok[t].fam
          /\ UNCHANGED <<index, unused, seen, cookie, raced>>
      <3>1. CASE ~Alive(tok[t].fam)
        BY <1>3, <2>1, <3>1 DEF Rotate
      <3>2. CASE Alive(tok[t].fam) /\ ~Current(tok[t])
        BY <1>3, <2>1, <3>2 DEF Rotate, Ended
      <3>3. CASE Alive(tok[t].fam) /\ Current(tok[t])
        BY <1>3, <2>1, <3>3 DEF Rotate, Rotated
      <3> QED
        BY <3>1, <3>2, <3>3
    <2> QED
      BY <2>1, <2>2
  <1>4. ASSUME NEW t \in Tabs, DropIndexEntry(t) PROVE IndexInv'
    BY <1>4 DEF DropIndexEntry
  <1>5. ASSUME NEW t \in Tabs, LookUpUser(t) \/ FindSession(t) \/ StoreFails(t)
        PROVE  IndexInv'
    <2>1. /\ \A u \in Tabs : at'[u] \in {"drop", "endAll"} => at'[u] = at[u] /\ u # t
          /\ \A u \in Tabs : u # t => seen'[u] = seen[u]
          /\ UNCHANGED <<secret, index, unused, tok, cookie, raced>>
      BY <1>5 DEF LookUpUser, FindSession, StoreFails
    <2> QED
      BY <2>1
  <1>6. ASSUME NEW t \in Tabs, EndSession(t) PROVE IndexInv'
    BY <1>6 DEF EndSession, Ended
  <1>7. ASSUME NEW t \in Tabs, ListSessions(t) PROVE IndexInv'
    BY <1>7 DEF ListSessions
  <1>8. ASSUME NEW t \in Tabs, EndAllSessions(t) PROVE IndexInv'
    BY <1>8 DEF EndAllSessions
  <1>9. ASSUME NEW t \in Tabs, Reply(t) \/ LoseReply(t) PROVE IndexInv'
    BY <1>9 DEF Reply, LoseReply
  <1>10. ASSUME NEW f \in Families, SessionExpires(f) PROVE IndexInv'
    BY <1>10 DEF SessionExpires
  <1>11. CASE IndexExpires
    BY <1>11 DEF IndexExpires
  <1>12. CASE UNCHANGED vars
    BY <1>12 DEF vars
  <1>13. ASSUME NEW t \in Tabs, RotateUnheard(t)
        PROVE  IndexInv'
    <2>1. /\ \A f \in Families : secret'[f] # None => secret[f] # None
          /\ UNCHANGED <<index, unused, at, tok, seen, cookie, raced>>
      BY <1>13 DEF RotateUnheard, Rotated, Ended
    <2> QED
      BY <2>1
  <1> QED
    BY <1>1, <1>2, <1>3, <1>4, <1>5, <1>6, <1>7, <1>8, <1>9, <1>10, <1>11,
       <1>12, <1>13 DEF Next, TabStep

(* Logging out all devices can find every live session, but for one that   *)
(* was opened while such a logout was between its listing and its deletion.*)
THEOREM SessionsIndexed == Spec => []SessionsAreIndexed
  <1>1. Init => IndexInv
    BY DEF Init, IndexInv, TokensWereDrawn, DroppedSessionsAreGone,
         ListsAreComplete, SessionsAreIndexed, Alive
  <1>2. IndexInv => SessionsAreIndexed
    BY DEF IndexInv
  <1> QED
    BY <1>1, <1>2, NextIndexInv, TypeCorrect, PTL DEF Spec

----------------------------------------------------------------------------
(* No two browsers have tokens of one family: a family enters a browser    *)
(* with the login that draws it, and its tokens stay there.                *)
FamiliesApart ==
    /\ \A t, u \in Tabs :
          JarOf[t] # JarOf[u] /\ tok[t] # None /\ tok[u] # None =>
              tok[t].fam # tok[u].fam
    /\ \A t \in Tabs, b \in Browsers :
          b # JarOf[t] /\ tok[t] # None /\ cookie[b] # None =>
              tok[t].fam # cookie[b].fam
    /\ \A b, d \in Browsers :
          b # d /\ cookie[b] # None /\ cookie[d] # None =>
              cookie[b].fam # cookie[d].fam

(* What steps do to the tokens: a tab sends its browser's cookie, keeps    *)
(* the family of its token, or draws a family nobody had; a reply moves    *)
(* the tab's token to the cookie.                                          *)
TokensMove(t) ==
    \/ UNCHANGED <<tok, cookie>>
    \/ /\ \A u \in Tabs \ {t} : tok'[u] = tok[u]
       /\ cookie' = cookie
       /\ \/ tok'[t] \in {None, cookie[JarOf[t]]}
          \/ tok[t] # None /\ tok'[t].fam = tok[t].fam
          \/ tok'[t].fam \in unused
    \/ /\ \A u \in Tabs \ {t} : tok'[u] = tok[u]
       /\ tok'[t] = None
       /\ \A b \in Browsers \ {JarOf[t]} : cookie'[b] = cookie[b]
       /\ cookie'[JarOf[t]] \in {None, tok[t]}

(* Every step moves tokens like that. *)
LEMMA StepsMoveTokens ==
    ASSUME TypeOK, NEW t \in Tabs, TabStep(t)
    PROVE  TokensMove(t)
  <1> USE SessionAssumption DEF TokensMove, TypeOK, Token, Carry, Jar, calls
  <1>1. CASE SendLogin(t) \/ SendRefresh(t) \/ SendLogout(t) \/ SendLogoutAll(t)
    BY <1>1 DEF SendLogin, SendRefresh, SendLogout, SendLogoutAll, Send
  <1>2. CASE \E f \in Families : OpenSession(t, f)
    BY <1>2 DEF OpenSession
  <1>3. CASE Rotate(t) \/ RotateUnheard(t)
    BY <1>3 DEF Rotate, RotateUnheard
  <1>4. CASE \/ DropIndexEntry(t) \/ LookUpUser(t) \/ FindSession(t) \/ EndSession(t)
             \/ ListSessions(t) \/ EndAllSessions(t) \/ StoreFails(t)
    BY <1>4 DEF DropIndexEntry, LookUpUser, FindSession, EndSession, ListSessions,
                EndAllSessions, StoreFails
  <1>5. CASE Reply(t) \/ LoseReply(t)
    BY <1>5 DEF Reply, LoseReply
  <1> QED
    BY <1>1, <1>2, <1>3, <1>4, <1>5 DEF TabStep

(* Every step keeps the families apart. *)
LEMMA NextFamiliesApart ==
    TypeOK /\ TokensWereDrawn /\ FamiliesApart /\ [Next]_vars => FamiliesApart'
  <1> SUFFICES ASSUME TypeOK, TokensWereDrawn, FamiliesApart, [Next]_vars
               PROVE  FamiliesApart'
    OBVIOUS
  <1>1. ASSUME NEW t \in Tabs, TokensMove(t) PROVE FamiliesApart'
    BY <1>1, SessionAssumption
       DEF TokensMove, FamiliesApart, TokensWereDrawn, TypeOK
  <1>2. CASE UNCHANGED <<tok, cookie>>
    BY <1>2 DEF FamiliesApart
  <1> QED
    BY <1>1, <1>2, StepsMoveTokens
       DEF Next, SessionExpires, IndexExpires, vars, calls

(* While nothing was lost, the only tab of a browser has the current token *)
(* of a live session: in its request's reply after an exchange or a login, *)
(* in its cookie otherwise.                                                *)
Fresh(x) == x # None /\ Alive(x.fam) => Current(x)

JarInv ==
    lost = 0 => \A t \in Tabs : Alone(t) =>
        /\ at[t] # "drop"
        /\ at[t] = "rotate" => tok[t] = Jar(t)
        /\ IF at[t] \in {"lookup", "give"} THEN Fresh(tok[t]) ELSE Fresh(Jar(t))

(* Only a browser's own tabs rotate the sessions of its tokens.            *)
LEMMA OthersLeaveFresh ==
    ASSUME TypeOK, TokensWereDrawn, FamiliesApart, NEW u \in Tabs, TabStep(u),
           NEW t \in Tabs, JarOf[t] # JarOf[u], NEW x \in {tok[t], Jar(t)},
           Fresh(x)
    PROVE  Fresh(x)'
  <1> USE SessionAssumption DEF Fresh, Alive, Current, Jar, TypeOK, Token
  <1>1. x # None => x \in Token /\ x.fam \notin unused
    BY DEF TokensWereDrawn
  <1>2. x # None => \/ secret'[x.fam] = secret[x.fam]
                    \/ secret'[x.fam] = None
    <2>1. CASE \E f \in Families : OpenSession(u, f)
      BY <1>1, <2>1 DEF OpenSession
    <2>2. CASE Rotate(u) \/ RotateUnheard(u)
      <3>1. x # None => tok[u].fam # x.fam
        BY <2>2 DEF FamiliesApart, Rotate, RotateUnheard
      <3> QED
        BY <1>1, <2>2, <3>1 DEF Rotate, RotateUnheard, Rotated, Ended
    <2>3. CASE EndSession(u) \/ EndAllSessions(u)
      BY <1>1, <2>3 DEF EndSession, EndAllSessions, Ended
    <2>4. CASE UNCHANGED secret
      BY <2>4
    <2> QED
      BY <2>1, <2>2, <2>3, <2>4
         DEF TabStep, store, SendLogin, SendRefresh, SendLogout, SendLogoutAll, Send,
             DropIndexEntry, LookUpUser, FindSession, ListSessions, StoreFails,
             Reply, LoseReply
  <1> QED
    BY <1>1, <1>2

(* Every step keeps it. *)
LEMMA NextJarInv ==
    TypeOK /\ TokensWereDrawn /\ FamiliesApart /\ JarInv /\ [Next]_vars => JarInv'
  <1> SUFFICES ASSUME TypeOK, TokensWereDrawn, FamiliesApart, JarInv, [Next]_vars,
                      lost' = 0, NEW t \in Tabs, Alone(t)
               PROVE  (/\ at[t] # "drop"
                       /\ at[t] = "rotate" => tok[t] = Jar(t)
                       /\ IF at[t] \in {"lookup", "give"} THEN Fresh(tok[t])
                                                          ELSE Fresh(Jar(t)))'
    BY DEF JarInv, Alone
  <1>1. lost = 0
    <2>1. lost' = lost \/ lost' = lost + 1
      BY DEF Next, TabStep, vars, history, SendLogin, SendRefresh, SendLogout,
         SendLogoutAll, Send, OpenSession, Rotate, RotateUnheard, DropIndexEntry, LookUpUser,
         FindSession, EndSession, ListSessions, EndAllSessions, StoreFails, Reply,
         LoseReply, SessionExpires, IndexExpires, Mishap
    <2>2. lost \in Nat
      BY DEF TypeOK
    <2> QED
      BY <2>1, <2>2
  <1>2. /\ at[t] # "drop"
        /\ at[t] = "rotate" => tok[t] = Jar(t)
        /\ IF at[t] \in {"lookup", "give"} THEN Fresh(tok[t]) ELSE Fresh(Jar(t))
    BY <1>1 DEF JarInv
  <1>3. JarOf[t] \in Browsers /\ Jar(t) \in Token \cup {None}
        /\ tok[t] \in Token \cup {None}
    BY SessionAssumption DEF TypeOK, Jar
  <1>4. ASSUME NEW u \in Tabs \ {t}, TabStep(u)
        PROVE  /\ at'[t] = at[t] /\ tok'[t] = tok[t] /\ Jar(t)' = Jar(t)
               /\ Fresh(tok[t]) => Fresh(tok[t])'
               /\ Fresh(Jar(t)) => Fresh(Jar(t))'
    <2>1. JarOf[u] # JarOf[t]
      BY <1>4 DEF Alone
    <2>2. at'[t] = at[t]
      BY <1>4 DEF TabStep, Step, calls, TypeOK, SendLogin, SendRefresh, SendLogout,
         SendLogoutAll, Send, OpenSession, Rotate, RotateUnheard, DropIndexEntry, LookUpUser,
         FindSession, EndSession, ListSessions, EndAllSessions, StoreFails, Reply,
         LoseReply
    <2>3. tok'[t] = tok[t] /\ cookie'[JarOf[t]] = cookie[JarOf[t]]
      BY <1>3, <1>4, <2>1, StepsMoveTokens DEF TokensMove
    <2> QED
      BY <1>4, <2>1, <2>2, <2>3, OthersLeaveFresh DEF Jar, Fresh, Alive, Current
  <1>5. CASE TabStep(t)
    <2> USE <1>2, <1>3, SessionAssumption
        DEF Fresh, Alive, Current, Jar, TypeOK, Token, Step, Carry, calls, store
    <2>1. CASE SendLogin(t) \/ SendRefresh(t) \/ SendLogout(t) \/ SendLogoutAll(t)
      BY <2>1 DEF SendLogin, SendRefresh, SendLogout, SendLogoutAll, Send
    <2>2. CASE \E f \in Families : OpenSession(t, f)
      BY <2>2 DEF OpenSession
    <2>3. CASE Rotate(t)
      <3>1. tok[t] # None /\ at[t] = "rotate" /\ tok[t] = cookie[JarOf[t]]
        BY <2>3 DEF Rotate
      <3>2. CASE ~Alive(tok[t].fam)
        BY <2>3, <3>1, <3>2 DEF Rotate
      <3>3. CASE Alive(tok[t].fam)
        <4>1. /\ at' = [at EXCEPT ![t] = "lookup"]
              /\ secret' = [secret EXCEPT ![tok[t].fam] = tok[t].gen + 1]
              /\ tok' = [tok EXCEPT ![t] = [tok[t] EXCEPT !.gen = @ + 1]]
          BY <2>3, <3>1, <3>3 DEF Rotate, Rotated
        <4>2. tok'[t].fam = tok[t].fam /\ tok'[t].gen = tok[t].gen + 1
          BY <3>1, <4>1
        <4> QED
          BY <3>1, <4>1, <4>2
      <3> QED
        BY <3>2, <3>3
    <2>4. CASE LookUpUser(t)
      BY <1>1, <2>4 DEF LookUpUser, Mishap
    <2>5. CASE EndSession(t) \/ EndAllSessions(t)
      BY <2>5 DEF EndSession, EndAllSessions, Ended
    <2>6. CASE DropIndexEntry(t) \/ FindSession(t) \/ ListSessions(t)
      BY <2>6 DEF DropIndexEntry, FindSession, ListSessions
    <2>7. CASE Reply(t)
      BY <2>7 DEF Reply
    <2>8. CASE StoreFails(t) \/ LoseReply(t) \/ RotateUnheard(t)
      BY <1>1, <2>8 DEF StoreFails, LoseReply, RotateUnheard, Mishap
    <2> QED
      BY <1>5, <2>1, <2>2, <2>3, <2>4, <2>5, <2>6, <2>7, <2>8 DEF TabStep
  <1>6. CASE (\E f \in Families : SessionExpires(f)) \/ IndexExpires \/ UNCHANGED vars
    <2>1. UNCHANGED <<at, tok, cookie>>
      BY <1>6 DEF SessionExpires, IndexExpires, vars, calls
    <2>2. \A f \in Families : secret'[f] \in {secret[f], None}
      BY <1>6 DEF SessionExpires, IndexExpires, vars, store, TypeOK
    <2> QED
      BY <1>2, <1>3, <2>1, <2>2 DEF Fresh, Alive, Current, Jar, Token
  <1> QED
    BY <1>2, <1>4, <1>5, <1>6 DEF Next, Fresh, Alive, Current, Jar

(* Both hold in every reachable state. *)
LEMMA JarInvariant == Spec => []JarInv
  <1>1. Init => IndexInv /\ FamiliesApart /\ JarInv
    BY SessionAssumption
       DEF Init, IndexInv, TokensWereDrawn, DroppedSessionsAreGone, ListsAreComplete,
           SessionsAreIndexed, FamiliesApart, JarInv, Fresh, Jar, Alive
  <1>2. IndexInv => TokensWereDrawn
    BY DEF IndexInv
  <1> QED
    BY <1>1, <1>2, NextIndexInv, NextFamiliesApart, NextJarInv, TypeCorrect, PTL
       DEF Spec

(* The only tab of a browser can refresh a live session while nothing was  *)
(* lost, whatever other browsers do.                                       *)
THEOREM CookieCurrent == Spec => []CookieIsCurrent
  <1>1. JarInv => CookieIsCurrent
    BY DEF JarInv, CookieIsCurrent, Fresh
  <1> QED
    BY <1>1, JarInvariant, PTL

(* The replay alarm is tripped only after a loss or by a second tab.       *)
THEOREM AlarmCaused == Spec => []AlarmHasACause
  <1>1. TypeOK /\ JarInv => AlarmHasACause
    BY DEF JarInv, AlarmHasACause, TypeOK
  <1> QED
    BY <1>1, TypeCorrect, JarInvariant, PTL

----------------------------------------------------------------------------
(* Roles and delegations.  What a request at work is about: the scopes of  *)
(* delegations lie within the owner's events, deleted ones aside, and no   *)
(* request names an event that does not exist yet.                         *)
DelegationOps == {"invite", "access", "edit", "approve", "decline", "revoke"}

CallRecord == [op : Ops, user : Users \cup {NoUser},
               owner : Owners \cup {NoUser}, scope : Scoped,
               step : {"idle", "look", "write"}, late : BOOLEAN]

Grounded(r) ==
    /\ r.op # "idle" => r.user \in Users
    /\ r.op \in DelegationOps => <<r.owner, r.user>> \in Pairs
    /\ r.scope.all => r.scope.events = {}
    /\ \A e \in r.scope.events : owner[e] # Unborn
    /\ r.op \in {"invite", "access", "edit"} =>
          \A e \in r.scope.events : owner[e] \in {r.owner, Gone}

AccessInv == AccessTypeOK /\ \A c \in Calls : Grounded(call[c])

(* Nobody has a right at the start, and no request is at work.             *)
LEMMA InitAccessInv == AccessInit => AccessInv
  <1> SUFFICES ASSUME AccessInit PROVE AccessInv
    OBVIOUS
  <1> USE AccessAssumption DEF AccessInit
  <1>1. AccessTypeOK
    <2>1. NoRow \in [status : {"none", "pending", "active", "declined",
                               "revoked"}, scope : Scoped]
          /\ ~NoRow.scope.all /\ NoRow.scope.events = {}
      BY DEF NoRow, Only, Scoped
    <2>2. Idle \in CallRecord
      BY DEF CallRecord, Idle, Ops, Only, Scoped
    <2>3. \A p \in Pairs :
             LET scope == delegation[p].scope
             IN  /\ scope.all => scope.events = {}
                 /\ scope.events \subseteq Owned(p[1])
      BY <2>1
    <2>4. call \in [Calls -> CallRecord]
      BY <2>2
    <2>5. unguarded \in BOOLEAN /\ padded \in BOOLEAN /\ writes \in 0..MaxWrites
      <3>1. unguarded \in BOOLEAN /\ padded \in BOOLEAN
        OBVIOUS
      <3>2. writes \in 0..MaxWrites
        OBVIOUS
      <3> QED
        BY <3>1, <3>2
    <2>6. /\ admins \subseteq Users
          /\ eventAdmins \subseteq Users \X Live
          /\ auditors \cup managers \subseteq Users \X Live
          /\ owner \in [Events -> Owners \cup {Unborn, Gone}]
          /\ excused \subseteq Users \X Events
      OBVIOUS
    <2>7. delegation \in [Pairs -> [status : {"none", "pending", "active",
                                   "declined", "revoked"}, scope : Scoped]]
      BY <2>1
    <2> QED
      BY <2>3, <2>4, <2>5, <2>6, <2>7 DEF AccessTypeOK, CallRecord
  <1>2. \A c \in Calls : Grounded(call[c])
    BY DEF Grounded, DelegationOps, Idle, Only
  <1> QED
    BY <1>1, <1>2 DEF AccessInv

(* A request with typed fields is a typed record.                          *)
LEMMA RequestIsTyped ==
  ASSUME NEW op \in Ops, NEW u \in Users, NEW o \in Owners, NEW s \in Scoped,
         NEW step \in {"look", "write"}
  PROVE  Request(op, u, o, s, step) \in CallRecord
  BY DEF Request, CallRecord

(* A request that begins is typed and grounded if its record is; all       *)
(* others stay as they are.                                                *)
LEMMA BeginIsTyped ==
  ASSUME AccessInv, NEW c \in Calls, NEW r \in CallRecord, Begin(c, r),
         Grounded(r)
  PROVE  AccessInv'
  <1>1. /\ call' = [call EXCEPT ![c] = r]
        /\ UNCHANGED <<seniors, auditors, managers, owner, delegation,
                       writes, excused>>
    BY DEF Begin, seniors, roles
  <1>2. AccessTypeOK'
    BY <1>1 DEF AccessInv, AccessTypeOK, CallRecord, Live, Owned, seniors
  <1>3. ASSUME NEW d \in Calls PROVE Grounded(call[d])'
    BY <1>1 DEF AccessInv, AccessTypeOK, Grounded
  <1> QED
    BY <1>2, <1>3 DEF AccessInv

(* When a request is answered, the others go on with the same record, late *)
(* or not.                                                                 *)
Goes(r, s) ==
    \/ r = Idle
    \/ r = s
    \/ r = [s EXCEPT !.late = TRUE]

CallsGoOn == call' \in [Calls -> CallRecord]
                /\ \A d \in Calls : Goes(call'[d], call[d])

(* Grounded requests stay grounded while they go on: an event does not     *)
(* change hands, it is only created and deleted.                           *)
LEMMA GoingStaysGrounded ==
  ASSUME AccessInv, CallsGoOn, NEW d \in Calls,
         \A e \in Events : owner[e] # Unborn => owner'[e] \in {owner[e], Gone}
  PROVE  Grounded(call[d])'
  <1>1. /\ Grounded(call[d]) /\ call[d] \in CallRecord
        /\ Goes(call'[d], call[d])
    BY DEF AccessInv, AccessTypeOK, CallRecord, CallsGoOn
  <1>2. CASE call'[d] = Idle
    BY <1>2 DEF Grounded, DelegationOps, Idle, Only
  <1>3. CASE call'[d] # Idle
    <2>1. /\ call'[d].op = call[d].op /\ call'[d].user = call[d].user
          /\ call'[d].owner = call[d].owner /\ call'[d].scope = call[d].scope
      BY <1>1, <1>3 DEF Goes, CallRecord
    <2>2. call[d].scope.events \subseteq Events
      BY <1>1 DEF CallRecord, Scoped
    <2>3. Unborn # Gone
      BY AccessAssumption
    <2> QED
      BY <1>1, <2>1, <2>2, <2>3 DEF Grounded
  <1> QED
    BY <1>2, <1>3

(* A write of a user's rights: the other calls go on, those for the same   *)
(* user late.                                                              *)
LEMMA RightsGoOn ==
  ASSUME AccessInv, NEW c \in Calls, NEW cause, Rights(c, cause)
  PROVE  /\ CallsGoOn
         /\ call'[c] = Idle
         /\ \A d \in Calls : call[d].user = call[c].user =>
               call'[d] = Idle \/ call'[d].late
         /\ writes' \in 0..MaxWrites
         /\ Settle(cause)
         /\ UNCHANGED <<seniors, owner>>
  <1>1. call' = [d \in Calls |->
                   IF d = c THEN Idle
                   ELSE IF call[d] # Idle /\ call[d].user = call[c].user
                        THEN [call[d] EXCEPT !.late = TRUE]
                        ELSE call[d]]
    BY DEF Rights, Answer
  <1>2. call \in [Calls -> CallRecord] /\ Idle \in CallRecord
    BY DEF AccessInv, AccessTypeOK, CallRecord, Idle, Ops, Only, Scoped
  <1>3. \A s \in CallRecord : /\ [s EXCEPT !.late = TRUE] \in CallRecord
                              /\ [s EXCEPT !.late = TRUE].late
    BY DEF CallRecord
  <1>4. CallsGoOn /\ call'[c] = Idle
    BY <1>1, <1>2, <1>3 DEF CallsGoOn, Goes
  <1>5. \A d \in Calls : call[d].user = call[c].user =>
           call'[d] = Idle \/ call'[d].late
    BY <1>1, <1>2, <1>3
  <1>6. writes' \in 0..MaxWrites
    BY AccessAssumption DEF AccessInv, AccessTypeOK, Rights, Written
  <1> QED
    BY <1>4, <1>5, <1>6 DEF Rights, seniors

(* The same for the removal of an admin.                                   *)
LEMMA RevocationGoesOn ==
  ASSUME AccessInv, NEW c \in Calls, Answer(c, RevokesAdmin)
  PROVE  /\ CallsGoOn
         /\ \A d \in Calls : call'[d].op = "admin" => call'[d].late
  <1>1. call' = [d \in Calls |->
                   IF d = c THEN Idle
                   ELSE IF call[d] # Idle /\ call[d].op = "admin"
                        THEN [call[d] EXCEPT !.late = TRUE]
                        ELSE call[d]]
    BY DEF Answer, RevokesAdmin
  <1>2. call \in [Calls -> CallRecord] /\ Idle \in CallRecord
    BY DEF AccessInv, AccessTypeOK, CallRecord, Idle, Ops, Only, Scoped
  <1>3. \A s \in CallRecord : /\ [s EXCEPT !.late = TRUE] \in CallRecord
                              /\ [s EXCEPT !.late = TRUE].late
                              /\ [s EXCEPT !.late = TRUE].op = s.op
    BY DEF CallRecord
  <1>4. Idle.op # "admin"
    BY DEF Idle
  <1> QED
    BY <1>1, <1>2, <1>3, <1>4 DEF CallsGoOn, Goes

(* And for the approval of an application, or the deletion of an event     *)
(* that has a Super Admin.                                                 *)
LEMMA OvertakenGoOn ==
  ASSUME AccessInv, call' = Overtaken
  PROVE  /\ CallsGoOn
         /\ \A d \in Calls : call'[d].op = "admin" => call'[d].late
  <1>1. /\ call \in [Calls -> CallRecord]
        /\ call' = [d \in Calls |-> [call[d] EXCEPT
                     !.late = call[d].late \/ call[d].op = "admin"]]
    BY DEF Overtaken, RevokesAdmin, AccessInv, AccessTypeOK, CallRecord
  <1>2. ASSUME NEW d \in Calls
        PROVE  /\ call'[d] \in CallRecord /\ Goes(call'[d], call[d])
               /\ call'[d].op = "admin" => call'[d].late
    <2>1. call[d] \in CallRecord /\ call[d].late \in BOOLEAN
      BY <1>1 DEF CallRecord
    <2>2. CASE call[d].op = "admin"
      <3>1. call'[d] = [call[d] EXCEPT !.late = TRUE]
        BY <1>1, <2>2
      <3> QED
        BY <2>1, <3>1 DEF CallRecord, Goes
    <2>3. CASE call[d].op # "admin"
      <3>1. call'[d] = [call[d] EXCEPT !.late = call[d].late]
        BY <1>1, <2>1, <2>3, Zenon
      <3>2. [call[d] EXCEPT !.late = call[d].late] = call[d]
        BY <2>1 DEF CallRecord
      <3> QED
        BY <2>1, <2>3, <3>1, <3>2 DEF Goes
    <2> QED
      BY <2>2, <2>3
  <1>3. call' \in [Calls -> CallRecord]
    BY <1>1, <1>2
  <1> QED
    BY <1>2, <1>3 DEF CallsGoOn

(* A step after which the calls go on and no event changes hands keeps the *)
(* requests grounded.                                                      *)
LEMMA CallsStayGrounded ==
  ASSUME AccessInv, CallsGoOn, UNCHANGED owner
  PROVE  \A d \in Calls : Grounded(call[d])'
  BY GoingStaysGrounded

(* Without an answer every call goes on as it is.                          *)
LEMMA SameCallsGoOn ==
  ASSUME AccessInv, UNCHANGED call PROVE CallsGoOn
  BY DEF AccessInv, AccessTypeOK, CallRecord, CallsGoOn, Goes

(* Every step leaves the types, and the requests grounded.                 *)
LEMMA NextAccessInv ==
  AccessInv /\ [AccessNext]_accessVars => AccessInv'
  <1> SUFFICES ASSUME AccessInv, [AccessNext]_accessVars PROVE AccessInv'
    OBVIOUS
  <1> USE AccessAssumption
  <1>1. ASSUME NEW c \in Calls, NEW u \in Users, NEW e \in Events,
               CheckAuditor(c, u, e) \/ CheckManager(c, u, e)
        PROVE  AccessInv'
    <2>1. PICK op \in {"auditor", "manager"} :
             Begin(c, Request(op, u, NoUser, Only({e}), "write"))
      BY <1>1 DEF CheckAuditor, CheckManager
    <2>2. owner[e] # Unborn
      BY <1>1 DEF CheckAuditor, CheckManager, Live
    <2> DEFINE r == Request(op, u, NoUser, Only({e}), "write")
    <2>3. r \in CallRecord /\ Grounded(r)
      BY <2>2 DEF CallRecord, Request, Only, Scoped, Ops, Grounded,
                  DelegationOps
    <2> QED
      BY <2>1, <2>3, BeginIsTyped
  <1>2. ASSUME NEW c \in Calls, NEW by \in Users, NEW u \in Users,
               NEW S, CountAdmins(c, by, u, S)
        PROVE  AccessInv'
    <2> DEFINE r == Request("admin", u, NoUser, Only(S), "write")
    <2>2. S \subseteq Events /\ \A e \in S : owner[e] # Unborn
      BY <1>2 DEF CountAdmins, Live
    <2>1. r \in CallRecord /\ Grounded(r)
      BY <2>2 DEF CallRecord, Request, Only, Scoped, Ops, Grounded, DelegationOps
    <2> QED
      BY <1>2, <2>1, BeginIsTyped DEF CountAdmins
  <1>3. ASSUME NEW c \in Calls, NEW p \in Pairs, NEW s \in Scopes(p[1]),
               \/ \E op \in {"invite", "access"} : CheckNew(c, op, p, s)
               \/ CheckScope(c, p, s)
        PROVE  AccessInv'
    <2>1. PICK op \in {"invite", "access", "edit"}, step \in {"look", "write"} :
             Begin(c, Request(op, p[2], p[1], s, step))
      BY <1>3 DEF CheckNew, CheckScope
    <2>2. p[1] \in Owners /\ p[2] \in Users /\ <<p[1], p[2]>> \in Pairs
      BY DEF Pairs
    <2>3. /\ s \in Scoped
          /\ s.all => s.events = {}
          /\ \A x \in s.events : owner[x] = p[1]
      <3>1. CASE s = Everything
        BY <3>1 DEF Everything, Scoped
      <3>2. CASE \E S \in SUBSET Owned(p[1]) : s = Only(S)
        <4>1. PICK S \in SUBSET Owned(p[1]) : s = Only(S)
          BY <3>2
        <4>2. s.all = FALSE /\ s.events = S
          BY <4>1 DEF Only
        <4>3. s \in Scoped
          BY <4>1 DEF Only, Scoped, Owned
        <4> QED
          BY <4>2, <4>3 DEF Owned
      <3> QED
        BY <3>1, <3>2 DEF Scopes
    <2> DEFINE r == Request(op, p[2], p[1], s, step)
    <2>7. op \in DelegationOps /\ op \in Ops
      BY DEF DelegationOps, Ops
    <2>5. r \in CallRecord
      BY <2>2, <2>3, <2>7, RequestIsTyped
    <2>4. r.op = op /\ r.user = p[2] /\ r.owner = p[1] /\ r.scope = s
      BY DEF Request
    <2>6. Grounded(r)
      <3> HIDE DEF r
      <3>1. /\ r.user \in Users /\ <<r.owner, r.user>> \in Pairs
            /\ r.scope.all => r.scope.events = {}
        BY <2>2, <2>3, <2>4
      <3>2. \A x \in r.scope.events : owner[x] = r.owner /\ owner[x] # Unborn
        BY <2>2, <2>3, <2>4
      <3> QED
        BY <3>1, <3>2 DEF Grounded
    <2> QED
      BY <2>1, <2>5, <2>6, BeginIsTyped
  <1>4. ASSUME NEW c \in Calls, NEW p \in Pairs,
               NEW op \in {"approve", "decline", "revoke"}, Decide(c, p, op)
        PROVE  AccessInv'
    <2> DEFINE r == Request(op, p[2], p[1], Only({}), "write")
    <2>1. p[1] \in Owners /\ p[2] \in Users /\ <<p[1], p[2]>> \in Pairs
      BY DEF Pairs
    <2>2. r \in CallRecord /\ Grounded(r)
      BY <2>1 DEF CallRecord, Request, Only, Scoped, Ops, Grounded
    <2> QED
      BY <1>4, <2>2, BeginIsTyped DEF Decide
  <1>5. ASSUME NEW c \in Calls, LookForRow(c) \/ CallStops(c)
        PROVE  AccessInv'
    <2>1. UNCHANGED <<seniors, auditors, managers, owner, delegation,
                      writes, excused>>
      BY <1>5 DEF LookForRow, CallStops, seniors, roles
    <2>2. call \in [Calls -> CallRecord] /\ Idle \in CallRecord
      BY DEF AccessInv, AccessTypeOK, CallRecord, Idle, Ops, Only, Scoped
    <2>3. call' \in [Calls -> CallRecord]
      BY <1>5, <2>2 DEF LookForRow, CallStops, End, CallRecord
    <2>4. AccessTypeOK'
      BY <2>1, <2>3 DEF AccessInv, AccessTypeOK, CallRecord, Live, Owned, seniors
    <2>5. ASSUME NEW d \in Calls PROVE Grounded(call[d])'
      <3>1. CASE call'[d] = Idle
        BY <3>1 DEF Grounded, DelegationOps, Idle, Only
      <3>2. CASE call'[d] # Idle
        <4>1. /\ call'[d].op = call[d].op /\ call'[d].user = call[d].user
              /\ call'[d].owner = call[d].owner /\ call'[d].scope = call[d].scope
          BY <1>5, <2>2, <3>2 DEF LookForRow, CallStops, End, CallRecord
        <4> QED
          BY <2>1, <4>1 DEF AccessInv, Grounded
      <3> QED
        BY <3>1, <3>2
    <2> QED
      BY <2>4, <2>5 DEF AccessInv
  <1>6. ASSUME NEW c \in Calls, InsertRole(c) PROVE AccessInv'
    <2> DEFINE new == {<<call[c].user, e>> : e \in call[c].scope.events \cap Live}
    <2>1. PICK cause : Rights(c, cause)
      BY <1>6 DEF InsertRole
    <2>2. /\ CallsGoOn /\ writes' \in 0..MaxWrites
          /\ UNCHANGED <<seniors, owner>>
          /\ Settle(cause)
      BY <2>1, RightsGoOn
    <2>3. call[c].user \in Users
      BY <1>6 DEF InsertRole, AccessInv, Grounded
    <2>4. new \subseteq Users \X Live
      BY <2>3
    <2>5. /\ auditors' \cup managers' \subseteq Users \X Live
          /\ delegation' = delegation
      BY <1>6, <2>4 DEF InsertRole, AccessInv, AccessTypeOK
    <2>6. Live' = Live
      BY <2>2 DEF Live
    <2>7. excused' \subseteq Users \X Events
      BY <2>2, <2>5, <2>6
         DEF Settle, Conflicts, AccessInv, AccessTypeOK, Live
    <2>8. AccessTypeOK'
      BY <2>2, <2>5, <2>6, <2>7
         DEF AccessInv, AccessTypeOK, CallsGoOn, CallRecord, Owned, seniors
    <2> QED
      BY <2>2, <2>8, CallsStayGrounded DEF AccessInv
  <1>7. ASSUME NEW u \in Users, NEW e \in Events, RevokeRole(u, e)
        PROVE  AccessInv'
    <2>1. /\ UNCHANGED <<seniors, owner, delegation, call>>
          /\ auditors' \subseteq auditors /\ managers' \subseteq managers
          /\ writes' \in 0..MaxWrites
      BY <1>7 DEF RevokeRole, seniors, Written, AccessInv, AccessTypeOK
    <2>2. Live' = Live
      BY <2>1 DEF Live
    <2>3. excused' \subseteq Users \X Events
      BY <1>7, <2>1 DEF RevokeRole, Settle, Conflicts, AccessInv, AccessTypeOK,
                        Live
    <2>4. AccessTypeOK'
      BY <2>1, <2>2, <2>3 DEF AccessInv, AccessTypeOK, Owned, seniors
    <2> QED
      BY <2>1, <2>4, SameCallsGoOn, CallsStayGrounded DEF AccessInv
  <1>8. ASSUME NEW u \in Users, GrantAdmin(u) PROVE AccessInv'
    <2>1. /\ UNCHANGED <<auditors, managers, owner, delegation, call, excused,
                         eventAdmins, unguarded, padded>>
          /\ admins' = admins \cup {u}
          /\ writes' \in 0..MaxWrites
      BY <1>8 DEF GrantAdmin, roles, Written, AccessInv, AccessTypeOK
    <2>2. AccessTypeOK'
      BY <2>1 DEF AccessInv, AccessTypeOK, Live, Owned
    <2> QED
      BY <2>1, <2>2, SameCallsGoOn, CallsStayGrounded DEF AccessInv
  <1>16. ASSUME NEW u \in Users, NEW e \in Events, GrantEventAdmin(u, e)
         PROVE  AccessInv'
    <2>1. /\ UNCHANGED <<auditors, managers, owner, delegation, call, excused,
                         admins, unguarded, padded>>
          /\ e \in Live /\ eventAdmins' = eventAdmins \cup {<<u, e>>}
          /\ writes' \in 0..MaxWrites
      BY <1>16 DEF GrantEventAdmin, roles, Written, AccessInv, AccessTypeOK
    <2>2. AccessTypeOK'
      BY <2>1 DEF AccessInv, AccessTypeOK, Live, Owned
    <2> QED
      BY <2>1, <2>2, SameCallsGoOn, CallsStayGrounded DEF AccessInv
  <1>9. ASSUME NEW c \in Calls, DeleteAdmin(c) PROVE AccessInv'
    <2>1. CallsGoOn
      BY <1>9, RevocationGoesOn DEF DeleteAdmin
    <2>2. /\ UNCHANGED <<auditors, managers, owner, delegation, excused>>
          /\ admins' \subseteq admins /\ eventAdmins' \subseteq eventAdmins
          /\ writes' \in 0..MaxWrites
      <3>1. CASE TakeAdmin(call[c].user, call[c].late)
        BY <3>1 DEF TakeAdmin, roles, Written, AccessInv, AccessTypeOK
      <3>2. CASE \E e \in call[c].scope.events : TakeEventAdmin(call[c].user, e)
        BY <3>2 DEF TakeEventAdmin, roles, Written, AccessInv, AccessTypeOK
      <3> QED
        BY <1>9, <3>1, <3>2 DEF DeleteAdmin
    <2>3. unguarded' \in BOOLEAN /\ padded' \in BOOLEAN
      BY <1>9 DEF DeleteAdmin, TakeAdmin, TakeEventAdmin, AccessInv, AccessTypeOK
    <2>4. AccessTypeOK'
      BY <2>1, <2>2, <2>3 DEF AccessInv, AccessTypeOK, CallsGoOn, CallRecord,
                              Live, Owned
    <2> QED
      BY <2>1, <2>2, <2>4, CallsStayGrounded DEF AccessInv
  <1>10. ASSUME NEW u \in Applicants, ApproveApplication(u) PROVE AccessInv'
    <2>1. CallsGoOn
      BY <1>10, OvertakenGoOn DEF ApproveApplication
    <2>2. /\ UNCHANGED <<auditors, managers, owner, delegation, excused>>
          /\ admins' \subseteq admins /\ eventAdmins' \subseteq eventAdmins
          /\ writes' \in 0..MaxWrites
      BY <1>10 DEF ApproveApplication, TakeAdmin, roles, Written, AccessInv,
                  AccessTypeOK
    <2>3. unguarded' \in BOOLEAN /\ padded' \in BOOLEAN
      BY <1>10 DEF ApproveApplication, TakeAdmin, AccessInv, AccessTypeOK
    <2>4. AccessTypeOK'
      BY <2>1, <2>2, <2>3 DEF AccessInv, AccessTypeOK, CallsGoOn, CallRecord,
                              Live, Owned
    <2> QED
      BY <2>1, <2>2, <2>4, CallsStayGrounded DEF AccessInv
  <1>11. ASSUME NEW c \in Calls, WriteRow(c) PROVE AccessInv'
    <2> DEFINE q == Pair(c)
               s == call[c].scope
    <2>1. PICK cause : Rights(c, cause)
      BY <1>11 DEF WriteRow
    <2>2. /\ CallsGoOn /\ writes' \in 0..MaxWrites
          /\ UNCHANGED <<seniors, owner>>
          /\ Settle(cause)
      BY <2>1, RightsGoOn
    <2>3. /\ auditors' = auditors /\ managers' = managers
          /\ call[c].op \in {"invite", "access", "edit"}
          /\ s.events \subseteq Live
      BY <1>11 DEF WriteRow, roles
    <2>4. q \in Pairs /\ s \in Scoped /\ q[1] = call[c].owner
      BY <2>3 DEF Pair, AccessInv, AccessTypeOK, Grounded, DelegationOps
    <2>5. /\ s.all => s.events = {}
          /\ s.events \subseteq Owned(q[1])
      BY <2>3, <2>4, AccessAssumption
         DEF AccessInv, Grounded, Live, Owned, Scoped
    <2>6. PICK status \in {"none", "pending", "active", "declined", "revoked"} :
             delegation' = [delegation EXCEPT ![q] =
                              [status |-> status, scope |-> s]]
      BY <1>11, <2>3, <2>4 DEF WriteRow, AccessInv, AccessTypeOK
    <2>7. /\ delegation' \in
               [Pairs -> [status : {"none", "pending", "active", "declined",
                                    "revoked"}, scope : Scoped]]
          /\ \A p \in Pairs :
                /\ delegation'[p].scope.all => delegation'[p].scope.events = {}
                /\ delegation'[p].scope.events \subseteq Owned(p[1])
      BY <2>4, <2>5, <2>6 DEF AccessInv, AccessTypeOK
    <2>8. Live' = Live /\ \A o : Owned(o)' = Owned(o)
      BY <2>2 DEF Live, Owned
    <2>9. excused' \subseteq Users \X Events
      BY <2>2, <2>3 DEF Settle, Conflicts, AccessInv, AccessTypeOK, Live
    <2>10. AccessTypeOK'
      BY <2>2, <2>3, <2>7, <2>8, <2>9
         DEF AccessInv, AccessTypeOK, CallsGoOn, CallRecord, seniors
    <2> QED
      BY <2>2, <2>10, CallsStayGrounded DEF AccessInv
  <1>12. ASSUME NEW c \in Calls, WriteStatus(c) PROVE AccessInv'
    <2> DEFINE q == Pair(c)
    <2>1. PICK cause : Rights(c, cause)
      BY <1>12 DEF WriteStatus
    <2>2. /\ CallsGoOn /\ writes' \in 0..MaxWrites
          /\ UNCHANGED <<seniors, owner>>
          /\ Settle(cause)
      BY <2>1, RightsGoOn
    <2>3. auditors' = auditors /\ managers' = managers
      BY <1>12 DEF WriteStatus, roles
    <2>4. PICK status \in {"active", "declined", "revoked"} :
             delegation' = [delegation EXCEPT ![q].status = status]
      BY <1>12 DEF WriteStatus
    <2>5. q \in Pairs
      BY <1>12 DEF WriteStatus, Pair, AccessInv, Grounded, DelegationOps
    <2>6. /\ delegation' \in
               [Pairs -> [status : {"none", "pending", "active", "declined",
                                    "revoked"}, scope : Scoped]]
          /\ \A p \in Pairs : delegation'[p].scope = delegation[p].scope
      BY <2>4, <2>5 DEF AccessInv, AccessTypeOK
    <2>7. Live' = Live /\ \A o : Owned(o)' = Owned(o)
      BY <2>2 DEF Live, Owned
    <2>8. excused' \subseteq Users \X Events
      BY <2>2, <2>3 DEF Settle, Conflicts, AccessInv, AccessTypeOK, Live
    <2>9. AccessTypeOK'
      BY <2>2, <2>3, <2>6, <2>7, <2>8
         DEF AccessInv, AccessTypeOK, CallsGoOn, CallRecord, seniors
    <2> QED
      BY <2>2, <2>9, CallsStayGrounded DEF AccessInv
  <1>13. ASSUME NEW u \in Owners, NEW e \in Events, CreateEvent(u, e)
         PROVE  AccessInv'
    <2>1. /\ UNCHANGED <<seniors, auditors, delegation, call, excused>>
          /\ owner[e] = Unborn /\ owner' = [owner EXCEPT ![e] = u]
          /\ managers' = managers \cup {<<u, e>>}
          /\ writes' \in 0..MaxWrites
      BY <1>13 DEF CreateEvent, seniors, Written, AccessInv, AccessTypeOK
    <2>2. /\ owner' \in [Events -> Owners \cup {Unborn, Gone}]
          /\ Live \subseteq Live' /\ e \in Live'
          /\ \A o : o # Unborn => Owned(o) \subseteq Owned(o)'
      BY <2>1 DEF AccessInv, AccessTypeOK, Live, Owned
    <2>3. \A p \in Pairs : p[1] # Unborn
      BY DEF Pairs
    <2>4. /\ auditors' \cup managers' \subseteq Users \X Live'
          /\ eventAdmins' \subseteq Users \X Live'
      BY <2>1, <2>2 DEF AccessInv, AccessTypeOK, seniors
    <2>5. AccessTypeOK'
      BY <2>1, <2>2, <2>3, <2>4 DEF AccessInv, AccessTypeOK, seniors
    <2>6. \A x \in Events : owner[x] # Unborn => owner'[x] \in {owner[x], Gone}
      BY <2>1 DEF AccessInv, AccessTypeOK
    <2> QED
      BY <2>1, <2>5, <2>6, SameCallsGoOn, GoingStaysGrounded DEF AccessInv
  <1>14. ASSUME NEW e \in Events, DeleteEvent(e) PROVE AccessInv'
    <2>1. /\ UNCHANGED <<admins, unguarded, padded>>
          /\ owner' = [owner EXCEPT ![e] = Gone]
          /\ eventAdmins' = Without(eventAdmins, e)
          /\ call' = call \/ call' = Overtaken
          /\ auditors' = Without(auditors, e) /\ managers' = Without(managers, e)
          /\ delegation' = [p \in Pairs |->
                              [delegation[p] EXCEPT !.scope.events = @ \ {e}]]
          /\ Settle(FALSE)
      BY <1>14 DEF DeleteEvent
    <2>9. writes' \in 0..MaxWrites
      BY <1>14 DEF DeleteEvent, Written, AccessInv, AccessTypeOK
    <2>2. /\ owner' \in [Events -> Owners \cup {Unborn, Gone}]
          /\ Live' = Live \ {e}
          /\ \A o : o # Gone => Owned(o)' = Owned(o) \ {e}
      BY <2>1 DEF AccessInv, AccessTypeOK, Live, Owned
    <2>3. /\ auditors' \cup managers' \subseteq Users \X Live'
          /\ eventAdmins' \subseteq Users \X Live'
      BY <2>1, <2>2 DEF AccessInv, AccessTypeOK, Without
    <2>12. CallsGoOn
      BY <2>1, SameCallsGoOn, OvertakenGoOn
    <2>4. /\ delegation' \in
               [Pairs -> [status : {"none", "pending", "active", "declined",
                                    "revoked"}, scope : Scoped]]
          /\ \A p \in Pairs :
                /\ delegation'[p].scope.all = delegation[p].scope.all
                /\ delegation'[p].scope.events = delegation[p].scope.events \ {e}
      <3> DEFINE Row == [status : {"none", "pending", "active", "declined",
                                   "revoked"}, scope : Scoped]
      <3>1. ASSUME NEW p \in Pairs
            PROVE  /\ delegation'[p] \in Row
                   /\ delegation'[p].scope.all = delegation[p].scope.all
                   /\ delegation'[p].scope.events =
                         delegation[p].scope.events \ {e}
        <4>1. delegation[p] \in Row
          BY DEF AccessInv, AccessTypeOK
        <4>2. delegation'[p] = [delegation[p] EXCEPT !.scope =
                 [delegation[p].scope EXCEPT
                    !.events = delegation[p].scope.events \ {e}]]
          BY <2>1
        <4>3. [delegation[p].scope EXCEPT
                 !.events = delegation[p].scope.events \ {e}] \in Scoped
          BY <4>1 DEF Scoped
        <4> QED
          BY <4>1, <4>2, <4>3 DEF Scoped
      <3>2. delegation' \in [Pairs -> Row]
        BY <2>1, <3>1
      <3> QED
        BY <3>1, <3>2
    <2>5. \A p \in Pairs : p[1] # Gone
      BY DEF Pairs
    <2>6. excused' \subseteq Users \X Events
      BY <2>1 DEF Settle, AccessInv, AccessTypeOK
    <2>10. \A p \in Pairs :
              LET scope == delegation[p].scope
              IN  /\ scope'.all => scope'.events = {}
                  /\ scope'.events \subseteq Owned(p[1])'
      BY <2>2, <2>4, <2>5 DEF AccessInv, AccessTypeOK
    <2>11. /\ admins' \subseteq Users
           /\ unguarded' \in BOOLEAN /\ padded' \in BOOLEAN
           /\ call' \in [Calls -> [op : Ops, user : Users \cup {NoUser},
                                   owner : Owners \cup {NoUser}, scope : Scoped,
                                   step : {"idle", "look", "write"},
                                   late : BOOLEAN]]
      BY <2>1, <2>12 DEF AccessInv, AccessTypeOK, CallsGoOn, CallRecord
    <2>7. AccessTypeOK'
      BY <2>2, <2>3, <2>4, <2>6, <2>9, <2>10, <2>11 DEF AccessTypeOK
    <2>8. \A x \in Events : owner[x] # Unborn => owner'[x] \in {owner[x], Gone}
      BY <2>1 DEF AccessInv, AccessTypeOK
    <2> QED
      BY <2>7, <2>8, <2>12, GoingStaysGrounded DEF AccessInv
  <1>15. CASE UNCHANGED accessVars
    <2>1. UNCHANGED <<seniors, auditors, managers, owner, delegation,
                      call, writes, excused>>
      BY <1>15 DEF accessVars, seniors, roles
    <2>2. AccessTypeOK'
      BY <2>1 DEF AccessInv, AccessTypeOK, Live, Owned, seniors
    <2> QED
      BY <2>1, <2>2, SameCallsGoOn, CallsStayGrounded DEF AccessInv
  <1> QED
    BY <1>1, <1>2, <1>3, <1>4, <1>5, <1>6, <1>7, <1>8, <1>9, <1>10, <1>11,
       <1>12, <1>13, <1>14, <1>15, <1>16
    DEF AccessNext

(* Every variable of roles and delegations keeps its type, for any number  *)
(* of users, events and requests; in particular no role and no scope ever  *)
(* names an event that is gone, whatever was deleted between a check and   *)
(* its write.                                                              *)
THEOREM AccessTypeCorrect == AccessSpec => []AccessTypeOK
  <1>1. AccessInv => AccessTypeOK
    BY DEF AccessInv
  <1> QED
    BY <1>1, InitAccessInv, NextAccessInv, PTL DEF AccessSpec

----------------------------------------------------------------------------
(* What a request has checked holds until it writes, unless it is late:    *)
(* every other write of the same user's rights makes it late, deletions    *)
(* and revocations only take rights away, and an event that is created is  *)
(* audited by nobody and named by no request.                              *)
Sound(r) ==
    ~r.late =>
       /\ r.op = "auditor" => r.scope.events \cap Manages(r.user) = {}
       /\ r.op = "manager" => r.scope.events \cap Audits(r.user) = {}
       /\ r.op \in {"invite", "access", "edit"} =>
             Reach(r.owner, r.scope) \cap Audits(r.user) = {}

SepInv ==
    /\ SeparationUnlessRaced
    /\ \A c \in Calls : Sound(call[c])

(* Events that have been created.                                          *)
Born == {e \in Events : owner[e] # Unborn}

(* Requests that end, turn late or whose user's rights do not grow stay    *)
(* sound; a new event does not count.                                      *)
LEMMA CallStaysSound ==
  ASSUME AccessInv, SepInv, CallsGoOn, NEW d \in Calls,
         \/ call'[d] = Idle
         \/ call'[d].late
         \/ \A u \in Users : u = call[d].user =>
               /\ Manages(u)' \cap Born \subseteq Manages(u)
               /\ Audits(u)' \subseteq Audits(u),
         \A o \in Owners, s \in Scoped :
            s = call[d].scope => Reach(o, s)' \cap Born \subseteq Reach(o, s)
  PROVE  Sound(call[d])'
  <1>1. CASE call'[d] = Idle
    BY <1>1 DEF Sound, Idle
  <1>2. CASE call'[d].late
    BY <1>2 DEF Sound
  <1>3. CASE call'[d] # Idle /\ ~call'[d].late
    <2>1. call[d] \in CallRecord /\ Goes(call'[d], call[d])
      BY DEF AccessInv, AccessTypeOK, CallRecord, CallsGoOn
    <2>2. [call[d] EXCEPT !.late = TRUE].late
      BY <2>1 DEF CallRecord
    <2>3. call'[d] = call[d]
      BY <1>3, <2>1, <2>2 DEF Goes
    <2>4. Sound(call[d]) /\ Grounded(call[d]) /\ call[d].scope \in Scoped
      BY <2>1 DEF SepInv, AccessInv, CallRecord
    <2>5. CASE call[d].op = "idle"
      BY <2>3, <2>5 DEF Sound
    <2>6. CASE call[d].op # "idle"
      <3>1. PICK u \in Users : u = call[d].user
        BY <2>4, <2>6 DEF Grounded
      <3>2. /\ Manages(u)' \cap Born \subseteq Manages(u)
            /\ Audits(u)' \subseteq Audits(u)
        BY <1>3, <3>1
      <3>6. call[d].scope.events \subseteq Born
        BY <2>4 DEF Grounded, Born, Scoped
      <3>3. CASE call[d].op = "auditor"
        BY <1>3, <2>3, <2>4, <3>1, <3>2, <3>3, <3>6 DEF Sound
      <3>4. CASE call[d].op = "manager"
        BY <1>3, <2>3, <2>4, <3>1, <3>2, <3>4 DEF Sound
      <3>5. CASE call[d].op \in {"invite", "access", "edit"}
        <4>1. PICK o \in Owners, s \in Scoped :
                 o = call[d].owner /\ s = call[d].scope
          BY <2>4, <3>5 DEF Grounded, DelegationOps, Pairs
        <4>2. Reach(o, s) \cap Audits(u) = {}
          BY <1>3, <2>3, <2>4, <3>1, <3>5, <4>1 DEF Sound
        <4>3. Reach(o, s)' \cap Born \subseteq Reach(o, s)
          BY <4>1
        <4>4. Audits(u) \subseteq Born
          BY AccessAssumption
             DEF AccessInv, AccessTypeOK, Audits, Live, Born
        <4>5. Reach(o, s)' \cap Audits(u)' = {}
          BY <3>2, <4>2, <4>3, <4>4
        <4> QED
          BY <2>3, <3>1, <3>5, <4>1, <4>5 DEF Sound
      <3> QED
        BY <2>3, <3>3, <3>4, <3>5 DEF Sound
    <2> QED
      BY <2>5, <2>6
  <1> QED
    BY <1>1, <1>2, <1>3
(* A request that begins is sound if its checks passed; the others stay as *)
(* they are.                                                               *)
LEMMA BeginStaysSound ==
  ASSUME SepInv, NEW c \in Calls, NEW r, Begin(c, r), Sound(r),
         call \in [Calls -> CallRecord]
  PROVE  SepInv'
  <1>1. /\ call' = [call EXCEPT ![c] = r]
        /\ UNCHANGED <<seniors, auditors, managers, owner, delegation,
                       writes, excused>>
    BY DEF Begin, seniors, roles
  <1>2. /\ \A u : Manages(u)' = Manages(u) /\ Audits(u)' = Audits(u)
        /\ \A o, s : Reach(o, s)' = Reach(o, s)
        /\ Conflicts' = Conflicts
    BY <1>1 DEF Manages, Audits, Reach, Conflicts, Owned, Delegated, Active
  <1>3. SeparationUnlessRaced'
    BY <1>1, <1>2 DEF SepInv, SeparationUnlessRaced
  <1>4. ASSUME NEW d \in Calls PROVE Sound(call[d])'
    <2>1. Sound(call'[d])
      BY <1>1 DEF SepInv
    <2> QED
      BY <1>2, <2>1 DEF Sound
  <1> QED
    BY <1>3, <1>4 DEF SepInv

(* The separation that an unexcused step leaves: its conflicts are old, or *)
(* it has a cause.                                                         *)
LEMMA SettledConflicts ==
  ASSUME SeparationUnlessRaced, NEW cause, Settle(cause),
         cause \/ Conflicts' \subseteq Conflicts
  PROVE  SeparationUnlessRaced'
  BY DEF SeparationUnlessRaced, Settle

(* A user whose rows stay as they are keeps the same rights.               *)
LEMMA RightsOfOthers ==
  ASSUME UNCHANGED owner, NEW u,
         \A e \in Events : <<u, e>> \in managers' <=> <<u, e>> \in managers,
         \A p \in Pairs : p[2] = u => delegation'[p] = delegation[p]
  PROVE  Manages(u)' = Manages(u)
  <1>1. \A o, s : Reach(o, s)' = Reach(o, s)
    BY DEF Reach, Owned
  <1>2. Active(u)' = Active(u)
    BY DEF Active
  <1>3. Delegated(u)' = Delegated(u)
    <2>1. \A p \in Active(u) : delegation'[p] = delegation[p]
      BY DEF Active
    <2> QED
      BY <1>1, <1>2, <2>1 DEF Delegated
  <1> QED
    BY <1>3 DEF Manages, Owned

(* The last step of a request that changes its user's rights leaves every  *)
(* request sound and the separation of duties as it was, unless it is late *)
(* or has a cause of its own.                                              *)
LEMMA RightsStaySound ==
  ASSUME AccessInv, SepInv, NEW c \in Calls, NEW cause, Rights(c, cause),
         cause \/ Conflicts' \subseteq Conflicts,
         \A u \in Users : u # call[c].user =>
            Manages(u)' = Manages(u) /\ Audits(u)' = Audits(u)
  PROVE  SepInv'
  <1>1. /\ CallsGoOn
        /\ \A d \in Calls : call[d].user = call[c].user =>
              call'[d] = Idle \/ call'[d].late
        /\ Settle(cause)
        /\ UNCHANGED owner
    BY RightsGoOn
  <1>2. \A o, s : Reach(o, s)' = Reach(o, s)
    BY <1>1 DEF Reach, Owned
  <1>3. ASSUME NEW d \in Calls PROVE Sound(call[d])'
    <2>1. \/ call'[d] = Idle
          \/ call'[d].late
          \/ \A u \in Users : u = call[d].user =>
                /\ Manages(u)' \cap Born \subseteq Manages(u)
                /\ Audits(u)' \subseteq Audits(u)
      BY <1>1
    <2> QED
      BY <1>1, <1>2, <2>1, CallStaysSound
  <1>4. SeparationUnlessRaced'
    BY <1>1, SettledConflicts DEF SepInv
  <1> QED
    BY <1>3, <1>4 DEF SepInv

(* A step that adds no rights but those on a new event.                    *)
LEMMA FewerRightsStaySound ==
  ASSUME AccessInv, SepInv, CallsGoOn,
         \A u \in Users : /\ Manages(u)' \cap Born \subseteq Manages(u)
                          /\ Audits(u)' \subseteq Audits(u),
         \A o \in Owners, s \in Scoped : Reach(o, s)' \cap Born \subseteq Reach(o, s),
         UNCHANGED excused \/ Settle(FALSE),
         Conflicts' \subseteq Conflicts
  PROVE  SepInv'
  <1>1. ASSUME NEW d \in Calls PROVE Sound(call[d])'
    BY CallStaysSound
  <1>2. SeparationUnlessRaced'
    BY DEF SepInv, SeparationUnlessRaced, Settle
  <1> QED
    BY <1>1, <1>2 DEF SepInv

(* Steps that change no rights at all.                                     *)
LEMMA SameRightsStaySound ==
  ASSUME AccessInv, SepInv, CallsGoOn,
         UNCHANGED <<auditors, managers, owner, delegation, excused>>
  PROVE  SepInv'
  <1>1. /\ \A u : Manages(u)' = Manages(u) /\ Audits(u)' = Audits(u)
        /\ \A o, s : Reach(o, s)' = Reach(o, s)
        /\ Conflicts' = Conflicts
    BY DEF Manages, Audits, Reach, Conflicts, Owned, Delegated, Active
  <1> QED
    BY <1>1, FewerRightsStaySound

(* Every step keeps the separation of duties, unless it is raced.          *)
LEMMA NextSepInv ==
  AccessInv /\ SepInv /\ [AccessNext]_accessVars => SepInv'
  <1> SUFFICES ASSUME AccessInv, SepInv, [AccessNext]_accessVars PROVE SepInv'
    OBVIOUS
  <1>a. call \in [Calls -> CallRecord]
    BY DEF AccessInv, AccessTypeOK, CallRecord
  <1>b. /\ auditors \subseteq Users \X Live
        /\ managers \subseteq Users \X Live
    BY DEF AccessInv, AccessTypeOK
  <1>1. ASSUME NEW c \in Calls, NEW u \in Users, NEW e \in Events,
               CheckAuditor(c, u, e)
        PROVE  SepInv'
    <2> DEFINE r == Request("auditor", u, NoUser, Only({e}), "write")
    <2>1. Sound(r)
      BY <1>1 DEF CheckAuditor, Organizes, Request, Only, Sound
    <2> QED
      BY <1>1, <1>a, <2>1, BeginStaysSound DEF CheckAuditor
  <1>2. ASSUME NEW c \in Calls, NEW u \in Users, NEW e \in Events,
               CheckManager(c, u, e)
        PROVE  SepInv'
    <2> DEFINE r == Request("manager", u, NoUser, Only({e}), "write")
    <2>1. Sound(r)
      BY <1>2 DEF CheckManager, Request, Only, Sound
    <2> QED
      BY <1>2, <1>a, <2>1, BeginStaysSound DEF CheckManager
  <1>3. ASSUME NEW c \in Calls, NEW by \in Users, NEW u \in Users,
               NEW S, CountAdmins(c, by, u, S)
        PROVE  SepInv'
    <2>1. Sound(Request("admin", u, NoUser, Only(S), "write"))
      BY DEF Request, Sound
    <2> QED
      BY <1>3, <1>a, <2>1, BeginStaysSound DEF CountAdmins
  <1>4. ASSUME NEW c \in Calls, NEW p \in Pairs, NEW s \in Scopes(p[1]),
               \/ \E op \in {"invite", "access"} : CheckNew(c, op, p, s)
               \/ CheckScope(c, p, s)
        PROVE  SepInv'
    <2>1. PICK op \in {"invite", "access", "edit"}, step \in {"look", "write"} :
             Begin(c, Request(op, p[2], p[1], s, step))
      BY <1>4 DEF CheckNew, CheckScope
    <2>2. Reach(p[1], s) \cap Audits(p[2]) = {}
      BY <1>4 DEF CheckNew, CheckScope, Checked
    <2>3. Sound(Request(op, p[2], p[1], s, step))
      BY <2>2 DEF Request, Sound
    <2> QED
      BY <1>a, <2>1, <2>3, BeginStaysSound
  <1>5. ASSUME NEW c \in Calls, NEW p \in Pairs,
               NEW op \in {"approve", "decline", "revoke"}, Decide(c, p, op)
        PROVE  SepInv'
    <2>1. Sound(Request(op, p[2], p[1], Only({}), "write"))
      BY DEF Request, Sound
    <2> QED
      BY <1>5, <1>a, <2>1, BeginStaysSound DEF Decide
  <1>6. ASSUME NEW c \in Calls, LookForRow(c) \/ CallStops(c)
        PROVE  SepInv'
    <2>1. UNCHANGED <<seniors, auditors, managers, owner, delegation,
                      writes, excused>>
      BY <1>6 DEF LookForRow, CallStops, seniors, roles
    <2>2. /\ \A u : Manages(u)' = Manages(u) /\ Audits(u)' = Audits(u)
          /\ \A o, s : Reach(o, s)' = Reach(o, s)
          /\ Conflicts' = Conflicts
      BY <2>1 DEF Manages, Audits, Reach, Conflicts, Owned, Delegated, Active
    <2>3. ASSUME NEW d \in Calls PROVE Sound(call[d])'
      <3>1. CASE call'[d] = Idle
        BY <3>1 DEF Sound, Idle
      <3>2. CASE call'[d] # Idle
        <4>1. /\ call'[d].op = call[d].op /\ call'[d].user = call[d].user
              /\ call'[d].owner = call[d].owner /\ call'[d].scope = call[d].scope
              /\ call'[d].late = call[d].late
          BY <1>6, <1>a, <3>2 DEF LookForRow, CallStops, End, CallRecord
        <4>2. Sound(call[d])
          BY DEF SepInv
        <4> QED
          BY <2>2, <4>1, <4>2 DEF Sound
      <3> QED
        BY <3>1, <3>2
    <2> QED
      BY <2>1, <2>2, <2>3 DEF SepInv, SeparationUnlessRaced
  <1>7. ASSUME NEW c \in Calls, InsertRole(c) PROVE SepInv'
    <2> DEFINE new == {<<call[c].user, e>> : e \in call[c].scope.events \cap Live}
               late == call[c].late
    <2>1. /\ Rights(c, late) /\ UNCHANGED owner /\ delegation' = delegation
      BY <1>7 DEF InsertRole, Rights
    <2>2. \/ /\ call[c].op = "auditor"
             /\ auditors' = auditors \cup new /\ managers' = managers
          \/ /\ call[c].op = "manager"
             /\ managers' = managers \cup new /\ auditors' = auditors
      BY <1>7 DEF InsertRole
    <2>3. \A u, e : u # call[c].user => <<u, e>> \notin new
      OBVIOUS
    <2>4. ASSUME NEW u \in Users, u # call[c].user
          PROVE  Manages(u)' = Manages(u) /\ Audits(u)' = Audits(u)
      BY <2>1, <2>2, <2>3, <2>4, RightsOfOthers DEF Audits
    <2>5. ASSUME ~late PROVE Conflicts' \subseteq Conflicts
      <3>1. Sound(call[c])
        BY DEF SepInv
      <3>2. ASSUME NEW e \in call[c].scope.events \cap Live
            PROVE  e \in Events
        BY DEF Live
      <3>3. \A u : Owned(u)' = Owned(u) /\ Delegated(u)' = Delegated(u)
        BY <2>1 DEF Owned, Delegated, Active, Reach
      <3>4. CASE call[c].op = "auditor"
        <4>1. auditors' = auditors \cup new /\ managers' = managers
          BY <2>2, <3>4
        <4>2. \A u : Manages(u)' = Manages(u)
          BY <3>3, <4>1 DEF Manages
        <4>3. \A r \in new : r[2] \notin Manages(r[1])
          BY <2>5, <3>1, <3>4 DEF Sound
        <4> QED
          BY <4>1, <4>2, <4>3 DEF Conflicts
      <3>5. CASE call[c].op = "manager"
        <4>1. managers' = managers \cup new /\ auditors' = auditors
          BY <2>2, <3>5
        <4>2. \A u : Manages(u)' \subseteq
                        Manages(u) \cup {e \in Events : <<u, e>> \in new}
          BY <3>3, <4>1 DEF Manages
        <4>3. \A r \in new : r \notin auditors
          BY <2>5, <3>1, <3>2, <3>5 DEF Sound, Audits
        <4>4. \A r \in auditors : r = <<r[1], r[2]>>
          BY <1>b
        <4> QED
          BY <4>1, <4>2, <4>3, <4>4 DEF Conflicts
      <3> QED
        BY <2>2, <3>4, <3>5
    <2>6. PICK cause : cause = late
      OBVIOUS
    <2>7. Rights(c, cause) /\ (cause \/ Conflicts' \subseteq Conflicts)
      BY <2>1, <2>5, <2>6, Zenon
    <2> QED
      BY <2>4, <2>7, RightsStaySound
  <1>8. ASSUME NEW u \in Users, NEW e \in Events, RevokeRole(u, e)
        PROVE  SepInv'
    <2>1. /\ UNCHANGED <<owner, delegation, call>>
          /\ auditors' \subseteq auditors /\ managers' \subseteq managers
          /\ Settle(FALSE)
      BY <1>8 DEF RevokeRole
    <2>2. /\ \A v : Manages(v)' \subseteq Manages(v)
          /\ \A v : Audits(v)' \subseteq Audits(v)
          /\ \A o, s : Reach(o, s)' = Reach(o, s)
      BY <2>1 DEF Manages, Audits, Reach, Owned, Delegated, Active
    <2>3. Conflicts' \subseteq Conflicts
      BY <2>1, <2>2 DEF Conflicts
    <2> QED
      BY <2>1, <2>2, <2>3, SameCallsGoOn, FewerRightsStaySound
  <1>9. ASSUME NEW u \in Users, GrantAdmin(u) PROVE SepInv'
    BY <1>9, SameCallsGoOn, SameRightsStaySound DEF GrantAdmin, roles
  <1>17. ASSUME NEW u \in Users, NEW e \in Events, GrantEventAdmin(u, e)
         PROVE  SepInv'
    BY <1>17, SameCallsGoOn, SameRightsStaySound DEF GrantEventAdmin, roles
  <1>10. ASSUME NEW c \in Calls, DeleteAdmin(c) PROVE SepInv'
    BY <1>10, RevocationGoesOn, SameRightsStaySound
       DEF DeleteAdmin, TakeAdmin, TakeEventAdmin, roles
  <1>11. ASSUME NEW u \in Applicants, ApproveApplication(u) PROVE SepInv'
    BY <1>11, OvertakenGoOn, SameRightsStaySound
       DEF ApproveApplication, TakeAdmin, roles
  <1>12. ASSUME NEW c \in Calls, WriteRow(c) PROVE SepInv'
    <2> DEFINE s == call[c].scope
               late == call[c].late
    <2>1. /\ Rights(c, late) /\ UNCHANGED owner
          /\ auditors' = auditors /\ managers' = managers
          /\ call[c].op \in {"invite", "access", "edit"}
      BY <1>12 DEF WriteRow, Rights, roles
    <2>3. PICK q \in Pairs : /\ q = Pair(c)
                              /\ q[1] = call[c].owner /\ q[2] = call[c].user
      BY <2>1 DEF Pair, AccessInv, Grounded, DelegationOps
    <2>2. PICK status : delegation' = [delegation EXCEPT ![q] =
                                         [status |-> status, scope |-> s]]
      BY <1>12, <2>3 DEF WriteRow
    <2>4. /\ \A p \in Pairs : p # q => delegation'[p] = delegation[p]
          /\ delegation'[q].scope = s
      BY <2>2, <2>3 DEF AccessInv, AccessTypeOK
    <2>5. ASSUME NEW u \in Users, u # call[c].user
          PROVE  Manages(u)' = Manages(u) /\ Audits(u)' = Audits(u)
      BY <2>1, <2>3, <2>4, <2>5, RightsOfOthers DEF Audits
    <2>6. ASSUME ~late PROVE Conflicts' \subseteq Conflicts
      <3>1. Reach(q[1], s) \cap Audits(q[2]) = {}
        BY <2>1, <2>3, <2>6 DEF SepInv, Sound
      <3>2. \A o, t : Reach(o, t)' = Reach(o, t)
        BY <2>1 DEF Reach, Owned
      <3>3. Delegated(q[2])' \subseteq Delegated(q[2]) \cup Reach(q[1], s)
        <4>1. \A p \in Active(q[2])' : p = q \/ p \in Active(q[2])
          BY <2>4 DEF Active
        <4>2. \A p \in Active(q[2])' :
                 Reach(p[1], delegation'[p].scope)
                   \subseteq Delegated(q[2]) \cup Reach(q[1], s)
          BY <2>4, <4>1 DEF Active, Delegated
        <4> QED
          BY <3>2, <4>2 DEF Delegated
      <3>4. Manages(q[2])' \subseteq Manages(q[2]) \cup Reach(q[1], s)
        BY <2>1, <3>3 DEF Manages, Owned
      <3>5. \A r \in auditors : r = <<r[1], r[2]>> /\ r[1] \in Users /\ r[2] \in Events
        BY <1>b DEF Live
      <3>6. \A r \in auditors : r[2] \in Manages(r[1])' => r[2] \in Manages(r[1])
        BY <2>3, <2>5, <3>1, <3>4, <3>5 DEF Audits
      <3> QED
        BY <2>1, <3>6 DEF Conflicts
    <2>7. PICK cause : cause = late
      OBVIOUS
    <2>8. Rights(c, cause) /\ (cause \/ Conflicts' \subseteq Conflicts)
      BY <2>1, <2>6, <2>7, Zenon
    <2> HIDE DEF s, late
    <2> QED
      BY <2>5, <2>8, RightsStaySound
  <1>13. ASSUME NEW c \in Calls, WriteStatus(c) PROVE SepInv'
    <2> DEFINE given == call[c].op = "approve"
    <2>1. /\ Rights(c, given) /\ UNCHANGED owner
          /\ auditors' = auditors /\ managers' = managers
      BY <1>13 DEF WriteStatus, Rights, roles
    <2>3. PICK q \in Pairs : /\ q = Pair(c)
                              /\ q[1] = call[c].owner /\ q[2] = call[c].user
      BY <1>13 DEF WriteStatus, Pair, AccessInv, Grounded, DelegationOps
    <2>2. PICK status :
             delegation' = [delegation EXCEPT ![q].status = status]
      BY <1>13, <2>3 DEF WriteStatus
    <2>4. /\ \A p \in Pairs : p # q => delegation'[p] = delegation[p]
          /\ delegation'[q].scope = delegation[q].scope
          /\ delegation'[q].status = status
      BY <2>2, <2>3 DEF AccessInv, AccessTypeOK
    <2>5. ASSUME NEW u \in Users, u # call[c].user
          PROVE  Manages(u)' = Manages(u) /\ Audits(u)' = Audits(u)
      BY <2>1, <2>3, <2>4, <2>5, RightsOfOthers DEF Audits
    <2>6. ASSUME ~given PROVE Conflicts' \subseteq Conflicts
      <3>1. \A o, t : Reach(o, t)' = Reach(o, t)
        BY <2>1 DEF Reach, Owned
      <3>6. delegation'[q].status \in {"declined", "revoked"}
        BY <1>13, <2>3, <2>6 DEF WriteStatus, AccessInv, AccessTypeOK
      <3>2. \A u : Active(u)' \subseteq Active(u)
        BY <2>4, <3>6 DEF Active
      <3>3. \A p \in Pairs : delegation'[p].scope = delegation[p].scope
        BY <2>4
      <3>4. \A u : Delegated(u)' \subseteq Delegated(u)
        BY <3>1, <3>2, <3>3 DEF Delegated, Active
      <3>5. \A u : Manages(u)' \subseteq Manages(u)
        BY <2>1, <3>4 DEF Manages, Owned
      <3> QED
        BY <2>1, <3>5 DEF Conflicts
    <2>7. PICK cause : cause = given
      OBVIOUS
    <2>8. Rights(c, cause) /\ (cause \/ Conflicts' \subseteq Conflicts)
      BY <2>1, <2>6, <2>7, Zenon
    <2> HIDE DEF given
    <2> QED
      BY <2>5, <2>8, RightsStaySound
  <1>14. ASSUME NEW u \in Owners, NEW e \in Events, CreateEvent(u, e)
         PROVE  SepInv'
    <2>1. /\ owner[e] = Unborn /\ owner' = [owner EXCEPT ![e] = u]
          /\ managers' = managers \cup {<<u, e>>}
          /\ UNCHANGED <<auditors, delegation, call, excused>>
      BY <1>14 DEF CreateEvent
    <2>2. e \notin Born /\ e \notin Live
      BY <2>1, AccessAssumption DEF Born, Live
    <2>3. \A o \in Users : Owned(o)' \subseteq Owned(o) \cup {e}
      BY <2>1 DEF AccessInv, AccessTypeOK, Owned
    <2>4. \A o \in Users : \A t : Reach(o, t)' \subseteq Reach(o, t) \cup {e}
      BY <2>3 DEF Reach
    <2>5. \A v : Delegated(v)' \subseteq Delegated(v) \cup {e}
      <3>1. \A v : Active(v)' = Active(v)
        BY <2>1 DEF Active
      <3>2. \A p \in Pairs : p[1] \in Users
        BY AccessAssumption DEF Pairs
      <3> QED
        BY <2>1, <2>4, <3>1, <3>2 DEF Delegated, Active
    <2>6. /\ \A v \in Users : Manages(v)' \subseteq Manages(v) \cup {e}
          /\ \A v : Audits(v)' = Audits(v)
      BY <2>1, <2>3, <2>5 DEF Manages, Audits
    <2>7. Conflicts' \subseteq Conflicts
      BY <1>b, <2>1, <2>2, <2>6 DEF Conflicts
    <2>8. \A o \in Owners, t \in Scoped :
             Reach(o, t)' \cap Born \subseteq Reach(o, t)
      BY <2>2, <2>4, AccessAssumption
    <2> QED
      BY <2>1, <2>2, <2>6, <2>7, <2>8, SameCallsGoOn, FewerRightsStaySound
  <1>15. ASSUME NEW e \in Events, DeleteEvent(e) PROVE SepInv'
    <2>1. /\ call' = call \/ call' = Overtaken
          /\ owner' = [owner EXCEPT ![e] = Gone]
          /\ auditors' \subseteq auditors /\ managers' \subseteq managers
          /\ delegation' = [p \in Pairs |->
                              [delegation[p] EXCEPT !.scope.events = @ \ {e}]]
          /\ Settle(FALSE)
      BY <1>15 DEF DeleteEvent, Without
    <2>2. \A o \in Users : Owned(o)' \subseteq Owned(o)
      BY <2>1, AccessAssumption DEF AccessInv, AccessTypeOK, Owned
    <2>3. \A o \in Users : \A t : Reach(o, t)' \subseteq Reach(o, t)
      BY <2>2 DEF Reach
    <2>4. \A p \in Pairs :
             /\ delegation'[p].status = delegation[p].status
             /\ delegation'[p].scope.all = delegation[p].scope.all
             /\ delegation'[p].scope.events \subseteq delegation[p].scope.events
      <3>1. ASSUME NEW p \in Pairs
            PROVE  /\ delegation'[p].status = delegation[p].status
                   /\ delegation'[p].scope.all = delegation[p].scope.all
                   /\ delegation'[p].scope.events
                         \subseteq delegation[p].scope.events
        <4>1. /\ delegation[p] \in [status : {"none", "pending", "active",
                                       "declined", "revoked"}, scope : Scoped]
              /\ delegation[p].scope \in Scoped
          BY DEF AccessInv, AccessTypeOK
        <4>2. delegation'[p] = [delegation[p] EXCEPT !.scope =
                 [delegation[p].scope EXCEPT
                    !.events = delegation[p].scope.events \ {e}]]
          BY <2>1
        <4> QED
          BY <4>1, <4>2 DEF Scoped
      <3> QED
        BY <3>1
    <2>5. \A v : Delegated(v)' \subseteq Delegated(v)
      <3>1. \A v : Active(v)' = Active(v)
        BY <2>4 DEF Active
      <3>2. \A p \in Pairs : p[1] \in Users
        BY AccessAssumption DEF Pairs
      <3>3. \A p \in Pairs : Reach(p[1], delegation[p].scope)'
                               \subseteq Reach(p[1], delegation[p].scope)
        BY <2>2, <2>4, <3>2 DEF Reach
      <3> QED
        BY <3>1, <3>3 DEF Delegated, Active
    <2>6. /\ \A v \in Users : Manages(v)' \subseteq Manages(v)
          /\ \A v : Audits(v)' \subseteq Audits(v)
      BY <2>1, <2>2, <2>5 DEF Manages, Audits
    <2>7. Conflicts' \subseteq Conflicts
      BY <1>b, <2>1, <2>6 DEF Conflicts
    <2> QED
      BY <2>1, <2>3, <2>6, <2>7, AccessAssumption, SameCallsGoOn,
         OvertakenGoOn, FewerRightsStaySound
  <1>16. CASE UNCHANGED accessVars
    BY <1>16, SameCallsGoOn, SameRightsStaySound DEF accessVars, roles, seniors
  <1> QED
    BY <1>1, <1>2, <1>3, <1>4, <1>5, <1>6, <1>7, <1>8, <1>9, <1>10, <1>11,
       <1>12, <1>13, <1>14, <1>15, <1>16, <1>17
    DEF AccessNext

(* checkSoD and checkAuditorOrganizerConflict, for any number of users,    *)
(* events and requests at work: nobody audits an event they own, organize  *)
(* or co-organize unless another change of their rights was written        *)
(* between a request's check and its write, or an owner approved.          *)
THEOREM SeparationHolds == AccessSpec => []SeparationUnlessRaced
  <1>1. AccessInit => SepInv
    BY DEF AccessInit, SepInv, SeparationUnlessRaced, Conflicts, Sound, Idle
  <1>2. SepInv => SeparationUnlessRaced
    BY DEF SepInv
  <1> QED
    BY <1>1, <1>2, InitAccessInv, NextAccessInv, NextSepInv, PTL
       DEF AccessSpec

----------------------------------------------------------------------------
(* A revocation that has counted the rows leaves one, unless it is late:   *)
(* any other that removes a row makes it late, and grants only add.        *)
AdmInv ==
    /\ AdminRemains
    /\ IsFiniteSet(eventAdmins)
    /\ \A c \in Calls : call[c].op = "admin" /\ ~call[c].late =>
          EnoughAdmins \/ unguarded

(* A step that takes no row away and lets no new revocation begin.         *)
LEMMA AdminsKept ==
  ASSUME AdmInv, admins \subseteq admins', IsFiniteSet(admins'),
         eventAdmins \subseteq eventAdmins', IsFiniteSet(eventAdmins'),
         UNCHANGED <<unguarded, padded>>,
         \A d \in Calls : call'[d].op = "admin" /\ ~call'[d].late =>
            call[d].op = "admin" /\ ~call[d].late
  PROVE  AdmInv'
  <1>1. /\ Cardinality(admins) \in Nat /\ Cardinality(admins') \in Nat
        /\ Cardinality(admins) <= Cardinality(admins')
    BY FS_Subset, FS_CardinalityType
  <1>2. /\ Cardinality(eventAdmins) \in Nat /\ Cardinality(eventAdmins') \in Nat
        /\ Cardinality(eventAdmins) <= Cardinality(eventAdmins')
    BY FS_Subset, FS_CardinalityType
  <1>3. EnoughAdmins => EnoughAdmins'
    BY <1>1, <1>2 DEF EnoughAdmins
  <1> QED
    BY <1>3 DEF AdmInv, AdminRemains

(* An admin is taken away: if there were rows enough, somebody is left or  *)
(* an event's Super Admin was counted, and every revocation at work is     *)
(* late now.                                                               *)
LEMMA AdminTaken ==
  ASSUME AdmInv, IsFiniteSet(admins), NEW u, admins' = admins \ {u},
         UNCHANGED eventAdmins,
         EnoughAdmins \/ unguarded',
         padded' = (padded \/ (admins = {u} /\ eventAdmins # {})),
         unguarded => unguarded',
         \A d \in Calls : call'[d].op = "admin" => call'[d].late
  PROVE  AdmInv'
  <1>1. EnoughAdmins /\ admins' = {} => unguarded' \/ padded'
    <2> SUFFICES ASSUME EnoughAdmins, admins' = {} PROVE unguarded' \/ padded'
      OBVIOUS
    <2>1. CASE admins = {}
      BY <2>1 DEF AdmInv, AdminRemains
    <2>2. CASE admins = {u}
      <3>1. Cardinality(admins) = 1
        BY <2>2, FS_Singleton
      <3>2. Cardinality(eventAdmins) > 0
        BY <3>1, FS_CardinalityType DEF EnoughAdmins, AdmInv
      <3>3. eventAdmins # {}
        BY <3>2, FS_EmptySet
      <3> QED
        BY <2>2, <3>3
    <2> QED
      BY <2>1, <2>2
  <1> QED
    BY <1>1 DEF AdmInv, AdminRemains

(* No admin is taken away, but every revocation at work is late now.       *)
LEMMA EventAdminTaken ==
  ASSUME AdmInv, UNCHANGED <<admins, unguarded, padded>>,
         eventAdmins' \subseteq eventAdmins,
         \A d \in Calls : call'[d].op = "admin" => call'[d].late
  PROVE  AdmInv'
  BY FS_Subset DEF AdmInv, AdminRemains

(* Every step keeps an admin, unless one was removed unguarded.            *)
LEMMA NextAdmInv ==
  AccessInv /\ AdmInv /\ [AccessNext]_accessVars => AdmInv'
  <1> SUFFICES ASSUME AccessInv, AdmInv, [AccessNext]_accessVars PROVE AdmInv'
    OBVIOUS
  <1>a. /\ call \in [Calls -> CallRecord]
        /\ admins \subseteq Users
        /\ IsFiniteSet(admins) /\ IsFiniteSet(Users)
        /\ unguarded \in BOOLEAN
        /\ IsFiniteSet(eventAdmins)
    BY AccessAssumption, FS_Subset DEF AccessInv, AccessTypeOK, CallRecord, AdmInv
  <1>b. UNCHANGED call => \A d \in Calls :
           call'[d].op = "admin" /\ ~call'[d].late =>
              call[d].op = "admin" /\ ~call[d].late
    OBVIOUS
  <1>1. ASSUME NEW c \in Calls, NEW r, Begin(c, r), r.op # "admin"
        PROVE  AdmInv'
    BY <1>1, <1>a, AdminsKept DEF Begin, seniors
  <1>2. ASSUME NEW c \in Calls, NEW by \in Users, NEW u \in Users,
               NEW S, CountAdmins(c, by, u, S)
        PROVE  AdmInv'
    BY <1>2 DEF CountAdmins, Begin, seniors, EnoughAdmins, AdmInv, AdminRemains
  <1>3. ASSUME NEW c \in Calls, LookForRow(c) \/ CallStops(c)
        PROVE  AdmInv'
    <2>1. UNCHANGED <<admins, eventAdmins, unguarded, padded>>
      BY <1>3 DEF LookForRow, CallStops, seniors
    <2>2. \A d \in Calls :
             call'[d].op # "idle" => /\ call'[d].op = call[d].op
                                     /\ call'[d].late = call[d].late
      BY <1>3, <1>a DEF LookForRow, CallStops, End, Idle, CallRecord
    <2> QED
      BY <1>a, <2>1, <2>2, AdminsKept
  <1>4. ASSUME NEW c \in Calls, NEW cause, Rights(c, cause) PROVE AdmInv'
    <2>1. CallsGoOn /\ UNCHANGED <<admins, eventAdmins, unguarded, padded>>
      BY <1>4, RightsGoOn DEF seniors
    <2>2. ASSUME NEW d \in Calls, call'[d].op = "admin", ~call'[d].late
          PROVE  call[d].op = "admin" /\ ~call[d].late
      <3>1. call[d] \in CallRecord /\ Goes(call'[d], call[d])
        BY <1>a, <2>1 DEF CallsGoOn
      <3> QED
        BY <2>2, <3>1 DEF Goes, Idle, CallRecord
    <2> QED
      BY <1>a, <2>1, <2>2, AdminsKept
  <1>5. ASSUME NEW u \in Users, GrantAdmin(u) PROVE AdmInv'
    <2>1. IsFiniteSet(admins')
      BY <1>5, <1>a, FS_AddElement DEF GrantAdmin
    <2> QED
      BY <1>5, <1>a, <1>b, <2>1, AdminsKept DEF GrantAdmin
  <1>18. ASSUME NEW u \in Users, NEW e \in Events, GrantEventAdmin(u, e)
         PROVE  AdmInv'
    <2>1. IsFiniteSet(eventAdmins')
      BY <1>18, <1>a, FS_AddElement DEF GrantEventAdmin
    <2> QED
      BY <1>18, <1>a, <1>b, <2>1, AdminsKept DEF GrantEventAdmin
  <1>6. ASSUME NEW c \in Calls, DeleteAdmin(c) PROVE AdmInv'
    <2>1. \A d \in Calls : call'[d].op = "admin" => call'[d].late
      BY <1>6, RevocationGoesOn DEF DeleteAdmin
    <2>2. CASE TakeAdmin(call[c].user, call[c].late)
      <3>1. /\ admins' = admins \ {call[c].user}
            /\ unguarded' = (unguarded \/ call[c].late)
            /\ padded' = (padded \/ (admins = {call[c].user} /\ eventAdmins # {}))
            /\ UNCHANGED eventAdmins
            /\ call[c].op = "admin"
        BY <1>6, <2>2 DEF DeleteAdmin, TakeAdmin, RevokesAdmin
      <3>2. EnoughAdmins \/ unguarded'
        BY <3>1 DEF AdmInv
      <3>3. PICK u : u = call[c].user
        OBVIOUS
      <3> QED
        BY <1>a, <2>1, <3>1, <3>2, <3>3, AdminTaken
    <2>3. CASE \E e \in call[c].scope.events : TakeEventAdmin(call[c].user, e)
      BY <2>1, <2>3, EventAdminTaken DEF TakeEventAdmin
    <2> QED
      BY <1>6, <2>2, <2>3 DEF DeleteAdmin
  <1>7. ASSUME NEW u \in Applicants, ApproveApplication(u) PROVE AdmInv'
    <2>1. \A d \in Calls : call'[d].op = "admin" => call'[d].late
      BY <1>7, OvertakenGoOn DEF ApproveApplication
    <2>2. /\ admins' = admins \ {u} /\ unguarded'
          /\ padded' = (padded \/ (admins = {u} /\ eventAdmins # {}))
          /\ UNCHANGED eventAdmins
      BY <1>7 DEF ApproveApplication, TakeAdmin
    <2> QED
      BY <1>a, <2>1, <2>2, AdminTaken
  <1>8. ASSUME NEW c \in Calls, NEW u \in Users, NEW e \in Events,
               CheckAuditor(c, u, e) \/ CheckManager(c, u, e)
        PROVE  AdmInv'
    <2>1. PICK op \in {"auditor", "manager"} :
             Begin(c, Request(op, u, NoUser, Only({e}), "write"))
      BY <1>8 DEF CheckAuditor, CheckManager
    <2>2. Request(op, u, NoUser, Only({e}), "write").op # "admin"
      BY DEF Request
    <2> QED
      BY <1>1, <2>1, <2>2
  <1>9. ASSUME NEW c \in Calls, NEW p \in Pairs, NEW s,
               \/ \E op \in {"invite", "access"} : CheckNew(c, op, p, s)
               \/ CheckScope(c, p, s)
               \/ \E op \in {"approve", "decline", "revoke"} : Decide(c, p, op)
        PROVE  AdmInv'
    <2>1. PICK op, t, step :
             /\ op \in DelegationOps
             /\ Begin(c, Request(op, p[2], p[1], t, step))
      BY <1>9 DEF CheckNew, CheckScope, Decide, DelegationOps
    <2>2. Request(op, p[2], p[1], t, step).op # "admin"
      BY <2>1 DEF Request, DelegationOps
    <2> QED
      BY <1>1, <2>1, <2>2
  <1>10. ASSUME NEW c \in Calls, InsertRole(c) PROVE AdmInv'
    BY <1>4, <1>10 DEF InsertRole
  <1>11. ASSUME NEW c \in Calls, WriteRow(c) PROVE AdmInv'
    BY <1>4, <1>11 DEF WriteRow
  <1>12. ASSUME NEW c \in Calls, WriteStatus(c) PROVE AdmInv'
    BY <1>4, <1>12 DEF WriteStatus
  <1>13. ASSUME UNCHANGED <<seniors, call>> PROVE AdmInv'
    BY <1>13, <1>a, <1>b, AdminsKept DEF seniors
  <1>14. ASSUME NEW u \in Users, NEW e \in Events, RevokeRole(u, e)
         PROVE  AdmInv'
    BY <1>13, <1>14 DEF RevokeRole
  <1>15. ASSUME NEW u \in Owners, NEW e \in Events, CreateEvent(u, e)
         PROVE  AdmInv'
    BY <1>13, <1>15 DEF CreateEvent
  <1>16. ASSUME NEW e \in Events, DeleteEvent(e) PROVE AdmInv'
    <2>1. CASE eventAdmins' = eventAdmins
      BY <1>13, <1>16, <2>1 DEF DeleteEvent, seniors
    <2>2. CASE eventAdmins' # eventAdmins
      <3>1. /\ call' = Overtaken
            /\ UNCHANGED <<admins, unguarded, padded>>
            /\ eventAdmins' \subseteq eventAdmins
        BY <1>16, <2>2 DEF DeleteEvent, Without
      <3> QED
        BY <3>1, OvertakenGoOn, EventAdminTaken
    <2> QED
      BY <2>1, <2>2
  <1>17. CASE UNCHANGED accessVars
    BY <1>13, <1>17 DEF accessVars
  <1> QED
    BY <1>2, <1>3, <1>5, <1>6, <1>7, <1>8, <1>9, <1>10, <1>11, <1>12, <1>14,
       <1>15, <1>16, <1>17, <1>18
    DEF AccessNext

(* RevokeUserRole's guard, for any number of admins, applicants, events    *)
(* and requests: somebody stays Super Admin of the platform unless a       *)
(* revocation was overtaken, an admin's own application was approved, or   *)
(* the Super Admin of an event made up the count.                          *)
THEOREM AdminStays == Founders # {} /\ AccessSpec => []AdminRemains
  <1>1. Founders # {} /\ AccessInit => AdmInv
    BY FS_EmptySet DEF AccessInit, AdmInv, AdminRemains, Idle
  <1>2. AdmInv => AdminRemains
    BY DEF AdmInv
  <1> QED
    BY <1>1, <1>2, InitAccessInv, NextAccessInv, NextAdmInv, PTL
       DEF AccessSpec
=============================================================================
