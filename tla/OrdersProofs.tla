---------------------------- MODULE OrdersProofs ----------------------------
(***************************************************************************)
(* Theorems about Orders, for any number of orders and of requests served  *)
(* at the same time, and with every fault: the types with the row lock,    *)
(* when an order can get a second ticket, what the webhook issues, and     *)
(* what an order's status follows.                                         *)
(***************************************************************************)
EXTENDS Orders, TLAPS

(* The initial state has the types. *)
LEMMA InitTypeOK == Init => TypeOK
  BY OrdersAssumption DEF Init, TypeOK, Steps, Statuses

(* No step leaves the types. *)
LEMMA NextTypeOK == TypeOK /\ [Next]_vars => TypeOK'
  <1> SUFFICES ASSUME TypeOK, [Next]_vars PROVE TypeOK'
    OBVIOUS
  <1> USE OrdersAssumption
      DEF TypeOK, Steps, Statuses, Notices, AllOperations, Placed, Go, Rest, Fault,
          database, midtrans, requests, history
  <1>1. ASSUME NEW o \in Orders, PlaceOrder(o) \/ PlaceOrderRefused(o)
        PROVE  TypeOK'
    BY <1>1 DEF PlaceOrder, PlaceOrderRefused
  <1>2. ASSUME NEW o \in Orders, Payment(o) PROVE TypeOK'
    BY <1>2 DEF Payment, Report
  <1>3. ASSUME NEW w \in Workers, NEW o \in Orders, NEW n \in Notices, Deliver(w, o, n)
        PROVE  TypeOK'
    BY <1>3 DEF Deliver, Begin
  <1>4. ASSUME NEW w \in Workers, NEW o \in Orders, StartComplete(w, o) \/ StartOTP(w, o)
        PROVE  TypeOK'
    BY <1>4 DEF StartComplete, StartOTP, Begin
  <1>5. ASSUME NEW o \in Orders, NEW s \in {"paid", "refunded", "pending"},
               UpdateTransactionStatus(o, s)
        PROVE  TypeOK'
    BY <1>5 DEF UpdateTransactionStatus
  <1>6. ASSUME NEW w \in Workers, UpdateOrderStatus(w) PROVE TypeOK'
    BY <1>6 DEF UpdateOrderStatus, StatusOf
  <1>7. ASSUME NEW w \in Workers, TakeSnapshot(w) PROVE TypeOK'
    BY <1>7 DEF TakeSnapshot, FindMissing
  <1>8. ASSUME NEW w \in Workers, InsertTicket(w) PROVE TypeOK'
    BY <1>8 DEF InsertTicket, AddTicket
  <1>9. ASSUME NEW w \in Workers, Answer(w) PROVE TypeOK'
    BY <1>9 DEF Answer
  <1>10. ASSUME NEW w \in Workers, LockOrder(w) PROVE TypeOK'
    BY <1>10 DEF LockOrder
  <1>11. ASSUME NEW w \in Workers, CountTickets(w) PROVE TypeOK'
    BY <1>11 DEF CountTickets, FindMissing
  <1>12. ASSUME NEW w \in Workers, CommitTicket(w) PROVE TypeOK'
    BY <1>12 DEF CommitTicket, AddTicket
  <1>13. ASSUME NEW w \in Workers, LookForTicket(w) PROVE TypeOK'
    BY <1>13 DEF LookForTicket, FindMissing
  <1>14. ASSUME NEW w \in Workers, MintTicket(w) PROVE TypeOK'
    BY <1>14 DEF MintTicket, AddTicket
  <1>15. ASSUME NEW w \in Workers, InsertFails(w) PROVE TypeOK'
    BY <1>15 DEF InsertFails
  <1>16. ASSUME NEW w \in Workers, CallFails(w) \/ Crash(w) PROVE TypeOK'
    <2>1. /\ pc' = [pc EXCEPT ![w] = "idle"]
          /\ ord' = [ord EXCEPT ![w] = None]
          /\ note' = [note EXCEPT ![w] = None]
          /\ missing' = [missing EXCEPT ![w] = FALSE]
          /\ rowLock' = Unlocked(w)
          /\ faults' = faults + 1
          /\ UNCHANGED <<status, tickets, gateway, inbox, raced, blind, dropped,
                         issuedBy, overridden>>
      BY <1>16 DEF CallFails, Crash
    <2>2. rowLock' \in [Orders -> Workers \cup {None}]
      BY <2>1 DEF Unlocked
    <2>3. ASSUME NEW u \in Workers, pc'[u] \in {"count", "commit"}
          PROVE  rowLock'[ord'[u]] = u
      BY <2>1, <2>3 DEF Unlocked
    <2> QED
      BY <2>1, <2>2, <2>3
  <1>17. ASSUME NEW w \in Workers, LookupFails(w) PROVE TypeOK'
    BY <1>17 DEF LookupFails
  <1>18. CASE UNCHANGED vars
    BY <1>18 DEF vars
  <1> HIDE OrdersAssumption
      DEF TypeOK, Steps, Statuses, Notices, AllOperations, Placed, Go, Rest, Fault,
          database, midtrans, requests, history
  <1> QED
    BY <1>1, <1>2, <1>3, <1>4, <1>5, <1>6, <1>7, <1>8, <1>9, <1>10, <1>11,
       <1>12, <1>13, <1>14, <1>15, <1>16, <1>17, <1>18 DEF Next, Advance

(* Every variable of every behaviour stays in its type. *)
THEOREM TypeCorrect == Spec => []TypeOK
  BY InitTypeOK, NextTypeOK, PTL DEF Spec

----------------------------------------------------------------------------
(* The inductive invariant behind OneTicketUnlessRaced: while no issuers   *)
(* overlapped and no lookup failed, an order has at most one request that found no ticket and   *)
(* is about to insert one, and none once the ticket is there.              *)
IssuerInv ==
    \A o \in Orders \ (raced \cup blind) :
        /\ tickets[o] <= 1
        /\ \A u \in Workers : Issuing(u, o) => tickets[o] = 0
        /\ \A u, v \in Workers : Issuing(u, o) /\ Issuing(v, o) => u = v

(* The steps that insert do so for a request that found no ticket, or that *)
(* could not look.                                                         *)
InsertersFoundNone ==
    \A w \in Workers : pc[w] \in {"insert", "mint"} => missing[w]

TicketInv == IssuerInv /\ InsertersFoundNone

(* A step of the other kinds starts no issuer and inserts no ticket. *)
LEMMA QuietKeepsTicketInv ==
    ASSUME TypeOK, TicketInv, UNCHANGED <<tickets, raced, blind>>,
           \A u \in Workers :
              pc'[u] \in {"insert", "commit", "mint"} =>
                 pc'[u] = pc[u] /\ ord'[u] = ord[u] /\ missing'[u] = missing[u]
    PROVE  TicketInv'
  BY DEF TicketInv, IssuerInv, InsertersFoundNone, Issuing

(* Looking for a ticket starts an issuer only if there is none: either the *)
(* order has no other issuer, or it is recorded as raced.  CompletePayment *)
(* cannot meet another one there, since both would hold the row's lock.    *)
LEMMA FindKeepsTicketInv ==
    ASSUME TypeOK, TicketInv, NEW w \in Workers,
           TakeSnapshot(w) \/ CountTickets(w) \/ LookForTicket(w)
    PROVE  TicketInv'
  <1> DEFINE o == ord[w]
             none == tickets[o] = 0
  <1>1. PICK a \in {"insert", "commit", "mint"}, b \in {"answer", "commit"} :
           /\ FindMissing(w, a, b)
           /\ pc[w] \in {"snapshot", "count", "look"}
           /\ b = "commit" => pc[w] = "count"
    BY DEF TakeSnapshot, CountTickets, LookForTicket
  <1>2. o \in Orders
    BY <1>1 DEF TypeOK
  <1>3. /\ UNCHANGED <<tickets, ord, blind>>
        /\ missing' = [missing EXCEPT ![w] = none]
        /\ pc' = [pc EXCEPT ![w] = IF none THEN a ELSE b]
        /\ raced \subseteq raced' /\ raced' \subseteq raced \cup {o}
    BY <1>1, <1>2 DEF FindMissing, Go, database, TypeOK
  <1>4. ASSUME NEW p \in Orders, NEW u \in Workers, u # w
        PROVE  Issuing(u, p)' <=> Issuing(u, p)
    BY <1>3, <1>4 DEF Issuing, TypeOK
  <1>5. ASSUME NEW p \in Orders, Issuing(w, p)' PROVE p = o /\ none
    BY <1>3, <1>5 DEF Issuing, TypeOK
  <1>6. ASSUME NEW u \in Workers, Issuing(u, o), none, o \notin raced' \cup blind'
        PROVE  FALSE
    <2>1. InTurn(u, w)
      BY <1>1, <1>6 DEF FindMissing
    <2> QED
      BY <1>1, <1>6, <2>1 DEF InTurn, Issuing, TypeOK
  <1>7. ASSUME NEW p \in Orders \ (raced' \cup blind'), NEW u \in Workers, Issuing(u, p)'
        PROVE  tickets'[p] = 0
    BY <1>3, <1>4, <1>5, <1>7 DEF TicketInv, IssuerInv
  <1>8. ASSUME NEW p \in Orders \ (raced' \cup blind'), NEW u \in Workers, NEW v \in Workers,
               Issuing(u, p)', Issuing(v, p)'
        PROVE  u = v
    BY <1>3, <1>4, <1>5, <1>6, <1>8 DEF TicketInv, IssuerInv
  <1>9. IssuerInv'
    BY <1>3, <1>7, <1>8 DEF TicketInv, IssuerInv
  <1>10. InsertersFoundNone'
    BY <1>3 DEF TicketInv, InsertersFoundNone, TypeOK
  <1> QED
    BY <1>9, <1>10 DEF TicketInv

(* An issuer inserts its ticket and is one no more. *)
LEMMA InsertKeepsTicketInv ==
    ASSUME TypeOK, TicketInv, NEW w \in Workers,
           InsertTicket(w) \/ CommitTicket(w) \/ MintTicket(w)
    PROVE  TicketInv'
  <1> DEFINE o == ord[w]
  <1>1. o \in Orders
    BY DEF InsertTicket, CommitTicket, MintTicket, TypeOK
  <1>2. /\ UNCHANGED <<raced, blind>>
        /\ pc'[w] \in {"answer", "idle"}
        /\ \A u \in Workers : u # w =>
              pc'[u] = pc[u] /\ ord'[u] = ord[u] /\ missing'[u] = missing[u]
        /\ \/ tickets' = tickets
           \/ Issuing(w, o) /\ tickets' = [tickets EXCEPT ![o] = @ + 1]
    <2>1. CASE InsertTicket(w)
      BY <2>1 DEF InsertTicket, AddTicket, Go, TypeOK, TicketInv,
           InsertersFoundNone, Issuing
    <2>2. CASE CommitTicket(w)
      BY <2>2 DEF CommitTicket, AddTicket, Rest, Go, TypeOK, Issuing
    <2>3. CASE MintTicket(w)
      BY <2>3 DEF MintTicket, AddTicket, Rest, Go, TypeOK, TicketInv,
           InsertersFoundNone, Issuing
    <2> QED
      BY <2>1, <2>2, <2>3
  <1>3. ASSUME NEW p \in Orders, NEW u \in Workers, Issuing(u, p)'
        PROVE  u # w /\ Issuing(u, p)
    BY <1>2, <1>3 DEF Issuing
  <1>4. IssuerInv'
    <2> SUFFICES ASSUME NEW p \in Orders \ (raced' \cup blind')
                 PROVE  /\ tickets'[p] <= 1
                        /\ \A u \in Workers : Issuing(u, p)' => tickets'[p] = 0
                        /\ \A u, v \in Workers : Issuing(u, p)' /\ Issuing(v, p)' => u = v
      BY DEF IssuerInv
    <2>1. /\ tickets[p] <= 1
          /\ \A u \in Workers : Issuing(u, p) => tickets[p] = 0
          /\ \A u, v \in Workers : Issuing(u, p) /\ Issuing(v, p) => u = v
      BY <1>2 DEF TicketInv, IssuerInv
    <2>2. CASE tickets'[p] = tickets[p]
      BY <1>3, <2>1, <2>2
    <2>3. CASE p = o /\ Issuing(w, o) /\ tickets' = [tickets EXCEPT ![o] = @ + 1]
      <3>1. tickets[p] = 0 /\ tickets'[p] = 1
        BY <1>1, <2>1, <2>3 DEF TypeOK
      <3>2. \A u \in Workers : ~Issuing(u, p)'
        BY <1>3, <2>1, <2>3
      <3> QED
        BY <2>3, <3>1, <3>2
    <2> QED
      BY <1>2, <2>2, <2>3 DEF TypeOK
  <1>5. InsertersFoundNone'
    BY <1>2 DEF TicketInv, InsertersFoundNone
  <1> QED
    BY <1>4, <1>5 DEF TicketInv

(* A failed lookup starts an issuer, of an order recorded as blind.        *)
LEMMA LookupFailsKeepsTicketInv ==
    ASSUME TypeOK, TicketInv, NEW w \in Workers, LookupFails(w)
    PROVE  TicketInv'
  <1>1. /\ UNCHANGED <<tickets, raced, ord>>
        /\ blind' = blind \cup {ord[w]}
        /\ pc'[w] = "mint" /\ missing'[w]
        /\ \A u \in Workers : u # w => pc'[u] = pc[u] /\ missing'[u] = missing[u]
    BY DEF LookupFails, Go, TypeOK, database
  <1>2. ASSUME NEW p \in Orders \ blind', NEW u \in Workers, Issuing(u, p)'
        PROVE  Issuing(u, p)
    BY <1>1, <1>2 DEF Issuing
  <1>3. IssuerInv'
    BY <1>1, <1>2 DEF TicketInv, IssuerInv
  <1>4. InsertersFoundNone'
    BY <1>1 DEF TicketInv, InsertersFoundNone
  <1> QED
    BY <1>3, <1>4 DEF TicketInv

(* Every step keeps the invariant. *)
LEMMA NextTicketInv == TypeOK /\ TicketInv /\ [Next]_vars => TicketInv'
  <1> SUFFICES ASSUME TypeOK, TicketInv, [Next]_vars PROVE TicketInv'
    OBVIOUS
  <1>1. ASSUME NEW o \in Orders,
               \/ PlaceOrder(o) \/ PlaceOrderRefused(o) \/ Payment(o)
               \/ \E s \in {"paid", "refunded", "pending"} : UpdateTransactionStatus(o, s)
        PROVE  TicketInv'
    <2>1. UNCHANGED <<tickets, raced, blind, pc, ord, missing>>
      BY <1>1 DEF PlaceOrder, PlaceOrderRefused, Payment, Report,
           UpdateTransactionStatus, database, requests, history
    <2> QED
      BY <2>1, QuietKeepsTicketInv
  <1>2. ASSUME NEW w \in Workers, NEW o \in Orders,
               \/ \E n \in Notices : Deliver(w, o, n)
               \/ StartComplete(w, o) \/ StartOTP(w, o)
        PROVE  TicketInv'
    <2>1. /\ UNCHANGED <<tickets, raced, blind, missing>>
          /\ pc'[w] \in {"update", "lock", "look"}
          /\ \A u \in Workers : u # w => pc'[u] = pc[u] /\ ord'[u] = ord[u]
      BY <1>2 DEF Deliver, StartComplete, StartOTP, Begin, Go, TypeOK, database, history
    <2> QED
      BY <2>1, QuietKeepsTicketInv
  <1>3. ASSUME NEW w \in Workers,
               \/ UpdateOrderStatus(w) \/ Answer(w) \/ LockOrder(w) \/ InsertFails(w)
               \/ CallFails(w) \/ Crash(w)
        PROVE  TicketInv'
    <2>1. /\ UNCHANGED <<tickets, raced, blind>>
          /\ pc'[w] \in {"snapshot", "answer", "count", "idle"}
          /\ \A u \in Workers : u # w =>
                pc'[u] = pc[u] /\ ord'[u] = ord[u] /\ missing'[u] = missing[u]
      BY <1>3 DEF UpdateOrderStatus, Answer, LockOrder, InsertFails, CallFails, Crash,
           Rest, Go, TypeOK, database, history
    <2> QED
      BY <2>1, QuietKeepsTicketInv
  <1>4. ASSUME NEW w \in Workers, LookupFails(w) PROVE TicketInv'
    BY <1>4, LookupFailsKeepsTicketInv
  <1>5. CASE UNCHANGED vars
    <2>1. UNCHANGED <<tickets, raced, blind, pc, ord, missing>>
      BY <1>5 DEF vars, database, requests, history
    <2> QED
      BY <2>1, QuietKeepsTicketInv
  <1> QED
    BY <1>1, <1>2, <1>3, <1>4, <1>5, FindKeepsTicketInv, InsertKeepsTicketInv DEF Next, Advance

(* However many notifications, retries and calls of CompletePayment there  *)
(* are, a second ticket needs a handler that does not lock the order and   *)
(* overlaps another issuer, or a lookup that failed.                       *)
THEOREM OneTicket == Spec => []OneTicketUnlessRaced
  <1>1. Init => TicketInv
    BY DEF Init, TicketInv, IssuerInv, InsertersFoundNone, Issuing
  <1>2. TypeOK /\ TicketInv => OneTicketUnlessRaced
    BY DEF TicketInv, IssuerInv, OneTicketUnlessRaced, TypeOK
  <1> QED
    BY <1>1, <1>2, NextTicketInv, TypeCorrect, PTL DEF Spec

----------------------------------------------------------------------------
(* The inductive invariant behind what the webhook issues and what the     *)
(* status follows: a closing notification is true of the payment wherever  *)
(* it is, and it is acknowledged only after it was applied.                *)
Closing == {"paid", "failed"}
Outcome(n) == IF n = "paid" THEN "paid" ELSE "ended"

NoticesAreTrue ==
    /\ \A o \in Orders : status[o] = None => gateway[o] = "none"
    /\ \A o \in Orders, n \in Closing : <<o, n>> \in inbox => gateway[o] = Outcome(n)
    /\ \A w \in Workers, n \in Closing :
          pc[w] # "idle" /\ note[w] = n => gateway[ord[w]] = Outcome(n)
    /\ \A w \in Workers : pc[w] = "look" => note[w] = None

OnlyPaidIsIssued ==
    /\ \A w \in Workers : pc[w] \in {"snapshot", "insert"} => note[w] = "paid"
    /\ WebhookIssuesPaid

AppliedThenAnswered ==
    /\ \A w \in Workers, n \in Closing :
          pc[w] \in {"snapshot", "insert", "answer"} /\ note[w] = n
             /\ ord[w] \notin overridden => status[ord[w]] = n
    /\ StatusFollowsPayment

PaymentInv == NoticesAreTrue /\ OnlyPaidIsIssued /\ AppliedThenAnswered

(* Every step keeps the invariant. *)
LEMMA NextPaymentInv == TypeOK /\ PaymentInv /\ [Next]_vars => PaymentInv'
  <1> SUFFICES ASSUME TypeOK, PaymentInv, [Next]_vars PROVE PaymentInv'
    OBVIOUS
  <1> USE OrdersAssumption
      DEF PaymentInv, NoticesAreTrue, OnlyPaidIsIssued, WebhookIssuesPaid,
          AppliedThenAnswered, StatusFollowsPayment, Closing, Outcome, TypeOK,
          Statuses, Notices, Go, database, midtrans, requests, history
  <1>1. ASSUME NEW o \in Orders, PlaceOrder(o) \/ PlaceOrderRefused(o)
        PROVE  PaymentInv'
    BY <1>1 DEF PlaceOrder, PlaceOrderRefused, Placed
  <1>2. ASSUME NEW o \in Orders, Payment(o) PROVE PaymentInv'
    <2>1. PICK g \in {"chosen", "challenged", "paid", "ended"}, n \in Notices :
             /\ gateway' = [gateway EXCEPT ![o] = g]
             /\ inbox' = inbox \cup {<<o, n>>}
             /\ gateway[o] \in {"open", "chosen", "challenged"}
             /\ g = "paid" <=> n = "paid"
             /\ g = "ended" <=> n = "failed"
             /\ UNCHANGED <<status, pc, ord, note, issuedBy, overridden>>
      BY <1>2 DEF Payment, Report
    <2>2. NoticesAreTrue'
      BY <2>1
    <2>3. OnlyPaidIsIssued'
      BY <2>1
    <2>4. AppliedThenAnswered'
      BY <2>1
    <2> QED
      BY <2>2, <2>3, <2>4
  <1>3. ASSUME NEW w \in Workers, NEW o \in Orders, NEW n \in Notices, Deliver(w, o, n)
        PROVE  PaymentInv'
    <2>1. /\ <<o, n>> \in inbox
          /\ pc' = [pc EXCEPT ![w] = "update"]
          /\ ord' = [ord EXCEPT ![w] = o]
          /\ note' = [note EXCEPT ![w] = n]
          /\ UNCHANGED <<status, gateway, inbox, issuedBy, overridden>>
      BY <1>3 DEF Deliver, Begin
    <2>2. ASSUME NEW u \in Workers, NEW c \in Closing, pc'[u] # "idle", note'[u] = c
          PROVE  gateway'[ord'[u]] = Outcome(c)
      <3>1. CASE u = w
        <4>1. n = c /\ ord'[u] = o /\ <<o, c>> \in inbox
          BY <2>1, <2>2, <3>1
        <4>2. gateway[o] = Outcome(c)
          BY ONLY PaymentInv, <4>1, <2>2 DEF PaymentInv, NoticesAreTrue
        <4> QED
          BY <2>1, <4>1, <4>2
      <3>2. CASE u # w
        BY <2>1, <2>2, <3>2
      <3> QED
        BY <3>1, <3>2
    <2>3. \A u \in Workers : pc'[u] = "look" => note'[u] = None
      BY <2>1
    <2>4. NoticesAreTrue'
      BY <2>1, <2>2, <2>3
    <2>5. OnlyPaidIsIssued' /\ AppliedThenAnswered'
      BY <2>1
    <2> QED
      BY <2>4, <2>5
  <1>4. ASSUME NEW w \in Workers, NEW o \in Orders, StartComplete(w, o) \/ StartOTP(w, o)
        PROVE  PaymentInv'
    BY <1>4 DEF StartComplete, StartOTP, Begin
  <1>5. ASSUME NEW o \in Orders, NEW s \in {"paid", "refunded", "pending"},
               UpdateTransactionStatus(o, s)
        PROVE  PaymentInv'
    BY <1>5 DEF UpdateTransactionStatus, Placed
  <1>6. ASSUME NEW w \in Workers, UpdateOrderStatus(w) PROVE PaymentInv'
    <2>1. /\ ord[w] \in Orders /\ note[w] \in Notices /\ pc[w] = "update"
          /\ status' = [status EXCEPT ![ord[w]] = StatusOf(note[w])]
          /\ overridden \subseteq overridden'
          /\ Stale(ord[w], note[w]) => ord[w] \in overridden'
          /\ pc' = [pc EXCEPT ![w] = IF StatusOf(note[w]) = "paid" THEN "snapshot"
                                                                   ELSE "answer"]
          /\ UNCHANGED <<inbox, gateway, ord, note, issuedBy>>
      BY <1>6 DEF UpdateOrderStatus
    <2>2. /\ StatusOf(note[w]) = "paid" <=> note[w] = "paid"
          /\ StatusOf(note[w]) = "failed" <=> note[w] = "failed"
          /\ StatusOf(note[w]) # None
      BY <2>1 DEF StatusOf
    <2>3. NoticesAreTrue' /\ OnlyPaidIsIssued'
      BY <2>1, <2>2
    <2>4. AppliedThenAnswered'
      BY <2>1, <2>2 DEF Stale
    <2> QED
      BY <2>3, <2>4
  <1>7. ASSUME NEW w \in Workers, TakeSnapshot(w) \/ CountTickets(w) \/ LookForTicket(w)
        PROVE  PaymentInv'
    <2>1. /\ UNCHANGED <<status, gateway, inbox, ord, note, issuedBy, overridden>>
          /\ \A u \in Workers : u # w => pc'[u] = pc[u]
          /\ \/ pc[w] = "snapshot" /\ pc'[w] \in {"insert", "answer"}
             \/ pc[w] = "count" /\ pc'[w] = "commit"
             \/ pc[w] = "look" /\ pc'[w] \in {"mint", "answer"}
      BY <1>7 DEF TakeSnapshot, CountTickets, LookForTicket, FindMissing
    <2> QED
      BY <2>1
  <1>8. ASSUME NEW w \in Workers, InsertTicket(w) PROVE PaymentInv'
    BY <1>8 DEF InsertTicket, AddTicket
  <1>9. ASSUME NEW w \in Workers, Answer(w) PROVE PaymentInv'
    BY <1>9 DEF Answer, Rest
  <1>10. ASSUME NEW w \in Workers, LockOrder(w) PROVE PaymentInv'
    BY <1>10 DEF LockOrder
  <1>11. ASSUME NEW w \in Workers, CommitTicket(w) PROVE PaymentInv'
    BY <1>11 DEF CommitTicket, AddTicket, Rest
  <1>12. ASSUME NEW w \in Workers, MintTicket(w) PROVE PaymentInv'
    BY <1>12 DEF MintTicket, AddTicket, Rest
  <1>13. ASSUME NEW w \in Workers, InsertFails(w) PROVE PaymentInv'
    BY <1>13 DEF InsertFails
  <1>14. ASSUME NEW w \in Workers, CallFails(w) \/ Crash(w) PROVE PaymentInv'
    BY <1>14 DEF CallFails, Crash, Rest
  <1>15. ASSUME NEW w \in Workers, LookupFails(w) PROVE PaymentInv'
    BY <1>15 DEF LookupFails
  <1>16. CASE UNCHANGED vars
    BY <1>16 DEF vars
  <1> HIDE OrdersAssumption
      DEF PaymentInv, NoticesAreTrue, OnlyPaidIsIssued, WebhookIssuesPaid,
          AppliedThenAnswered, StatusFollowsPayment, Closing, Outcome, TypeOK,
          Statuses, Notices, Go, database, midtrans, requests, history
  <1> QED
    BY <1>1, <1>2, <1>3, <1>4, <1>5, <1>6, <1>7, <1>8, <1>9, <1>10, <1>11,
       <1>12, <1>13, <1>14, <1>15, <1>16 DEF Next, Advance

(* The payment invariant holds in every reachable state.                 *)
LEMMA PaymentInvariant == Spec => []PaymentInv
  <1>1. Init => PaymentInv
    BY DEF Init, PaymentInv, NoticesAreTrue, OnlyPaidIsIssued, WebhookIssuesPaid,
         AppliedThenAnswered, StatusFollowsPayment, Closing, Outcome
  <1> QED
    BY <1>1, NextPaymentInv, TypeCorrect, PTL DEF Spec

(* The webhook issues tickets for captured or settled payments only. *)
THEOREM OnlyPaidIssued == Spec => []WebhookIssuesPaid
  <1>1. PaymentInv => WebhookIssuesPaid
    BY DEF PaymentInv, OnlyPaidIsIssued
  <1> QED
    BY <1>1, PaymentInvariant, PTL

(* An acknowledged last notification has been applied to the order. *)
THEOREM StatusFollows == Spec => []StatusFollowsPayment
  <1>1. PaymentInv => StatusFollowsPayment
    BY DEF PaymentInv, AppliedThenAnswered
  <1> QED
    BY <1>1, PaymentInvariant, PTL
=============================================================================
