--------------------------- MODULE CheckoutProofs ---------------------------
(***************************************************************************)
(* Theorems about Checkout, for every value of its constants.              *)
(***************************************************************************)
EXTENDS Checkout, FiniteSetTheorems, WellFoundedInduction, TLAPS

-----------------------------------------------------------------------------
(* Helpers.                                                                *)

\* What parse_payment reads off a ledger record is a payment event.
LEMMA ParseType ==
  ASSUME ledger \in Seq(PaymentRecord), NEW i \in DOMAIN ledger
  PROVE  parse_payment(ledger, i) \in PaymentEvent
<1>1. i \in Nat \ {0} /\ ledger[i] \in PaymentRecord
  OBVIOUS
<1>2. PICK t \in Transfers : ledger[i].asset = t.asset
  BY <1>1 DEF PaymentRecord
<1>3. AssetName(ledger[i].asset) \in {AssetName(u.asset) : u \in Transfers}
  BY <1>2
<1> QED
  BY <1>1, <1>3 DEF parse_payment, PaymentEvent, PaymentRecord

\* A hit is a record of the ledger that passes the adapter's test.
LEMMA HitFacts ==
  ASSUME NEW rec, NEW i \in Hits(ledger, rec)
  PROVE  /\ i \in DOMAIN ledger
         /\ Matches(ledger[i], rec.session_id, rec.amount, rec.asset)
BY DEF Hits, Page

\* The pass signed for a typed session and event is a pass.
LEMMA PassForType ==
  ASSUME TypeOK, NEW rec \in SessionRecord, NEW event \in PaymentEvent
  PROVE  PassFor(rec, event) \in Pass
<1>1. Len(issued) \in Nat
  BY DEF TypeOK
<1>2. signing_key \in Nat
  BY DEF signing_key, TypeOK
<1> QED
  BY <1>1, <1>2 DEF PassFor, Pass, SessionRecord

-----------------------------------------------------------------------------
(* Types.                                                                  *)

LEMMA TypeInit == Init => TypeOK
BY DEF Init, TypeOK

\* Opening a session keeps the types.
LEMMA TypeCreate ==
  ASSUME TypeOK, NEW m \in Memos, NEW body \in Bodies,
         CreatePaymentRequest(m, body)
  PROVE  TypeOK'
<1>1. NewSession(m, body) \in SessionRecord
  BY TtlAssumption DEF TypeOK, NewSession, SessionRecord
<1>2. /\ DOMAIN sessions' = DOMAIN sessions \union {m}
      /\ sessions' \in [DOMAIN sessions' -> SessionRecord]
  <2>1. sessions \in [DOMAIN sessions -> SessionRecord]
    BY DEF TypeOK
  <2>2. sessions' = Put(sessions, m, NewSession(m, body))
    BY DEF CreatePaymentRequest
  <2> QED
    BY <1>1, <2>1, <2>2 DEF Put
<1>3. /\ DOMAIN requests' = DOMAIN requests \union {m}
      /\ requests' \in [DOMAIN requests' -> Bodies]
  <2>1. requests \in [DOMAIN requests -> Bodies]
    BY DEF TypeOK
  <2>2. requests' = Put(requests, m, body)
    BY DEF CreatePaymentRequest
  <2> QED
    BY <2>1, <2>2 DEF Put
<1> QED
  BY <1>2, <1>3 DEF TypeOK, CreatePaymentRequest, watcherVars

\* Marking a session paid keeps the store's type and its sessions.
LEMMA MarkedPaidType ==
  ASSUME TypeOK, NEW m \in Memos, NEW pass \in Pass
  PROVE  /\ DOMAIN MarkedPaid(m, pass) = DOMAIN sessions
         /\ MarkedPaid(m, pass) \in [DOMAIN sessions -> SessionRecord]
<1>1. CASE m \notin DOMAIN sessions
  BY <1>1 DEF MarkedPaid, TypeOK
<1>2. CASE m \in DOMAIN sessions
  <2>1. MarkedPaid(m, pass) =
          [sessions EXCEPT ![m] = [sessions[m] EXCEPT !.paid = TRUE,
                                   !.tx_hash = pass.payment.tx_hash,
                                   !.access_token = pass]]
    BY <1>2 DEF MarkedPaid, TypeOK
  <2>2. sessions[m] \in SessionRecord /\ pass.payment.tx_hash \in Nat
    BY <1>2 DEF TypeOK, Pass, PaymentEvent
  <2>3. [sessions[m] EXCEPT !.paid = TRUE, !.tx_hash = pass.payment.tx_hash,
                            !.access_token = pass] \in SessionRecord
    BY <2>2 DEF SessionRecord
  <2> QED
    BY <2>1, <2>3 DEF TypeOK
<1> QED
  BY <1>1, <1>2

LEMMA TypeNext == TypeOK /\ [Next]_vars => TypeOK'
<1> SUFFICES ASSUME TypeOK, [Next]_vars PROVE TypeOK'
  OBVIOUS
<1>1. CASE UNCHANGED vars
  BY <1>1 DEF vars, TypeOK
<1>2. CASE \E m \in Memos, body \in Bodies : CreatePaymentRequest(m, body)
  BY <1>2, TypeCreate
<1>3. ASSUME NEW t \in Transfers, NEW memo \in Memos \union {NoMemo}, Confirm(t, memo)
      PROVE  TypeOK'
  <2>1. [to |-> t.to, amount |-> t.amount, asset |-> t.asset,
         successful |-> t.successful, type |-> t.type, memo |-> memo] \in PaymentRecord
    BY TransferAssumption DEF PaymentRecord
  <2>2. ledger' \in Seq(PaymentRecord)
    BY <1>3, <2>1 DEF Confirm, TypeOK
  <2> QED
    BY <1>3, <2>2 DEF Confirm, TypeOK, watcherVars
<1>4. CASE Tick
  BY <1>4 DEF Tick, TypeOK, watcherVars
<1>5. CASE Restart
  BY <1>5 DEF Restart, TypeOK
<1>6. CASE PollTick
  <2>1. \A rec \in pending' : rec \in SessionRecord
    BY <1>6 DEF PollTick, TypeOK
  <2> QED
    BY <1>6, <2>1 DEF PollTick, TypeOK
<1>7. CASE AskHorizon
  BY <1>7 DEF AskHorizon, TypeOK
<1>8. CASE LookupFound
  <2>1. payment' \in PaymentEvent
    BY <1>8, ParseType, HitFacts DEF LookupFound, TypeOK
  <2> QED
    BY <1>8, <2>1 DEF LookupFound, TypeOK
<1>9. CASE LookupEmpty \/ LookupFailed \/ IssueFails
  BY <1>9 DEF LookupEmpty, LookupFailed, IssueFails, Continue, TypeOK
<1>10. CASE IssueAndMarkPaid
  <2> DEFINE pass == PassFor(session, payment)
  <2>1. session \in SessionRecord /\ payment \in PaymentEvent
    BY <1>10 DEF IssueAndMarkPaid, TypeOK
  <2>2. session.session_id \in Memos
    BY <2>1 DEF SessionRecord
  <2>3. pass \in Pass
    BY <2>1, PassForType
  <2>4. /\ DOMAIN sessions' = DOMAIN sessions
        /\ sessions' \in [DOMAIN sessions -> SessionRecord]
    BY <1>10, <2>2, <2>3, MarkedPaidType DEF IssueAndMarkPaid
  <2>5. issued' \in Seq([session_id : Memos, pass : Pass])
    BY <1>10, <2>2, <2>3 DEF IssueAndMarkPaid, TypeOK
  <2> QED
    BY <1>10, <2>4, <2>5 DEF IssueAndMarkPaid, Continue, TypeOK
<1> QED
  BY <1>1, <1>2, <1>3, <1>4, <1>5, <1>6, <1>7, <1>8, <1>9, <1>10 DEF Next, Watcher

\* Every variable keeps its type, and the watcher holds a session and a
\* payment exactly in the phases that use them.
THEOREM TypeCorrect == Spec => []TypeOK
BY TypeInit, TypeNext, PTL DEF Spec

-----------------------------------------------------------------------------
(* The inductive invariant, one conjunct at a time.                        *)

\* Facts about the in-flight session the steps below rest on.
LEMMA InFlightFacts ==
  ASSUME TypeOK, SnapshotIsCurrent, phase # "idle"
  PROVE  /\ session \in SessionRecord
         /\ session.session_id \in DOMAIN sessions
         /\ sessions[session.session_id] = session
         /\ ~session.paid
<1>1. session \in SessionRecord
  BY DEF TypeOK
<1>2. session \in InFlight
  BY <1>1, NoneAssumption DEF InFlight
<1> QED
  BY <1>1, <1>2 DEF SnapshotIsCurrent

\* A step of the watcher that gives up its session leaves the rest in flight.
LEMMA ContinueInFlight ==
  ASSUME Continue
  PROVE  InFlight' \subseteq InFlight /\ session' = None /\ pending' = pending
BY DEF Continue, InFlight

\* The copies in flight stay current: buyers only add sessions, and the
\* watcher writes the one session it has just let go of.
LEMMA SnapshotNext ==
  ASSUME IndInv, [Next]_vars
  PROVE  SnapshotIsCurrent'
<1> USE DEF IndInv
<1>0. None \notin pending
  BY NoneAssumption DEF TypeOK
<1>1. CASE UNCHANGED vars
  BY <1>1 DEF vars, SnapshotIsCurrent, InFlight
<1>2. ASSUME NEW m \in Memos, NEW body \in Bodies, CreatePaymentRequest(m, body)
      PROVE  SnapshotIsCurrent'
  <2>1. InFlight' = InFlight /\ session' = session /\ pending' = pending
    BY <1>2 DEF CreatePaymentRequest, watcherVars, InFlight
  <2>2. m \notin DOMAIN sessions
    BY <1>2 DEF CreatePaymentRequest, SessionsAsRequested
  <2>3. \A x \in DOMAIN sessions : x \in DOMAIN sessions' /\ sessions'[x] = sessions[x]
    BY <1>2, <2>2 DEF CreatePaymentRequest, Put
  <2> QED
    BY <2>1, <2>3 DEF SnapshotIsCurrent
<1>3. CASE \/ \E t \in Transfers, memo \in Memos \union {NoMemo} : Confirm(t, memo)
           \/ Tick
  BY <1>3 DEF Confirm, Tick, watcherVars, SnapshotIsCurrent, InFlight
<1>4. CASE Restart
  BY <1>4 DEF Restart, SnapshotIsCurrent, InFlight
<1>5. CASE PollTick
  <2>1. session' = None
    BY <1>5 DEF PollTick, TypeOK
  <2>2. InFlight' = pending'
    BY <2>1 DEF InFlight
  <2>3. \A rec \in pending' : \E m \in DOMAIN sessions : rec = sessions[m] /\ ~rec.paid
    BY <1>5 DEF PollTick, IsPending
  <2>4. \A rec \in pending' : rec.session_id \in DOMAIN sessions
                                /\ sessions[rec.session_id] = rec /\ ~rec.paid
    BY <2>3 DEF SessionsAsRequested
  <2>5. None \notin pending'
    BY <2>3, NoneAssumption DEF TypeOK
  <2> QED
    BY <1>5, <2>1, <2>2, <2>4, <2>5 DEF SnapshotIsCurrent, PollTick
<1>6. CASE AskHorizon
  <2>1. InFlight' \subseteq InFlight /\ session' \notin pending'
    BY <1>6 DEF AskHorizon, InFlight
  <2> QED
    BY <1>6, <2>1 DEF AskHorizon, SnapshotIsCurrent
<1>7. CASE LookupFound
  BY <1>7 DEF LookupFound, SnapshotIsCurrent, InFlight
<1>8. CASE LookupEmpty \/ LookupFailed \/ IssueFails
  <2>1. Continue /\ sessions' = sessions
    BY <1>8 DEF LookupEmpty, LookupFailed, IssueFails
  <2> QED
    BY <1>0, <2>1, ContinueInFlight DEF SnapshotIsCurrent
<1>9. CASE IssueAndMarkPaid
  <2> DEFINE m == session.session_id
  <2>1. Continue
    BY <1>9 DEF IssueAndMarkPaid
  <2>2. InFlight' = pending /\ session' = None /\ pending' = pending
    BY <2>1 DEF Continue, InFlight
  <2>3. session \in InFlight /\ session \notin pending /\ sessions[m] = session
    BY <1>9, InFlightFacts, NoneAssumption
      DEF IssueAndMarkPaid, InFlight, TypeOK, SnapshotIsCurrent
  <2>4. \A rec \in pending : /\ rec.session_id \in DOMAIN sessions
                             /\ sessions[rec.session_id] = rec /\ ~rec.paid
                             /\ rec.session_id # m
    BY <2>3 DEF SnapshotIsCurrent, InFlight
  <2>5. /\ DOMAIN sessions' = DOMAIN sessions
        /\ \A x \in DOMAIN sessions : x # m => sessions'[x] = sessions[x]
    BY <1>9 DEF IssueAndMarkPaid, MarkedPaid
  <2> QED
    BY <1>0, <2>2, <2>4, <2>5 DEF SnapshotIsCurrent
<1> QED
  BY <1>1, <1>2, <1>3, <1>4, <1>5, <1>6, <1>7, <1>8, <1>9 DEF Next, Watcher

\* A record once on the ledger keeps its place and its contents.
LEMMA LedgerGrows ==
  ASSUME TypeOK, [Next]_vars
  PROVE  \A i \in DOMAIN ledger : i \in DOMAIN ledger' /\ ledger'[i] = ledger[i]
<1>1. CASE ledger' = ledger
  BY <1>1
<1>2. ASSUME NEW rec, ledger' = Append(ledger, rec)
      PROVE  \A i \in DOMAIN ledger : i \in DOMAIN ledger' /\ ledger'[i] = ledger[i]
  BY <1>2 DEF TypeOK
<1>3. (ledger' = ledger) \/ (\E rec : ledger' = Append(ledger, rec))
  BY DEF Next, vars, Watcher, CreatePaymentRequest, Confirm, Tick, Restart, PollTick,
    AskHorizon, LookupFound, LookupEmpty, LookupFailed, IssueAndMarkPaid, IssueFails,
    Continue
<1> QED
  BY <1>1, <1>2, <1>3

\* The answer of a lookup stays true until it is used: the session copy does
\* not change meanwhile and the ledger only grows.
LEMMA FoundNext ==
  ASSUME IndInv, [Next]_vars
  PROVE  FoundPaysSession'
<1> USE DEF IndInv
<1>1. CASE LookupFound
  <2>1. PICK i \in Hits(ledger, session) : payment' = parse_payment(ledger, i)
    BY <1>1 DEF LookupFound
  <2>2. ledger' = ledger /\ session' = session
    BY <1>1 DEF LookupFound
  <2>3. payment'.tx_hash = i
    BY <2>1 DEF parse_payment
  <2> QED
    BY <2>1, <2>2, <2>3, HitFacts DEF FoundPaysSession
<1>2. CASE phase' = phase /\ session' = session /\ payment' = payment
  <2> SUFFICES ASSUME phase' = "found" PROVE FoundPaysSession'
    BY DEF FoundPaysSession
  <2>1. \A i \in DOMAIN ledger : i \in DOMAIN ledger' /\ ledger'[i] = ledger[i]
    BY LedgerGrows
  <2>2. /\ payment.tx_hash \in DOMAIN ledger
        /\ payment = parse_payment(ledger, payment.tx_hash)
        /\ Matches(ledger[payment.tx_hash], session.session_id, session.amount,
                   session.asset)
    BY <1>2 DEF FoundPaysSession
  <2>3. parse_payment(ledger', payment.tx_hash) = parse_payment(ledger, payment.tx_hash)
    BY <2>1, <2>2 DEF parse_payment
  <2> QED
    BY <1>2, <2>1, <2>2, <2>3 DEF FoundPaysSession
<1>3. CASE phase' # "found"
  BY <1>3 DEF FoundPaysSession
<1>4. \/ LookupFound
      \/ phase' = phase /\ session' = session /\ payment' = payment
      \/ phase' # "found"
  BY DEF Next, vars, watcherVars, Watcher, CreatePaymentRequest, Confirm, Tick, Restart,
    PollTick, AskHorizon, LookupEmpty, LookupFailed, IssueAndMarkPaid, IssueFails, Continue
<1> QED
  BY <1>1, <1>2, <1>3, <1>4

\* Sessions keep their wishes, and requests are never overwritten.
LEMMA AsRequestedNext ==
  ASSUME IndInv, [Next]_vars
  PROVE  SessionsAsRequested'
<1> USE DEF IndInv
<1>1. ASSUME NEW m \in Memos, NEW body \in Bodies, CreatePaymentRequest(m, body)
      PROVE  SessionsAsRequested'
  BY <1>1 DEF CreatePaymentRequest, Put, NewSession, SessionsAsRequested
<1>2. CASE sessions' = sessions /\ requests' = requests
  BY <1>2 DEF SessionsAsRequested
<1>3. CASE Restart
  BY <1>3 DEF Restart, SessionsAsRequested
<1>4. CASE IssueAndMarkPaid
  <2> DEFINE m == session.session_id
             pass == PassFor(session, payment)
  <2>1. requests' = requests /\ sessions' = MarkedPaid(m, pass)
    BY <1>4 DEF IssueAndMarkPaid, Continue
  <2>2. /\ DOMAIN sessions' = DOMAIN sessions
        /\ \A x \in DOMAIN sessions :
             /\ sessions'[x].session_id = sessions[x].session_id
             /\ sessions'[x].amount = sessions[x].amount
             /\ sessions'[x].asset = sessions[x].asset
             /\ sessions'[x].event_id = sessions[x].event_id
    BY <2>1 DEF MarkedPaid, TypeOK, SessionRecord
  <2> QED
    BY <2>1, <2>2 DEF SessionsAsRequested
<1>5. \/ \E m \in Memos, body \in Bodies : CreatePaymentRequest(m, body)
      \/ sessions' = sessions /\ requests' = requests
      \/ Restart
      \/ IssueAndMarkPaid
  BY DEF Next, vars, Watcher, Confirm, Tick, PollTick, AskHorizon, LookupFound,
    LookupEmpty, LookupFailed, IssueFails, Continue
<1> QED
  BY <1>1, <1>2, <1>3, <1>4, <1>5

\* What signing a pass does: session m had none, now it has this one.
LEMMA IssueFacts ==
  ASSUME IndInv, IssueAndMarkPaid
  PROVE  \E m \in DOMAIN sessions, pass \in Pass, new \in Nat :
           /\ phase = "found" /\ m = session.session_id /\ sessions[m] = session
           /\ pass = PassFor(session, payment)
           /\ \A n \in DOMAIN issued : issued[n].session_id # m
           /\ DOMAIN issued' = DOMAIN issued \union {new} /\ new \notin DOMAIN issued
           /\ \A n \in DOMAIN issued : issued'[n] = issued[n]
           /\ issued'[new] = [session_id |-> m, pass |-> pass]
           /\ sessions' = MarkedPaid(m, pass)
<1> USE DEF IndInv
<1> DEFINE m    == session.session_id
           pass == PassFor(session, payment)
           new  == Len(issued) + 1
<1>1. phase = "found"
  BY DEF IssueAndMarkPaid
<1>2. m \in DOMAIN sessions /\ sessions[m] = session /\ ~sessions[m].paid
  BY <1>1, InFlightFacts
<1>3. \A n \in DOMAIN issued : issued[n].session_id # m
  BY <1>2 DEF SettledOrUntouched, Settled, Untouched
<1>4. pass \in Pass
  BY <1>1, InFlightFacts, PassForType DEF TypeOK
<1>5. /\ issued' = Append(issued, [session_id |-> m, pass |-> pass])
      /\ sessions' = MarkedPaid(m, pass)
  BY DEF IssueAndMarkPaid
<1>6. /\ DOMAIN issued' = DOMAIN issued \union {new} /\ new \notin DOMAIN issued
      /\ \A n \in DOMAIN issued : issued'[n] = issued[n]
      /\ issued'[new] = [session_id |-> m, pass |-> pass]
      /\ new \in Nat
  BY <1>5 DEF TypeOK
<1> QED
  BY <1>1, <1>2, <1>3, <1>4, <1>5, <1>6

\* Only IssueAndMarkPaid signs.
LEMMA IssuedUnchanged ==
  ASSUME [Next]_vars
  PROVE  issued' = issued \/ IssueAndMarkPaid
BY DEF Next, vars, Watcher, CreatePaymentRequest, Confirm, Tick, Restart, PollTick,
  AskHorizon, LookupFound, LookupEmpty, LookupFailed, IssueFails

\* A session is served at most once.
LEMMA OnePassNext ==
  ASSUME IndInv, [Next]_vars
  PROVE  OnePassPerSession'
<1>1. CASE issued' = issued
  BY <1>1 DEF IndInv, OnePassPerSession
<1>2. CASE IssueAndMarkPaid
  <2>1. PICK m \in DOMAIN sessions, pass \in Pass, new \in Nat :
          /\ \A n \in DOMAIN issued : issued[n].session_id # m
          /\ DOMAIN issued' = DOMAIN issued \union {new}
          /\ \A n \in DOMAIN issued : issued'[n] = issued[n]
          /\ issued'[new] = [session_id |-> m, pass |-> pass]
    BY <1>2, IssueFacts
  <2>2. issued'[new].session_id = m
    BY <2>1
  <2> QED
    BY <2>1, <2>2 DEF IndInv, OnePassPerSession
<1> QED
  BY <1>1, <1>2, IssuedUnchanged

\* Each session stays untouched until it is served, and settled from then on.
LEMMA SettledNext ==
  ASSUME IndInv, [Next]_vars
  PROVE  SettledOrUntouched'
<1> USE DEF IndInv
<1>1. ASSUME NEW m \in Memos, NEW body \in Bodies, CreatePaymentRequest(m, body)
      PROVE  SettledOrUntouched'
  <2>1. \A n \in DOMAIN issued : issued[n].session_id # m
    BY <1>1 DEF CreatePaymentRequest, PassBackedByPayment
  <2>2. /\ DOMAIN sessions' = DOMAIN sessions \union {m}
        /\ sessions'[m] = NewSession(m, body)
        /\ \A x \in DOMAIN sessions : x # m => sessions'[x] = sessions[x]
        /\ issued' = issued
    BY <1>1 DEF CreatePaymentRequest, Put
  <2>3. Untouched(m)'
    BY <2>1, <2>2 DEF Untouched, NewSession
  <2>4. ASSUME NEW x \in DOMAIN sessions, x # m PROVE Settled(x)' \/ Untouched(x)'
    BY <2>2, <2>4 DEF SettledOrUntouched, Settled, Untouched
  <2> QED
    BY <2>2, <2>3, <2>4 DEF SettledOrUntouched
<1>2. CASE sessions' = sessions /\ issued' = issued
  BY <1>2 DEF SettledOrUntouched, Settled, Untouched
<1>3. CASE Restart
  BY <1>3 DEF Restart, SettledOrUntouched
<1>4. CASE IssueAndMarkPaid
  <2>1. PICK m \in DOMAIN sessions, pass \in Pass, new \in Nat :
          /\ DOMAIN issued' = DOMAIN issued \union {new}
          /\ \A n \in DOMAIN issued : issued'[n] = issued[n]
          /\ issued'[new] = [session_id |-> m, pass |-> pass]
          /\ sessions' = MarkedPaid(m, pass)
    BY <1>4, IssueFacts
  <2>2. /\ DOMAIN sessions' = DOMAIN sessions
        /\ \A x \in DOMAIN sessions : x # m => sessions'[x] = sessions[x]
        /\ sessions'[m].paid /\ sessions'[m].access_token = pass
        /\ sessions'[m].tx_hash = pass.payment.tx_hash
    <3>1. /\ DOMAIN sessions' = DOMAIN sessions
          /\ \A x \in DOMAIN sessions : x # m => sessions'[x] = sessions[x]
      BY <2>1 DEF MarkedPaid
    <3>2. sessions[m] \in SessionRecord
      BY DEF TypeOK
    <3>3. sessions'[m] = [sessions[m] EXCEPT !.paid = TRUE, !.tx_hash = pass.payment.tx_hash,
                                             !.access_token = pass]
      BY <2>1 DEF MarkedPaid
    <3> QED
      BY <3>1, <3>2, <3>3 DEF SessionRecord
  <2>3. Settled(m)'
    BY <2>1, <2>2, NoneAssumption DEF Settled
  <2>4. ASSUME NEW x \in DOMAIN sessions, x # m PROVE Settled(x)' \/ Untouched(x)'
    BY <2>1, <2>2, <2>4 DEF SettledOrUntouched, Settled, Untouched
  <2> QED
    BY <2>2, <2>3, <2>4 DEF SettledOrUntouched
<1>5. \/ \E m \in Memos, body \in Bodies : CreatePaymentRequest(m, body)
      \/ sessions' = sessions /\ issued' = issued
      \/ Restart
      \/ IssueAndMarkPaid
  BY DEF Next, vars, Watcher, Confirm, Tick, PollTick, AskHorizon, LookupFound,
    LookupEmpty, LookupFailed, IssueFails, Continue
<1> QED
  BY <1>1, <1>2, <1>3, <1>4, <1>5

\* Every pass is backed when it is signed, and its backing outlives it: the
\* ledger and the history of requests only grow.
LEMMA BackedNext ==
  ASSUME IndInv, [Next]_vars
  PROVE  PassBackedByPayment'
<1> USE DEF IndInv
<1>1. \A i \in DOMAIN ledger : i \in DOMAIN ledger' /\ ledger'[i] = ledger[i]
  BY LedgerGrows
<1>2. \A m \in DOMAIN requests : m \in DOMAIN requests' /\ requests'[m] = requests[m]
  <2>1. ASSUME NEW m \in Memos, NEW body \in Bodies, CreatePaymentRequest(m, body)
        PROVE  \A x \in DOMAIN requests : x \in DOMAIN requests' /\ requests'[x] = requests[x]
    BY <2>1 DEF CreatePaymentRequest, Put
  <2>2. \/ \E m \in Memos, body \in Bodies : CreatePaymentRequest(m, body)
        \/ requests' = requests
    BY DEF Next, vars, Watcher, Confirm, Tick, Restart, PollTick, AskHorizon, LookupFound,
      LookupEmpty, LookupFailed, IssueFails, IssueAndMarkPaid, Continue
  <2> QED
    BY <2>1, <2>2
<1> DEFINE Backed(entry, book, wishes) ==
      LET event == entry.pass.payment
          m     == entry.session_id
      IN /\ m \in DOMAIN wishes
         /\ event.tx_hash \in DOMAIN book
         /\ event = parse_payment(book, event.tx_hash)
         /\ book[event.tx_hash].successful
         /\ book[event.tx_hash].type = "payment"
         /\ event.destination_account = Destination
         /\ event.memo = m
         /\ event.amount = wishes[m].amount
         /\ Upper[event.asset] = Upper[wishes[m].asset]
         /\ entry.pass.event_id = wishes[m].event_id
<1>3. ASSUME NEW entry, Backed(entry, ledger, requests)
      PROVE  Backed(entry, ledger', requests')
  BY <1>1, <1>2, <1>3 DEF parse_payment
<1>4. \A n \in DOMAIN issued : Backed(issued[n], ledger, requests)
  BY DEF PassBackedByPayment
<1>5. CASE issued' = issued
  <2>1. \A n \in DOMAIN issued : Backed(issued[n], ledger', requests')
    BY <1>3, <1>4
  <2> QED
    BY <1>5, <2>1 DEF PassBackedByPayment
<1>6. CASE IssueAndMarkPaid
  <2>1. PICK m \in DOMAIN sessions, pass \in Pass, new \in Nat :
          /\ phase = "found" /\ m = session.session_id /\ sessions[m] = session
          /\ pass = PassFor(session, payment)
          /\ DOMAIN issued' = DOMAIN issued \union {new}
          /\ \A n \in DOMAIN issued : issued'[n] = issued[n]
          /\ issued'[new] = [session_id |-> m, pass |-> pass]
    BY <1>6, IssueFacts
  <2>2. /\ payment.tx_hash \in DOMAIN ledger
        /\ payment = parse_payment(ledger, payment.tx_hash)
        /\ Matches(ledger[payment.tx_hash], m, session.amount, session.asset)
    BY <2>1 DEF FoundPaysSession
  <2>3. /\ m \in DOMAIN requests
        /\ session.amount = requests[m].amount /\ session.asset = requests[m].asset
        /\ session.event_id = requests[m].event_id
    BY <2>1 DEF SessionsAsRequested
  <2>4. pass.payment = payment /\ pass.event_id = session.event_id
    BY <2>1 DEF PassFor
  <2>5. /\ payment.destination_account = ledger[payment.tx_hash].to
        /\ payment.memo = ledger[payment.tx_hash].memo
        /\ payment.amount = ledger[payment.tx_hash].amount
        /\ payment.asset = AssetName(ledger[payment.tx_hash].asset)
    BY <2>2 DEF parse_payment
  <2>6. Backed([session_id |-> m, pass |-> pass], ledger, requests)
    BY <2>2, <2>3, <2>4, <2>5 DEF Matches
  <2>7. \A n \in DOMAIN issued' : Backed(issued'[n], ledger', requests')
    <3> HIDE DEF Backed
    <3>1. Backed(issued'[new], ledger', requests')
      BY <1>3, <2>1, <2>6
    <3>2. ASSUME NEW n \in DOMAIN issued
          PROVE  Backed(issued'[n], ledger', requests')
      BY <1>3, <1>4, <2>1
    <3> QED
      BY <2>1, <3>1, <3>2
  <2> QED
    BY <2>7 DEF PassBackedByPayment
<1> QED
  BY <1>5, <1>6, IssuedUnchanged

-----------------------------------------------------------------------------
(* Theorems.                                                               *)

\* The invariant holds of a server that has just started.
LEMMA IndInvInit == Init => IndInv
<1> SUFFICES ASSUME Init PROVE IndInv
  OBVIOUS
<1>1. TypeOK
  BY TypeInit
<1>2. SnapshotIsCurrent /\ FoundPaysSession
  BY DEF Init, SnapshotIsCurrent, InFlight, FoundPaysSession
<1>3. /\ SessionsAsRequested /\ SettledOrUntouched /\ PassBackedByPayment
      /\ OnePassPerSession
  BY DEF Init, SessionsAsRequested, SettledOrUntouched, PassBackedByPayment,
    OnePassPerSession
<1> QED
  BY <1>1, <1>2, <1>3 DEF IndInv

\* Every step of a buyer, the network, the clock, a restart or the watcher
\* keeps it.
LEMMA IndInvNext == IndInv /\ [Next]_vars => IndInv'
<1> SUFFICES ASSUME IndInv, [Next]_vars PROVE IndInv'
  OBVIOUS
<1>1. TypeOK'
  BY TypeNext DEF IndInv
<1>2. /\ SnapshotIsCurrent' /\ FoundPaysSession' /\ SessionsAsRequested'
      /\ SettledOrUntouched' /\ PassBackedByPayment' /\ OnePassPerSession'
  BY SnapshotNext, FoundNext, AsRequestedNext, SettledNext, BackedNext, OnePassNext
<1> QED
  BY <1>1, <1>2 DEF IndInv

\* The inductive invariant holds of every reachable state of the server.
THEOREM Inductive == Spec => []IndInv
BY IndInvInit, IndInvNext, PTL DEF Spec

\* The copies the watcher took before it awaited Horizon are what the store
\* holds when it uses them.
THEOREM SnapshotCurrent == Spec => []SnapshotIsCurrent
<1>1. IndInv => SnapshotIsCurrent
  BY DEF IndInv
<1> QED
  BY <1>1, Inductive, PTL

\* No pass is ever signed without the payment its session asked for.
THEOREM Backed == Spec => []PassBackedByPayment
<1>1. IndInv => PassBackedByPayment
  BY DEF IndInv
<1> QED
  BY <1>1, Inductive, PTL

\* Two passes of one payment would carry the memo of two sessions.
LEMMA InvOnePass == IndInv => OnePass
<1> SUFFICES ASSUME IndInv, NEW n \in DOMAIN issued, NEW k \in DOMAIN issued, n # k
             PROVE  /\ issued[n].session_id # issued[k].session_id
                    /\ issued[n].pass.payment.tx_hash # issued[k].pass.payment.tx_hash
  BY DEF OnePass
<1>1. issued[n].session_id # issued[k].session_id
  BY DEF IndInv, OnePassPerSession
<1>2. /\ issued[n].pass.payment.memo = issued[n].session_id
      /\ issued[n].pass.payment =
           parse_payment(ledger, issued[n].pass.payment.tx_hash)
      /\ issued[k].pass.payment.memo = issued[k].session_id
      /\ issued[k].pass.payment =
           parse_payment(ledger, issued[k].pass.payment.tx_hash)
  BY DEF IndInv, PassBackedByPayment
<1> QED
  BY <1>1, <1>2

\* The payment a pass names has reached the destination.
LEMMA ReceivedForPass ==
  ASSUME IndInv, NEW n \in DOMAIN issued
  PROVE  issued[n].pass.payment.tx_hash \in Received
<1> DEFINE event == issued[n].pass.payment
<1>1. /\ event.tx_hash \in DOMAIN ledger /\ event = parse_payment(ledger, event.tx_hash)
      /\ ledger[event.tx_hash].successful /\ ledger[event.tx_hash].type = "payment"
      /\ event.destination_account = Destination
  BY DEF IndInv, PassBackedByPayment
<1>2. event.destination_account = ledger[event.tx_hash].to
  BY <1>1 DEF parse_payment
<1> QED
  BY <1>1, <1>2 DEF Received

\* No session is served twice and no payment buys two passes.
THEOREM OnePassEver == Spec => []OnePass
BY InvOnePass, Inductive, PTL

LEMMA ReceivedFinite == IndInv => IsFiniteSet(Received)
<1> SUFFICES ASSUME IndInv PROVE IsFiniteSet(Received)
  OBVIOUS
<1>1. DOMAIN ledger = 1 .. Len(ledger) /\ Len(ledger) \in Nat
  BY DEF IndInv, TypeOK
<1>2. IsFiniteSet(DOMAIN ledger)
  BY <1>1, FS_Interval
<1> QED
  BY <1>2, FS_Subset DEF Received

\* No pass is signed that was not paid for: mark_paid and run_payment_watcher keep the
\* number of passes at or below the number of payments the destination received.
THEOREM BooksBalance == Spec => []PassesAreCovered
<1>1. ASSUME IndInv PROVE PassesAreCovered
  <2> DEFINE tx == [n \in DOMAIN issued |-> issued[n].pass.payment.tx_hash]
  <2>1. /\ IsFiniteSet(Received)
        /\ DOMAIN issued = 1 .. Len(issued) /\ Len(issued) \in Nat
    BY <1>1, ReceivedFinite DEF IndInv, TypeOK
  <2>2. \A n \in DOMAIN issued : tx[n] \in Received
    BY <1>1, ReceivedForPass
  <2>3. \A n, k \in DOMAIN issued : tx[n] = tx[k] => n = k
    BY <1>1, InvOnePass DEF OnePass
  <2>4. tx \in Injection(DOMAIN issued, Received)
    BY <2>2, <2>3 DEF Injection, IsInjective
  <2>5. Cardinality(DOMAIN issued) <= Cardinality(Received)
    BY <2>1, <2>4, FS_Injection
  <2>6. Cardinality(1 .. Len(issued)) = Len(issued)
    <3> DEFINE k == Len(issued)
    <3>1. k \in Nat
      BY <2>1
    <3> HIDE DEF k
    <3>2. Cardinality(1 .. k) = IF 1 > k THEN 0 ELSE k - 1 + 1
      BY <3>1, FS_Interval
    <3>3. Cardinality(1 .. k) = k
      BY <3>1, <3>2
    <3> QED
      BY <3>3 DEF k
  <2> QED
    BY <2>1, <2>5, <2>6 DEF PassesAreCovered
<1> QED
  BY <1>1, Inductive, PTL

\* What the server answers about a session is exactly what was signed for it.
THEOREM StoreShows == Spec => []StoreShowsIssuedPass
<1>1. IndInv => StoreShowsIssuedPass
  <2> SUFFICES ASSUME IndInv, NEW m \in DOMAIN sessions
               PROVE  \/ /\ Status(m) \in {"waiting", "expired"}
                         /\ \A n \in DOMAIN issued : issued[n].session_id # m
                      \/ /\ Status(m) = "confirmed"
                         /\ sessions[m].paid
                         /\ sessions[m].tx_hash = sessions[m].access_token.payment.tx_hash
                         /\ \E n \in DOMAIN issued :
                              issued[n] = [session_id |-> m, pass |-> sessions[m].access_token]
    BY DEF StoreShowsIssuedPass
  <2>1. CASE Settled(m)
    BY <2>1 DEF Settled, Status, StatusOf
  <2>2. CASE Untouched(m)
    <3>1. Status(m) \in {"waiting", "expired"}
      BY <2>2 DEF Untouched, Status, StatusOf
    <3> QED
      BY <2>2, <3>1 DEF Untouched
  <2> QED
    BY <2>1, <2>2 DEF IndInv, SettledOrUntouched
<1> QED
  BY <1>1, Inductive, PTL

\* While the process lives a settled session does not change: the watcher
\* writes no session but the unpaid one it holds, a new one has a new id.
THEOREM PassNeverReplaced == Spec => PassIsFinal
<1> DEFINE Final == \A m \in DOMAIN sessions :
                      sessions[m].access_token # None /\ restarts' = restarts
                        => m \in DOMAIN sessions' /\ sessions'[m] = sessions[m]
<1>1. IndInv /\ [Next]_vars => Final
  <2> SUFFICES ASSUME IndInv, [Next]_vars, NEW x \in DOMAIN sessions,
                      sessions[x].access_token # None, restarts' = restarts
               PROVE  x \in DOMAIN sessions' /\ sessions'[x] = sessions[x]
    OBVIOUS
  <2>1. ASSUME NEW m \in Memos, NEW body \in Bodies, CreatePaymentRequest(m, body)
        PROVE  x \in DOMAIN sessions' /\ sessions'[x] = sessions[x]
    BY <2>1 DEF CreatePaymentRequest, Put, IndInv, SessionsAsRequested
  <2>2. CASE IssueAndMarkPaid
    <3>1. PICK m \in DOMAIN sessions, pass \in Pass, new \in Nat :
            /\ \A n \in DOMAIN issued : issued[n].session_id # m
            /\ sessions' = MarkedPaid(m, pass)
      BY <2>2, IssueFacts
    <3>2. x # m
      BY <3>1 DEF IndInv, SettledOrUntouched, Settled, Untouched
    <3> QED
      BY <3>1, <3>2 DEF MarkedPaid
  <2>3. CASE Restart
    BY <2>3 DEF Restart, IndInv, TypeOK
  <2>4. \/ \E m \in Memos, body \in Bodies : CreatePaymentRequest(m, body)
        \/ IssueAndMarkPaid \/ Restart
        \/ sessions' = sessions
    BY DEF Next, vars, Watcher, Confirm, Tick, PollTick, AskHorizon, LookupFound,
      LookupEmpty, LookupFailed, IssueFails, Continue
  <2> QED
    BY <2>1, <2>2, <2>3, <2>4
<1>2. IndInv /\ [Next]_vars => [Final]_vars
  BY <1>1
<1>3. Spec => [][Final]_vars
  BY <1>2, Inductive, PTL DEF Spec
<1> QED
  BY <1>3 DEF PassIsFinal

\* An expired session the watcher does not hold keeps its record, leaves the
\* store only by a restart, and is in no later snapshot.
THEOREM ExpiredStays == Spec => ExpiredOutOfFlightIsFinal
<1> DEFINE Out(m) == \A rec \in InFlight : rec.session_id # m
           Final == \A m \in DOMAIN sessions :
                      Status(m) = "expired" /\ Out(m)
                        => /\ Status(m)' \in {"expired", "not_found"}
                           /\ \A rec \in InFlight' : rec.session_id # m
<1>1. IndInv /\ [Next]_vars => Final
  <2> SUFFICES ASSUME IndInv, [Next]_vars, NEW x \in DOMAIN sessions,
                      Status(x) = "expired", Out(x)
               PROVE  /\ Status(x)' \in {"expired", "not_found"}
                      /\ \A rec \in InFlight' : rec.session_id # x
    OBVIOUS
  <2>1. Untouched(x) /\ sessions[x].request_expires_at <= now
    BY DEF IndInv, SettledOrUntouched, Settled, Untouched, Status, StatusOf
  <2>2. /\ now \in Nat /\ sessions[x].request_expires_at \in Nat
        /\ sessions[x].session_id = x
    BY DEF IndInv, TypeOK, SessionRecord, SessionsAsRequested
  <2>3. now' \in Nat /\ now' >= now
    <3>1. now' = now \/ now' = now + 1
      BY DEF Next, vars, Watcher, CreatePaymentRequest, Confirm, Tick, Restart, PollTick,
        AskHorizon, LookupFound, LookupEmpty, LookupFailed, IssueAndMarkPaid, IssueFails,
        Continue
    <3> QED
      BY <2>2, <3>1
  <2>4. x \in DOMAIN sessions' => sessions'[x] = sessions[x]
    <3>1. ASSUME NEW m \in Memos, NEW body \in Bodies, CreatePaymentRequest(m, body)
          PROVE  sessions'[x] = sessions[x]
      BY <3>1 DEF CreatePaymentRequest, Put, IndInv, SessionsAsRequested
    <3>2. CASE IssueAndMarkPaid
      <4>1. x # session.session_id
        BY <3>2, InFlightFacts, NoneAssumption DEF IndInv, IssueAndMarkPaid, InFlight
      <4> QED
        BY <3>2, <4>1 DEF IssueAndMarkPaid, MarkedPaid
    <3>3. CASE Restart
      BY <3>3 DEF Restart
    <3>4. \/ \E m \in Memos, body \in Bodies : CreatePaymentRequest(m, body)
          \/ IssueAndMarkPaid \/ Restart
          \/ sessions' = sessions
      BY DEF Next, vars, Watcher, Confirm, Tick, PollTick, AskHorizon, LookupFound,
        LookupEmpty, LookupFailed, IssueFails, Continue
    <3> QED
      BY <3>1, <3>2, <3>3, <3>4
  <2>5. Status(x)' \in {"expired", "not_found"}
    BY <2>1, <2>2, <2>3, <2>4 DEF Status, StatusOf, Untouched
  <2>6. \A rec \in InFlight' : rec.session_id # x
    <3>1. CASE PollTick
      <4>1. InFlight' = pending'
        BY <3>1 DEF PollTick, InFlight, IndInv, TypeOK
      <4>2. ASSUME NEW m \in DOMAIN sessions, IsPending(sessions[m])
            PROVE  sessions[m].session_id # x
        BY <2>1, <2>2, <4>2 DEF IsPending, IndInv, SessionsAsRequested
      <4> QED
        BY <3>1, <4>1, <4>2 DEF PollTick
    <3>2. CASE InFlight' \subseteq InFlight
      BY <3>2
    <3>3. CASE AskHorizon
      BY <3>3 DEF AskHorizon, InFlight
    <3>4. CASE Restart
      BY <3>4 DEF Restart, InFlight
    <3>5. CASE Continue
      BY <3>5, ContinueInFlight
    <3>6. CASE pending' = pending /\ session' = session
      BY <3>6 DEF InFlight
    <3>7. \/ PollTick \/ AskHorizon \/ Restart \/ Continue
          \/ pending' = pending /\ session' = session
      BY DEF Next, vars, watcherVars, Watcher, CreatePaymentRequest, Confirm, Tick,
        LookupFound, LookupEmpty, LookupFailed, IssueAndMarkPaid, IssueFails
    <3> QED
      BY <3>1, <3>2, <3>3, <3>4, <3>5, <3>6, <3>7
  <2> QED
    BY <2>5, <2>6
<1>2. IndInv /\ [Next]_vars => [Final]_vars
  BY <1>1
<1>3. Spec => [][Final]_vars
  BY <1>2, Inductive, PTL DEF Spec
<1> QED
  BY <1>3 DEF ExpiredOutOfFlightIsFinal

-----------------------------------------------------------------------------
(* Refinement.                                                             *)

\* A server that has just started is the promise before anything happened.
LEMMA PromiseInit == Init => Promise!Init
BY DEF Init, Promise!Init, Granted

\* Every step opens a session, settles a payment, grants a pass, or is none
\* of the promise's business.
LEMMA PromiseStep ==
  ASSUME IndInv, [Next]_vars
  PROVE  [Promise!Next]_(Promise!vars)
<1>1. ASSUME NEW m \in Memos, NEW body \in Bodies, CreatePaymentRequest(m, body)
      PROVE  Promise!Next
  <2>1. Promise!Open(m, body)
    BY <1>1 DEF CreatePaymentRequest, Put, Promise!Open, Granted
  <2> QED
    BY <2>1 DEF Promise!Next
<1>2. ASSUME NEW t \in Transfers, NEW memo \in Memos \union {NoMemo}, Confirm(t, memo)
      PROVE  Promise!Next
  <2>1. Promise!Settle(t, memo)
    BY <1>2 DEF Confirm, Promise!Settle, Granted
  <2> QED
    BY <2>1 DEF Promise!Next
<1>3. CASE IssueAndMarkPaid
  <2>1. PICK m \in DOMAIN sessions, pass \in Pass, new \in Nat :
          /\ phase = "found" /\ m = session.session_id /\ sessions[m] = session
          /\ pass = PassFor(session, payment)
          /\ \A n \in DOMAIN issued : issued[n].session_id # m
          /\ DOMAIN issued' = DOMAIN issued \union {new} /\ new \notin DOMAIN issued
          /\ \A n \in DOMAIN issued : issued'[n] = issued[n]
          /\ issued'[new] = [session_id |-> m, pass |-> pass]
    BY <1>3, IssueFacts
  <2> DEFINE i == payment.tx_hash
  <2>2. i \in DOMAIN ledger /\ Matches(ledger[i], m, session.amount, session.asset)
    BY <2>1 DEF IndInv, FoundPaysSession
  <2>3. /\ m \in Memos /\ m \in DOMAIN requests
        /\ session.amount = requests[m].amount /\ session.asset = requests[m].asset
        /\ session.event_id = requests[m].event_id
    BY <2>1 DEF IndInv, TypeOK, SessionsAsRequested
  <2>4. pass.payment.tx_hash = i /\ pass.event_id = requests[m].event_id
    BY <2>1, <2>3 DEF PassFor
  <2>5. Promise!Pays(ledger[i], m, requests[m])
    BY <2>2, <2>3 DEF Matches, AssetName, Promise!Pays
  <2>6. \A n \in DOMAIN issued : issued[n].pass.payment.tx_hash # i
    <3>1. ASSUME NEW n \in DOMAIN issued PROVE issued[n].pass.payment.tx_hash # i
      <4>1. ledger[issued[n].pass.payment.tx_hash].memo = issued[n].session_id
        <5>1. /\ issued[n].pass.payment.memo = issued[n].session_id
              /\ issued[n].pass.payment =
                   parse_payment(ledger, issued[n].pass.payment.tx_hash)
          BY DEF IndInv, PassBackedByPayment
        <5>2. \A j : parse_payment(ledger, j).memo = ledger[j].memo
          BY DEF parse_payment
        <5> QED
          BY <5>1, <5>2
      <4>2. ledger[i].memo = m
        BY <2>2 DEF Matches
      <4> QED
        BY <2>1, <4>1, <4>2
    <3> QED
      BY <3>1
  <2>7. Granted' = Granted \union {[memo |-> m, event_id |-> requests[m].event_id, tx |-> i]}
    BY <2>1, <2>4 DEF Granted
  <2>8. ledger' = ledger /\ requests' = requests
    BY <1>3 DEF IssueAndMarkPaid, Continue
  <2>9. \A g \in Granted : g.memo # m /\ g.tx # i
    BY <2>1, <2>6 DEF Granted
  <2>10. Promise!Grant(m, i)
    BY <2>2, <2>3, <2>5, <2>7, <2>8, <2>9 DEF Promise!Grant
  <2> QED
    BY <2>2, <2>3, <2>10 DEF Promise!Next
<1>4. CASE ledger' = ledger /\ requests' = requests /\ issued' = issued
  BY <1>4 DEF Promise!vars, Granted
<1>5. \/ \E m \in Memos, body \in Bodies : CreatePaymentRequest(m, body)
      \/ \E t \in Transfers, memo \in Memos \union {NoMemo} : Confirm(t, memo)
      \/ IssueAndMarkPaid
      \/ ledger' = ledger /\ requests' = requests /\ issued' = issued
  BY DEF Next, vars, Watcher, Tick, Restart, PollTick, AskHorizon, LookupFound,
    LookupEmpty, LookupFailed, IssueFails, Continue
<1> QED
  BY <1>1, <1>2, <1>3, <1>4, <1>5

\* The server, with its polling, expiry, paging and restarts, keeps the
\* promise: passes only for matching payments, one per session and payment.
THEOREM Refinement == Spec => KeepsPromise
<1>1. IndInv /\ [Next]_vars => [Promise!Next]_(Promise!vars)
  BY PromiseStep
<1> QED
  BY <1>1, PromiseInit, Inductive, PTL DEF Spec, KeepsPromise, Promise!Spec

\* The status of a session in the store: an untouched one waits until its
\* request expires, a settled one is confirmed.
LEMMA StatusFacts ==
  ASSUME IndInv, NEW m \in DOMAIN sessions
  PROVE  /\ m \in Memos /\ m \in DOMAIN requests /\ Answered[m] = StatusOf(sessions[m])
         /\ Settled(m) => StatusOf(sessions[m]) = "confirmed"
         /\ Untouched(m) => StatusOf(sessions[m]) =
              IF sessions[m].request_expires_at <= now THEN "expired" ELSE "waiting"
         /\ Settled(m) \/ Untouched(m)
<1>1. m \in Memos /\ m \in DOMAIN requests
  BY DEF IndInv, TypeOK, SessionsAsRequested
<1>2. Answered[m] = StatusOf(sessions[m])
  BY <1>1 DEF Answered, Status
<1>3. Settled(m) \/ Untouched(m)
  BY DEF IndInv, SettledOrUntouched
<1>4. Settled(m) => StatusOf(sessions[m]) = "confirmed"
  BY DEF Settled, StatusOf
<1>5. Untouched(m) => StatusOf(sessions[m]) =
        IF sessions[m].request_expires_at <= now THEN "expired" ELSE "waiting"
  BY DEF Untouched, StatusOf
<1> QED
  BY <1>1, <1>2, <1>3, <1>4, <1>5

\* A server that has just started has answered about no session.
LEMMA LifeInit == Init => Life!LifeInit
BY DEF Init, Life!LifeInit, Answered

\* Every step of the server is a step of a session's life, or shows nothing.
LEMMA LifeStep ==
  ASSUME IndInv, [Next]_vars
  PROVE  [Life!LifeNext]_Answered
<1>0. /\ Answered = [m \in Memos |-> Answered[m]]
      /\ Answered' = [m \in Memos |-> Answered'[m]]
  BY DEF Answered
<1>1. ASSUME NEW m \in Memos, NEW body \in Bodies, CreatePaymentRequest(m, body)
      PROVE  Life!LifeNext
  <2>1. m \notin DOMAIN sessions /\ m \notin DOMAIN requests /\ now' = now
    BY <1>1 DEF CreatePaymentRequest, IndInv, SessionsAsRequested
  <2>2. /\ DOMAIN sessions' = DOMAIN sessions \union {m}
        /\ sessions'[m] = NewSession(m, body)
        /\ DOMAIN requests' = DOMAIN requests \union {m}
        /\ \A k \in DOMAIN sessions : sessions'[k] = sessions[k]
    BY <1>1, <2>1 DEF CreatePaymentRequest, Put
  <2>3. Answered[m] = "never"
    BY <2>1 DEF Answered
  <2>4. Answered'[m] \in {"waiting", "expired"}
    BY <2>1, <2>2 DEF Answered, Status, StatusOf, NewSession
  <2>5. \A k \in Memos : k # m => Answered'[k] = Answered[k]
    BY <2>1, <2>2 DEF Answered, Status, StatusOf
  <2>6. Answered' = [Answered EXCEPT ![m] = Answered'[m]]
    BY <1>0, <2>5
  <2> QED
    BY <2>3, <2>4, <2>6 DEF Life!LifeNext, Life!Open
<1>2. CASE Tick
  <2> DEFINE S == {m \in Memos : Answered[m] = "waiting" /\ Answered'[m] = "expired"}
  <2>1. sessions' = sessions /\ requests' = requests /\ now \in Nat /\ now' = now + 1
    BY <1>2 DEF Tick, IndInv, TypeOK
  <2>2. ASSUME NEW m \in Memos
        PROVE  \/ Answered'[m] = Answered[m]
               \/ Answered[m] = "waiting" /\ Answered'[m] = "expired"
    <3>1. CASE m \in DOMAIN sessions
      <4>1. sessions[m].request_expires_at \in Nat
        BY <3>1 DEF IndInv, TypeOK, SessionRecord
      <4>2. Answered'[m] = StatusOf(sessions[m])' /\ Answered[m] = StatusOf(sessions[m])
        BY <2>1, <3>1, StatusFacts DEF Answered, Status
      <4>3. StatusOf(sessions[m])' = StatusOf(sessions[m])
              \/ /\ StatusOf(sessions[m]) = "waiting"
                 /\ StatusOf(sessions[m])' = "expired"
        BY <2>1, <4>1 DEF StatusOf
      <4> QED
        BY <4>2, <4>3
    <3>2. CASE m \notin DOMAIN sessions
      BY <2>1, <3>2 DEF Answered, Status
    <3> QED
      BY <3>1, <3>2
  <2>3. CASE S = {}
    BY <1>0, <2>2, <2>3
  <2>4. CASE S # {}
    <3>1. S \in SUBSET {m \in Memos : Answered[m] = "waiting"}
      OBVIOUS
    <3>2. Answered' = [m \in Memos |-> IF m \in S THEN "expired" ELSE Answered[m]]
      BY <1>0, <2>2
    <3> HIDE DEF S
    <3> QED
      BY <2>4, <3>1, <3>2 DEF Life!LifeNext, Life!Expire
  <2> QED
    BY <2>3, <2>4
<1>3. CASE IssueAndMarkPaid
  <2>1. PICK m \in DOMAIN sessions, pass \in Pass, new \in Nat :
          /\ \A n \in DOMAIN issued : issued[n].session_id # m
          /\ sessions' = MarkedPaid(m, pass)
    BY <1>3, IssueFacts
  <2>2. requests' = requests /\ now' = now
    BY <1>3 DEF IssueAndMarkPaid, Continue
  <2>3. /\ DOMAIN sessions' = DOMAIN sessions /\ sessions'[m].access_token = pass
        /\ \A k \in DOMAIN sessions : k # m => sessions'[k] = sessions[k]
    BY <2>1 DEF MarkedPaid, IndInv, TypeOK, SessionRecord
  <2>4. m \in Memos /\ m \in DOMAIN requests /\ Answered[m] \in {"waiting", "expired"}
    BY <2>1, StatusFacts DEF Settled
  <2>5. Answered'[m] = "confirmed"
    BY <2>2, <2>3, <2>4, NoneAssumption DEF Answered, Status, StatusOf
  <2>6. \A k \in Memos : k # m => Answered'[k] = Answered[k]
    BY <2>2, <2>3 DEF Answered, Status, StatusOf
  <2>7. Answered' = [Answered EXCEPT ![m] = "confirmed"]
    BY <1>0, <2>5, <2>6
  <2> QED
    BY <2>4, <2>7 DEF Life!LifeNext, Life!Settle
<1>4. CASE Restart
  <2>1. sessions' = << >> /\ requests' = requests
    BY <1>4 DEF Restart
  <2>2. \A m \in Memos : /\ m \in DOMAIN requests <=> Answered[m] # "never"
                         /\ m \in DOMAIN requests => Answered'[m] = "not_found"
                         /\ m \notin DOMAIN requests => Answered'[m] = "never"
    BY <2>1 DEF Answered, Status, StatusOf
  <2>3. Answered' = [m \in Memos |-> IF Answered[m] = "never" THEN "never" ELSE "not_found"]
    BY <1>0, <2>2
  <2> QED
    BY <2>3 DEF Life!LifeNext, Life!Forget
<1>5. CASE sessions' = sessions /\ requests' = requests /\ now' = now
  BY <1>5 DEF Answered, Status, StatusOf
<1>6. \/ \E m \in Memos, body \in Bodies : CreatePaymentRequest(m, body)
      \/ Tick \/ IssueAndMarkPaid \/ Restart
      \/ sessions' = sessions /\ requests' = requests /\ now' = now
  BY DEF Next, vars, Watcher, Confirm, PollTick, AskHorizon, LookupFound,
    LookupEmpty, LookupFailed, IssueFails, Continue
<1> QED
  BY <1>1, <1>2, <1>3, <1>4, <1>5, <1>6

\* What a client is told about its session over time is the life SessionLife
\* describes, on which the model of the checkout page is built.
THEOREM LifeKept == Spec => KeepsLife
<1>1. IndInv /\ [Next]_vars => [Life!LifeNext]_Answered
  BY LifeStep
<1> QED
  BY <1>1, LifeInit, Inductive, PTL DEF Spec, KeepsLife, Life!LifeSpec

-----------------------------------------------------------------------------
(* Rounds of the watcher: the part of PaidSessionSettles that needs no      *)
(* fairness.                                                               *)

\* A round takes up exactly the sessions whose buyers are told to wait.
LEMMA SnapshotComplete ==
  ASSUME IndInv, PollTick
  PROVE  /\ InFlight = {} /\ phase' = "idle"
         /\ \A m \in DOMAIN sessions : Status(m) = "waiting" <=> sessions[m] \in InFlight'
<1>1. session = None /\ session' = None
  BY DEF PollTick, IndInv, TypeOK
<1>2. InFlight = {} /\ InFlight' = pending'
  BY <1>1 DEF InFlight, PollTick
<1>3. ASSUME NEW m \in DOMAIN sessions
      PROVE  Status(m) = "waiting" <=> IsPending(sessions[m])
  <2>1. sessions[m].request_expires_at \in Nat /\ now \in Nat
    BY DEF IndInv, TypeOK, SessionRecord
  <2>2. CASE Settled(m)
    BY <2>2, StatusFacts DEF Status, Settled, IsPending
  <2>3. CASE Untouched(m)
    BY <2>1, <2>3, StatusFacts DEF Status, Untouched, IsPending
  <2> QED
    BY <2>2, <2>3, StatusFacts
<1>4. \A m \in DOMAIN sessions : IsPending(sessions[m]) <=> sessions[m] \in pending'
  BY DEF PollTick
<1> QED
  BY <1>2, <1>3, <1>4 DEF PollTick

\* What ends the work on a session takes that session from those in flight.
LEMMA ContinueLetsGo ==
  ASSUME IndInv, phase # "idle", Continue
  PROVE  /\ InFlight' = InFlight \ {session}
         /\ session \in InFlight /\ phase' = "idle"
<1>1. session # None /\ session \notin pending
  BY NoneAssumption DEF IndInv, TypeOK, SnapshotIsCurrent
<1> QED
  BY <1>1 DEF Continue, InFlight

\* The payment watcher never drops a session it has not asked about, never takes one
\* up twice in a round, and no failure ends its loop: every round nears its end.
THEOREM RoundsGoOn == Spec => RoundsProgress
<1> DEFINE Headway ==
             \/ /\ InFlight = {} /\ phase' = "idle"
                /\ \A m \in DOMAIN sessions :
                     Status(m) = "waiting" <=> sessions[m] \in InFlight'
             \/ /\ InFlight' = InFlight
                /\ <<phase, phase'>> \in {<<"idle", "asking">>, <<"asking", "found">>}
             \/ /\ InFlight' = InFlight \ {session}
                /\ session \in InFlight /\ phase # "idle" /\ phase' = "idle"
<1>1. ASSUME IndInv, Watcher PROVE Headway
  <2>1. CASE PollTick
    BY <1>1, <2>1, SnapshotComplete
  <2>2. CASE AskHorizon
    <3>1. session = None /\ None \notin pending
      BY <1>1, <2>2, NoneAssumption DEF AskHorizon, IndInv, TypeOK
    <3> QED
      BY <2>2, <3>1 DEF AskHorizon, InFlight
  <2>3. CASE LookupFound
    BY <2>3 DEF LookupFound, InFlight
  <2>4. CASE LookupEmpty \/ LookupFailed \/ IssueAndMarkPaid \/ IssueFails
    BY <1>1, <2>4, ContinueLetsGo DEF LookupEmpty, LookupFailed, IssueAndMarkPaid, IssueFails
  <2> QED
    BY <1>1, <2>1, <2>2, <2>3, <2>4 DEF Watcher
<1>2. IndInv /\ [Next]_vars => [Watcher => Headway]_vars
  BY <1>1
<1>3. Spec => [][Watcher => Headway]_vars
  BY <1>2, Inductive, PTL DEF Spec
<1> QED
  BY <1>3 DEF RoundsProgress

\* A set of positions that is not empty has a last one.
LEMMA LastPosition ==
  ASSUME NEW n \in Nat, NEW S, S \subseteq 1 .. n, S # {}
  PROVE  \E i \in S : \A j \in S : j <= i
<1> DEFINE T == {n - i : i \in S}
           Less == OpToRel(<, Nat)
<1>1. T \subseteq Nat /\ T # {}
  <2>1. \A i \in S : n - i \in Nat
    OBVIOUS
  <2> QED
    BY <2>1
<1>2. \A k, l \in Nat : <<k, l>> \in Less <=> k < l
  BY DEF OpToRel
<1>3. IsWellFoundedOn(Less, Nat)
  BY NatLessThanWellFounded
<1>4. PICK k \in T : \A l \in T : <<l, k>> \notin Less
  <2> HIDE DEF T, Less
  <2> QED
    BY <1>1, <1>3, WFMin
<1>5. PICK i \in S : k = n - i
  OBVIOUS
<1>6. ASSUME NEW j \in S PROVE j <= i
  <2>1. n - j \in T /\ n - j \in Nat /\ n - i \in Nat
    BY <1>1
  <2>2. ~(n - j < n - i)
    BY <1>2, <1>4, <1>5, <2>1
  <2> QED
    BY <2>2
<1> QED
  BY <1>6

\* find_confirmed_payment is a function: of the matches on the page, if there are any,
\* one and only one is the newest.
LEMMA NewestHit ==
  ASSUME ledger \in Seq(PaymentRecord), NEW rec, Hits(ledger, rec) # {}
  PROVE  \E i : /\ IsNewestHit(ledger, rec, i)
               /\ \A j : IsNewestHit(ledger, rec, j) => j = i
<1>1. Hits(ledger, rec) \subseteq 1 .. Len(ledger) /\ Len(ledger) \in Nat
  BY DEF Hits, Page
<1>2. PICK i \in Hits(ledger, rec) : \A j \in Hits(ledger, rec) : j <= i
  BY <1>1, LastPosition
<1>3. ASSUME NEW j, IsNewestHit(ledger, rec, j) PROVE j = i
  <2>1. j \in Hits(ledger, rec) /\ i <= j
    BY <1>3 DEF IsNewestHit
  <2> QED
    BY <1>1, <1>2, <2>1
<1> QED
  BY <1>2, <1>3 DEF IsNewestHit

\* When Horizon answers about a session, the adapter returns the one newest match or
\* there is none: run_payment_watcher always knows how to go on.
THEOREM LookupReturns ==
  Spec => [](phase = "asking" =>
               \/ Hits(ledger, session) = {}
               \/ \E i : /\ IsNewestHit(ledger, session, i)
                         /\ \A j : IsNewestHit(ledger, session, j) => j = i)
<1>1. IndInv => (phase = "asking" =>
                   \/ Hits(ledger, session) = {}
                   \/ \E i : /\ IsNewestHit(ledger, session, i)
                             /\ \A j : IsNewestHit(ledger, session, j) => j = i)
  BY NewestHit DEF IndInv, TypeOK
<1> QED
  BY <1>1, Inductive, PTL

\* A round is about finitely many sessions, so with RoundsProgress every round ends.
THEOREM RoundsAreFinite == Spec => []IsFiniteSet(InFlight)
<1> DEFINE Finite == IsFiniteSet(DOMAIN sessions) /\ IsFiniteSet(pending)
<1>1. Init => Finite
  BY FS_EmptySet DEF Init
<1>2. IndInv /\ Finite /\ [Next]_vars => Finite'
  <2> SUFFICES ASSUME IndInv, Finite, [Next]_vars PROVE Finite'
    OBVIOUS
  <2>1. CASE \E m \in Memos, body \in Bodies : CreatePaymentRequest(m, body)
    <3>1. PICK m \in Memos : DOMAIN sessions' = DOMAIN sessions \union {m}
      BY <2>1 DEF CreatePaymentRequest, Put
    <3> QED
      BY <2>1, <3>1, FS_AddElement DEF CreatePaymentRequest, watcherVars
  <2>2. CASE Restart
    BY <2>2, FS_EmptySet DEF Restart
  <2>3. CASE PollTick
    <3> DEFINE K == {m \in DOMAIN sessions : IsPending(sessions[m])}
    <3>1. IsFiniteSet(K)
      BY FS_Subset
    <3>2. [m \in K |-> sessions[m]] \in Surjection(K, {sessions[m] : m \in K})
      BY DEF Surjection
    <3>3. IsFiniteSet({sessions[m] : m \in K})
      BY <3>1, <3>2, FS_Surjection
    <3> QED
      BY <2>3, <3>3 DEF PollTick
  <2>4. CASE AskHorizon
    BY <2>4, FS_Subset DEF AskHorizon
  <2>5. CASE Continue /\ DOMAIN sessions' = DOMAIN sessions
    BY <2>5 DEF Continue
  <2>6. CASE UNCHANGED <<sessions, pending>>
    BY <2>6
  <2>7. IssueAndMarkPaid => DOMAIN sessions' = DOMAIN sessions
    BY DEF IssueAndMarkPaid, MarkedPaid
  <2> QED
    BY <2>1, <2>2, <2>3, <2>4, <2>5, <2>6, <2>7
      DEF Next, vars, watcherVars, Watcher, Confirm, Tick, LookupFound, LookupEmpty,
        LookupFailed, IssueAndMarkPaid, IssueFails
<1>3. Finite => IsFiniteSet(InFlight)
  BY FS_AddElement DEF InFlight
<1>4. Spec => []Finite
  BY <1>1, <1>2, Inductive, PTL DEF Spec
<1> QED
  BY <1>3, <1>4, PTL

=============================================================================
