------------------------------ MODULE Checkout ------------------------------
(***************************************************************************)
(* The HASKE checkout server: the HTTP handlers and in-memory session      *)
(* store of api_server, its background payment watcher, and the signing of *)
(* access passes.                                                          *)
(*                                                                         *)
(* Three parties interleave: buyers who open sessions, the Stellar network *)
(* that confirms payments, and one watcher task that repeatedly takes a    *)
(* snapshot of the unpaid sessions, asks Horizon about each of them in     *)
(* turn, and signs a pass for each one whose payment it finds.  The clock  *)
(* and process restarts are steps of their own.                            *)
(*                                                                         *)
(* Not in the state: QR images (functions of the payload they encode; only *)
(* their failure to fit is kept), logging, HTTP framing.                   *)
(***************************************************************************)
EXTENDS StellarAdapter, FiniteSets

CONSTANTS
  Bodies,         \* [amount, asset, event_id] of the payment requests buyers send
  TooLongForQr,   \* amounts and event ids that overflow a QR code
  RequestTtl,     \* life of a payment request (15 * 60 in the code)
  TokenTtl,       \* life of a pass (HASKE_TOKEN_EXPIRY_SECS)
  StableKey,      \* is HASKE_SIGNING_KEY_BASE64 set?
  None,           \* Rust's None
  MaxNow,         \* bound: last instant of the clock
  MaxPayments,    \* bound: transfers confirmed
  MaxRestarts     \* bound: process restarts

ASSUME TtlAssumption == RequestTtl \in Nat /\ TokenTtl \in Nat
ASSUME BoundAssumption ==
         MaxNow \in Nat /\ MaxPayments \in Nat /\ MaxRestarts \in Nat
ASSUME KeyAssumption == StableKey \in BOOLEAN

VARIABLES
  now,        \* seconds of the server's clock (SystemTime::now)
  ledger,     \* sequence of records as Horizon lists them, oldest first
  sessions,   \* PaymentService.sessions: session id |-> SessionRecord
  pending,    \* sessions of the watcher's snapshot it has yet to ask about
  phase,      \* the watcher: "idle", "asking" Horizon, "found" a payment
  session,    \* the snapshot record the watcher works on, or None
  payment,    \* the event find_confirmed_payment returned, or None
  restarts,   \* how often the process was restarted
  requests,   \* history: every session id ever created |-> its request
  issued      \* history: every pass ever signed, in order, with its session

watcherVars == <<pending, phase, session, payment>>
vars == <<now, ledger, sessions, pending, phase, session, payment,
          restarts, requests, issued>>

-----------------------------------------------------------------------------
(* Data.                                                                   *)

Pass ==
  [event_id : {b.event_id : b \in Bodies}, payment : PaymentEvent,
   expires_at : Nat, nonce : Nat, key : Nat]

SessionRecord ==
  [session_id : Memos,
   amount : {b.amount : b \in Bodies},
   asset : {b.asset : b \in Bodies},
   event_id : {b.event_id : b \in Bodies},
   request_expires_at : Nat,
   expires_at : Nat,
   paid : BOOLEAN,
   tx_hash : Nat \union {None},
   access_token : Pass \union {None}]

ASSUME NoneAssumption ==
         None \notin Nat /\ None \notin Pass /\ None \notin SessionRecord
           /\ None \notin PaymentEvent

\* HashMap::insert
Put(f, k, v) == [x \in DOMAIN f \union {k} |-> IF x = k THEN v ELSE f[x]]

\* Mutants of the key below: the configured key is ignored; there is one key.
EphemeralKey == restarts
BuiltInKey == 0

\* A restart draws a new key unless one is configured.
signing_key == IF StableKey THEN 0 ELSE restarts

\* Does the pass of this session fit in a QR code?
PassFits(rec) == {rec.amount, rec.event_id} \intersect TooLongForQr = {}

\* The pass issue_token signs for a session snapshot and a payment event.
\* The nonce is drawn at random: here, a number never used before.
PassFor(rec, event) ==
  [event_id |-> rec.event_id, payment |-> event,
   expires_at |-> rec.expires_at, nonce |-> Len(issued), key |-> signing_key]

\* to_status_response
StatusOf(rec) ==
  CASE rec.access_token # None -> "confirmed"
    [] rec.access_token = None /\ (rec.paid \/ rec.tx_hash # None) -> "detected"
    [] rec.access_token = None /\ ~rec.paid /\ rec.tx_hash = None
       /\ rec.request_expires_at <= now -> "expired"
    [] OTHER -> "waiting"

\* What GET /api/payment-status/:id and /api/access-token/:id answer.
Status(m) == IF m \in DOMAIN sessions THEN StatusOf(sessions[m])
                                      ELSE "not_found"

-----------------------------------------------------------------------------
(* Buyers, network, clock, restarts.                                       *)

Init ==
  /\ now = 0
  /\ ledger = << >>
  /\ sessions = << >>
  /\ pending = {}
  /\ phase = "idle"
  /\ session = None
  /\ payment = None
  /\ restarts = 0
  /\ requests = << >>
  /\ issued = << >>

\* The record insert_session stores.
NewSession(m, body) ==
  [session_id |-> m,
   amount |-> body.amount,
   asset |-> body.asset,
   event_id |-> body.event_id,
   request_expires_at |-> now + RequestTtl,
   expires_at |-> now + TokenTtl,
   paid |-> FALSE,
   tx_hash |-> None,
   access_token |-> None]

\* POST /api/payment-request.  The session is stored before the wallet QR is
\* rendered, so it stays in the store even when rendering fails and the
\* buyer is answered 500.  The random memo is one never drawn before.
CreatePaymentRequest(m, body) ==
  /\ m \notin DOMAIN requests
  /\ sessions' = Put(sessions, m, NewSession(m, body))
  /\ requests' = Put(requests, m, body)
  /\ UNCHANGED <<now, ledger, watcherVars, restarts, issued>>

\* The buyer was shown the memo: the wallet QR could be rendered.
Shown(m) == m \in DOMAIN requests /\ requests[m].amount \notin TooLongForQr

\* A transfer is confirmed on the ledger and listed by Horizon.
Confirm(transfer, memo) ==
  /\ Len(ledger) < MaxPayments
  /\ memo = NoMemo \/ Shown(memo)
  /\ ledger' = Append(ledger,
       [to |-> transfer.to, amount |-> transfer.amount,
        asset |-> transfer.asset, successful |-> transfer.successful,
        type |-> transfer.type, memo |-> memo])
  /\ UNCHANGED <<now, sessions, watcherVars, restarts, requests, issued>>

Tick ==
  /\ now < MaxNow
  /\ now' = now + 1
  /\ UNCHANGED <<ledger, sessions, watcherVars, restarts, requests, issued>>

\* The store and the watcher's position live in memory only.
Restart ==
  /\ restarts < MaxRestarts
  /\ restarts' = restarts + 1
  /\ sessions' = << >>
  /\ pending' = {}
  /\ phase' = "idle"
  /\ session' = None
  /\ payment' = None
  /\ UNCHANGED <<now, ledger, requests, issued>>

-----------------------------------------------------------------------------
(* The watcher (run_payment_watcher).                                      *)

\* Mutants of the filter below: one of its two tests is dropped.
IsPendingEvenPaid(rec) == rec.request_expires_at > now
IsPendingEvenExpired(rec) == ~rec.paid

\* The filter of pending_sessions.
IsPending(rec) == ~rec.paid /\ rec.request_expires_at > now

\* ticker.tick() and pending_sessions(): copies of the unpaid sessions whose
\* payment request has not expired.
PollTick ==
  /\ phase = "idle"
  /\ pending = {}
  /\ pending' = {sessions[m] : m \in {k \in DOMAIN sessions : IsPending(sessions[k])}}
  /\ UNCHANGED <<now, ledger, sessions, phase, session, payment, restarts,
                 requests, issued>>

\* Mutant: the copy the loop takes stays in the list.
AskHorizonKeepingCopy ==
  /\ phase = "idle"
  /\ \E rec \in pending : session' = rec
  /\ phase' = "asking"
  /\ UNCHANGED <<now, ledger, sessions, pending, payment, restarts, requests,
                 issued>>

\* The loop takes the next copy, in the map's arbitrary order, and asks
\* Horizon about it.
AskHorizon ==
  /\ phase = "idle"
  /\ \E rec \in pending :
       /\ session' = rec
       /\ pending' = pending \ {rec}
  /\ phase' = "asking"
  /\ UNCHANGED <<now, ledger, sessions, payment, restarts, requests, issued>>

\* The page holds matching payments: the newest is returned.
LookupFound ==
  /\ phase = "asking"
  /\ \E i \in Hits(ledger, session) :
       /\ IsNewestHit(ledger, session, i)
       /\ payment' = parse_payment(ledger, i)
  /\ phase' = "found"
  /\ UNCHANGED <<now, ledger, sessions, pending, session, restarts, requests,
                 issued>>

\* Mutant: the previous session's payment is carried into the next one.
ContinueKeepsPayment ==
  /\ phase' = "idle"
  /\ session' = None
  /\ UNCHANGED <<now, ledger, pending, payment, restarts, requests>>

\* The loop moves on to the next session of the snapshot.
Continue ==
  /\ phase' = "idle"
  /\ session' = None
  /\ payment' = None
  /\ UNCHANGED <<now, ledger, pending, restarts, requests>>

LookupEmpty ==
  /\ phase = "asking"
  /\ Hits(ledger, session) = {}
  /\ Continue
  /\ UNCHANGED <<sessions, issued>>

\* Mutant: a failed lookup returns from run_payment_watcher.
LookupFailedReturns ==
  /\ phase = "asking"
  /\ phase' = "returned"
  /\ UNCHANGED <<now, ledger, sessions, pending, session, payment, restarts,
                 requests, issued>>

\* The request, its HTTP status or the decoding of its body failed.
LookupFailed ==
  /\ phase = "asking"
  /\ Continue
  /\ UNCHANGED <<sessions, issued>>

\* Mutant: the pass is not stored.
MarkedPaidWithoutPass(m, pass) ==
  IF m \in DOMAIN sessions
  THEN [sessions EXCEPT ![m].paid = TRUE, ![m].tx_hash = pass.payment.tx_hash]
  ELSE sessions

\* The store after mark_paid of session m, which refuses an unknown session.
MarkedPaid(m, pass) ==
  IF m \in DOMAIN sessions
  THEN [sessions EXCEPT ![m].paid = TRUE,
                        ![m].tx_hash = pass.payment.tx_hash,
                        ![m].access_token = pass]
  ELSE sessions

\* issue_token and mark_paid.  Nothing the two share with other tasks is read
\* in between, so they are one step.
IssueAndMarkPaid ==
  /\ phase = "found"
  /\ PassFits(session)
  /\ LET pass == PassFor(session, payment)
     IN /\ sessions' = MarkedPaid(session.session_id, pass)
        /\ issued' = Append(issued,
                            [session_id |-> session.session_id, pass |-> pass])
  /\ Continue

\* issue_token fails: the signed pass does not fit in a QR code.
IssueFails ==
  /\ phase = "found"
  /\ ~PassFits(session)
  /\ Continue
  /\ UNCHANGED <<sessions, issued>>

Watcher ==
  \/ PollTick
  \/ AskHorizon
  \/ LookupFound
  \/ LookupEmpty
  \/ LookupFailed
  \/ IssueAndMarkPaid
  \/ IssueFails

Next ==
  \/ \E m \in Memos, body \in Bodies : CreatePaymentRequest(m, body)
  \/ \E t \in Transfers, memo \in Memos \union {NoMemo} : Confirm(t, memo)
  \/ Tick
  \/ Restart
  \/ Watcher

Spec == Init /\ [][Next]_vars

(***************************************************************************)
(* The watcher is a spawned task whose loop never ends: it keeps taking    *)
(* steps.  That Horizon answers at all (the HTTP client has no timeout)    *)
(* and does not fail every time it is asked about the same session is an   *)
(* assumption on the network.  Nothing is assumed of buyers, payments, the *)
(* clock or restarts.                                                      *)
(***************************************************************************)
Fairness ==
  /\ WF_vars(Watcher)
  /\ \A m \in Memos :
       SF_vars(LookupFound /\ session # None /\ session.session_id = m)

FairSpec == Spec /\ Fairness

-----------------------------------------------------------------------------
(* Properties.                                                             *)

\* Every variable has its type, and the watcher holds a session exactly while
\* it works on one, a payment exactly while it is about to settle with it.
TypeOK ==
  /\ now \in Nat
  /\ ledger \in Seq(PaymentRecord)
  /\ DOMAIN sessions \subseteq Memos
  /\ sessions \in [DOMAIN sessions -> SessionRecord]
  /\ \A rec \in pending : rec \in SessionRecord
  /\ phase \in {"idle", "asking", "found"}
  /\ IF phase = "idle" THEN session = None ELSE session \in SessionRecord
  /\ IF phase = "found" THEN payment \in PaymentEvent ELSE payment = None
  /\ restarts \in Nat
  /\ DOMAIN requests \subseteq Memos
  /\ requests \in [DOMAIN requests -> Bodies]
  /\ issued \in Seq([session_id : Memos, pass : Pass])

\* The session copies the watcher still holds.
InFlight == pending \union (IF session = None THEN {} ELSE {session})

\* The watcher works on copies taken before it awaited Horizon, and handlers
\* write the store meanwhile; still a copy it holds is what the store holds,
\* unpaid, and it holds no session twice.
SnapshotIsCurrent ==
  /\ \A rec \in InFlight :
       /\ rec.session_id \in DOMAIN sessions
       /\ sessions[rec.session_id] = rec
       /\ ~rec.paid
  /\ session \notin pending

\* Every pass ever signed, also by an earlier process, names a payment that
\* is on the ledger, succeeded, reached the destination with the memo of the
\* session, and carries the amount, asset and event its buyer asked for.
PassBackedByPayment ==
  \A n \in DOMAIN issued :
    LET m     == issued[n].session_id
        pass  == issued[n].pass
        event == pass.payment
    IN /\ m \in DOMAIN requests
       /\ event.tx_hash \in DOMAIN ledger
       /\ event = parse_payment(ledger, event.tx_hash)
       /\ ledger[event.tx_hash].successful
       /\ ledger[event.tx_hash].type = "payment"
       /\ event.destination_account = Destination
       /\ event.memo = m
       /\ event.amount = requests[m].amount
       /\ Upper[event.asset] = Upper[requests[m].asset]
       /\ pass.event_id = requests[m].event_id

\* No session is ever given two passes and no payment buys two: not by the
\* next poll, not by a second payment to the same memo, not after a restart
\* has emptied the store.
OnePass ==
  \A n, k \in DOMAIN issued : n # k =>
    /\ issued[n].session_id # issued[k].session_id
    /\ issued[n].pass.payment.tx_hash # issued[k].pass.payment.tx_hash

\* The payments that have reached the destination.
Received ==
  {i \in DOMAIN ledger : /\ ledger[i].successful /\ ledger[i].type = "payment"
                         /\ ledger[i].to = Destination}

\* The books balance: there are never more passes than payments received, counted
\* over all polls, sessions and restarts.
PassesAreCovered == Len(issued) <= Cardinality(Received)

\* A session the store knows is either untouched or shows the very pass that
\* was signed for it and the transaction that pass names; a signed pass whose
\* session is known is shown.  So no buyer is ever told "detected".
StoreShowsIssuedPass ==
  \A m \in DOMAIN sessions :
    /\ \/ /\ Status(m) \in {"waiting", "expired"}
          /\ \A n \in DOMAIN issued : issued[n].session_id # m
       \/ /\ Status(m) = "confirmed"
          /\ sessions[m].paid
          /\ sessions[m].tx_hash = sessions[m].access_token.payment.tx_hash
          /\ \E n \in DOMAIN issued :
               issued[n] = [session_id |-> m, pass |-> sessions[m].access_token]

\* While the process lives, a settled session never changes again: the pass a
\* buyer saved stays the one the server shows.
PassIsFinal ==
  [][\A m \in DOMAIN sessions :
       sessions[m].access_token # None /\ restarts' = restarts
         => m \in DOMAIN sessions' /\ sessions'[m] = sessions[m]]_vars

\* Once a session has expired and the watcher has let go of its copy, it can
\* no longer settle, nor is it ever asked about again.
ExpiredOutOfFlightIsFinal ==
  [][\A m \in DOMAIN sessions :
       Status(m) = "expired" /\ (\A rec \in InFlight : rec.session_id # m)
         => /\ Status(m)' \in {"expired", "not_found"}
            /\ \A rec \in InFlight' : rec.session_id # m]_vars

\* Whatever fails and whatever the handlers do meanwhile, a step of the watcher
\* starts a round over exactly the sessions a buyer is told are waiting, or brings
\* the round one step nearer to its end, letting go of no session but the one it
\* has asked Horizon about.
RoundsProgress ==
  [][Watcher =>
       \/ /\ InFlight = {} /\ phase' = "idle"
          /\ \A m \in DOMAIN sessions :
               Status(m) = "waiting" <=> sessions[m] \in InFlight'
       \/ /\ InFlight' = InFlight
          /\ <<phase, phase'>> \in {<<"idle", "asking">>, <<"asking", "found">>}
       \/ /\ InFlight' = InFlight \ {session}
          /\ session \in InFlight /\ phase # "idle" /\ phase' = "idle"]_vars

\* A waiting session whose payment Horizon lists is settled, unless it expires
\* first, the process restarts, or newer records push the payment off the
\* page; other sessions, failing or empty lookups do not hold it up forever.
PaidSessionSettles ==
  \A m \in Memos :
    (Status(m) = "waiting" /\ Hits(ledger, sessions[m]) # {} /\ PassFits(sessions[m]))
      ~> (Status(m) # "waiting" \/ Hits(ledger, sessions[m]) = {})

\* What the watcher is about to settle with is a payment for its session.
FoundPaysSession ==
  phase = "found" =>
    /\ payment.tx_hash \in DOMAIN ledger
    /\ payment = parse_payment(ledger, payment.tx_hash)
    /\ Matches(ledger[payment.tx_hash], session.session_id, session.amount,
               session.asset)

\* A session keeps the id and the wishes it was created with.
SessionsAsRequested ==
  \A m \in DOMAIN sessions :
    /\ m \in DOMAIN requests
    /\ sessions[m].session_id = m
    /\ sessions[m].amount = requests[m].amount
    /\ sessions[m].asset = requests[m].asset
    /\ sessions[m].event_id = requests[m].event_id

Untouched(m) ==
  /\ ~sessions[m].paid /\ sessions[m].tx_hash = None
  /\ sessions[m].access_token = None
  /\ \A n \in DOMAIN issued : issued[n].session_id # m

Settled(m) ==
  /\ sessions[m].paid /\ sessions[m].access_token # None
  /\ sessions[m].tx_hash = sessions[m].access_token.payment.tx_hash
  /\ \E n \in DOMAIN issued :
       issued[n] = [session_id |-> m, pass |-> sessions[m].access_token]

SettledOrUntouched == \A m \in DOMAIN sessions : Settled(m) \/ Untouched(m)

OnePassPerSession ==
  \A n, k \in DOMAIN issued :
    n # k => issued[n].session_id # issued[k].session_id

\* The inductive invariant of the server.  What is found now must match what
\* is signed later: FoundPaysSession carries the lookup's answer across the
\* step, SnapshotIsCurrent says the copy it is applied to is still the store's
\* and unpaid, SettledOrUntouched that an unpaid session was never served.
IndInv ==
  /\ TypeOK
  /\ SnapshotIsCurrent
  /\ FoundPaysSession
  /\ SessionsAsRequested
  /\ SettledOrUntouched
  /\ PassBackedByPayment
  /\ OnePassPerSession

\* The passes signed so far, as PassPromise sees them.
Granted == {[memo |-> issued[n].session_id,
             event_id |-> issued[n].pass.event_id,
             tx |-> issued[n].pass.payment.tx_hash] : n \in DOMAIN issued}

Promise == INSTANCE PassPromise WITH wanted <- requests, granted <- Granted

\* The server keeps the promise of PassPromise: polling, paging, expiry and
\* restarts only delay or withhold a pass, they never grant one too many.
KeepsPromise == Promise!Spec

\* What the status endpoint answers, over time.
Answered == [m \in Memos |-> IF m \in DOMAIN requests THEN Status(m) ELSE "never"]

Life == INSTANCE SessionLife WITH life <- Answered

\* A buyer polling a session sees the life SessionLife describes: the status
\* never goes back from "confirmed" to anything but "not_found", an "expired"
\* session never waits again, and the half-settled "detected" never shows.
KeepsLife == Life!LifeSpec
=============================================================================
