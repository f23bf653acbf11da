-------------------------- MODULE StaticShopProofs --------------------------
(***************************************************************************)
(* The static page in front of the server and the door, for every value of *)
(* the constants: what Shop is for the React checkout, without a module of *)
(* steps of its own.  They are composed by conjunction.  A behaviour of    *)
(* the whole obeys GateSpec, and the page's Spec where the life of the     *)
(* sessions is what the server answers; other buyers, other pages and      *)
(* everything else is the server's to do while the page stands still.      *)
(* That the page's Spec holds the server back in nothing is LifeKept.      *)
(***************************************************************************)
EXTENDS GateProofs

CONSTANTS MaxRetries, MaxCalls, MaxLoads

VARIABLES app, storage, calls, poll_timer, confirm_timer, lost_timers, counting, loads

\* The proved page.
Static == INSTANCE PageProofs WITH life <- Answered

ComposedSpec == GateSpec /\ Static!Spec

\* What CheckoutPage assumes of its constants.
PageAssumptions ==
  /\ MaxRetries \in Nat /\ MaxCalls \in Nat /\ MaxLoads \in Nat
  /\ None \notin Memos /\ None \notin Static!AccessData /\ None \notin Static!StoreType

-----------------------------------------------------------------------------
(* What the page was answered.                                             *)

\* A payment of what this session asked for is on the ledger, and the pass of this
\* very session was signed for it.
PaidAndSigned(m) ==
  \E n \in DOMAIN issued :
    LET pass == issued[n].pass
    IN  /\ issued[n].session_id = m
        /\ pass.event_id = requests[m].event_id
        /\ pass.payment.tx_hash \in Received
        /\ Matches(ledger[pass.payment.tx_hash], m, requests[m].amount, requests[m].asset)

\* A store that shows a pass, or is about to, shows one that was paid for.
ShowsPaid(a) ==
  a.state \in {"DETECTED", "CONFIRMED"} =>
    /\ a.data # None
    /\ PaidAndSigned(a.data.session)

\* From the ledger to the static page, on the screen and in localStorage: a confirmed
\* page shows a session whose own payment is on the ledger, whatever answer came late
\* or was taken for another session, and whatever was reloaded or restarted since.
PassOnPageIsPaid == ShowsPaid(app) /\ (storage # None => ShowsPaid(storage))

\* With a configured key the pass of the session a confirmed page shows opens the gate
\* until it expires on the device's clock.
PassOnPageOpens ==
  StableKey /\ app.state = "CONFIRMED" =>
    \E n \in DOMAIN issued :
      LET pass == issued[n].pass
      IN  /\ issued[n].session_id = app.data.session
          /\ pass.expires_at > device_now => Verifies(TokenOf(pass), device_key, device_now)

SignedFor(m) == \E n \in DOMAIN issued : issued[n].session_id = m

ToldOfSigned(a) ==
  a.data # None /\ a.data.status = "confirmed" => SignedFor(a.data.session)

\* "confirmed" is only ever answered, taken in and saved for a session with a pass.
AnswersSigned ==
  /\ \A i \in DOMAIN calls : calls[i].answer = "confirmed" => SignedFor(calls[i].session)
  /\ ToldOfSigned(app)
  /\ storage # None => ToldOfSigned(storage)

-----------------------------------------------------------------------------
(* Only what was signed is believed.                                       *)

LEMMA SignedStays ==
  ASSUME IndInv, [Next]_vars, NEW m, SignedFor(m)
  PROVE  SignedFor(m)'
<1>1. CASE issued' = issued
  BY <1>1 DEF SignedFor
<1>2. CASE IssueAndMarkPaid
  <2>1. \A n \in DOMAIN issued : n \in DOMAIN issued' /\ issued'[n] = issued[n]
    BY <1>2, IssueFacts
  <2> QED
    BY <2>1 DEF SignedFor
<1> QED
  BY <1>1, <1>2, IssuedUnchanged

\* The server says "confirmed" of a session whose pass it has signed.
LEMMA ConfirmedIsSigned ==
  ASSUME IndInv, NEW m \in Memos, Answered[m] = "confirmed"
  PROVE  SignedFor(m)
<1>1. Status(m) = "confirmed"
  BY DEF Answered
<1>2. m \in DOMAIN sessions /\ sessions[m].access_token # None
  BY <1>1 DEF Status, StatusOf
<1>3. Settled(m)
  BY <1>2 DEF IndInv, SettledOrUntouched, Untouched
<1> QED
  BY <1>3 DEF Settled, SignedFor

LEMMA AnswersInit == Static!Init => AnswersSigned
BY DEF Static!Init, Static!createInitialStore, AnswersSigned, ToldOfSigned

LEMMA AnswersNext ==
  ASSUME PageAssumptions, IndInv, Static!PageInv, AnswersSigned,
         [Next]_vars, [Static!Next]_(Static!allVars)
  PROVE  AnswersSigned'
<1>1. \A m : SignedFor(m) => SignedFor(m)'
  BY SignedStays
<1>2. ASSUME NEW j \in DOMAIN calls', calls'[j].answer = "confirmed"
      PROVE  SignedFor(calls[j].session)'
  <2>1. \/ \E k \in DOMAIN calls : calls'[j] = calls[k]
        \/ calls'[j].session \in Memos /\ Answered[calls'[j].session] = "confirmed"
    BY <1>2, Static!CallsTraced DEF PageAssumptions
  <2>2. SignedFor(calls'[j].session)
    BY <1>2, <2>1, ConfirmedIsSigned DEF AnswersSigned
  <2> QED
    BY <1>1, <2>2
<1>3. /\ storage' \in {storage, app, app'}
      /\ \/ app'.data \in {None, app.data}
         \/ storage # None /\ app'.data = storage.data
         \/ \E k \in DOMAIN calls :
              app'.data = [session |-> calls[k].session, status |-> calls[k].answer]
  BY Static!DataTraced DEF PageAssumptions
<1>4. app'.data # None /\ app'.data.status = "confirmed" => SignedFor(app'.data.session)
  <2> SUFFICES ASSUME app'.data # None, app'.data.status = "confirmed"
               PROVE  SignedFor(app'.data.session)
    OBVIOUS
  <2>1. CASE app'.data = app.data
    BY <2>1 DEF AnswersSigned, ToldOfSigned
  <2>2. CASE storage # None /\ app'.data = storage.data
    BY <2>2 DEF AnswersSigned, ToldOfSigned
  <2>3. ASSUME NEW k \in DOMAIN calls,
               app'.data = [session |-> calls[k].session, status |-> calls[k].answer]
        PROVE  SignedFor(app'.data.session)
    <3>1. app'.data.session = calls[k].session /\ app'.data.status = calls[k].answer
      BY <2>3
    <3> QED
      BY <3>1 DEF AnswersSigned
  <2> QED
    BY <1>3, <2>1, <2>2, <2>3
<1>5. ToldOfSigned(app)'
  BY <1>1, <1>4 DEF ToldOfSigned
<1>6. storage' # None => ToldOfSigned(storage)'
  <2>1. ASSUME storage' # None, storage'.data # None, storage'.data.status = "confirmed"
        PROVE  SignedFor(storage'.data.session)
    BY <1>3, <1>4, <2>1 DEF AnswersSigned, ToldOfSigned
  <2> QED
    BY <1>1, <2>1 DEF ToldOfSigned
<1> QED
  BY <1>2, <1>5, <1>6 DEF AnswersSigned

\* The inductive invariant of the whole: the gate's, the page's, and what has passed
\* between server and page.
LEMMA ComposedInvariant ==
  ASSUME PageAssumptions
  PROVE  ComposedSpec => [](GateInv /\ Static!PageInv /\ AnswersSigned)
<1>1. Static!Spec => []Static!PageInv
  BY Static!PageInvariant DEF PageAssumptions
<1>2. Static!Init => AnswersSigned
  BY AnswersInit
<1>3. GateInv /\ Static!PageInv /\ AnswersSigned /\ [GateNext]_allVars
        /\ [Static!Next]_(Static!allVars) => AnswersSigned'
  BY AnswersNext, GateStep DEF GateInv
<1> QED
  BY <1>1, <1>2, <1>3, GateInductive, PTL DEF ComposedSpec, GateSpec, Static!Spec

-----------------------------------------------------------------------------
(* From the ledger to the page, and from the page to the door.             *)

\* A signed pass is a paid one.
LEMMA SignedIsPaid ==
  ASSUME IndInv, NEW m, SignedFor(m)
  PROVE  PaidAndSigned(m)
<1>1. PICK n \in DOMAIN issued : issued[n].session_id = m
  BY DEF SignedFor
<1> DEFINE pass == issued[n].pass
           i == pass.payment.tx_hash
<1>2. /\ i \in DOMAIN ledger /\ pass.payment = parse_payment(ledger, i)
      /\ ledger[i].successful /\ ledger[i].type = "payment"
      /\ pass.payment.destination_account = Destination /\ pass.payment.memo = m
      /\ pass.payment.amount = requests[m].amount
      /\ Upper[pass.payment.asset] = Upper[requests[m].asset]
      /\ pass.event_id = requests[m].event_id
  BY <1>1 DEF IndInv, PassBackedByPayment
<1>3. /\ pass.payment.destination_account = ledger[i].to
      /\ pass.payment.memo = ledger[i].memo
      /\ pass.payment.amount = ledger[i].amount
      /\ pass.payment.asset = AssetName(ledger[i].asset)
  BY <1>2 DEF parse_payment
<1>4. Matches(ledger[i], m, requests[m].amount, requests[m].asset)
  BY <1>2, <1>3 DEF Matches
<1>5. i \in Received
  BY <1>1, ReceivedForPass
<1> QED
  BY <1>1, <1>2, <1>4, <1>5 DEF PaidAndSigned

\* web/checkout.html shows "confirmed", or is 850 ms from it, only for a session that
\* the buyer of that session has paid, and would do so after any reload.
THEOREM StaticPagePaid ==
  ASSUME PageAssumptions
  PROVE  ComposedSpec => []PassOnPageIsPaid
<1>1. IndInv /\ Static!PageInv /\ AnswersSigned => PassOnPageIsPaid
  BY SignedIsPaid DEF Static!PageInv, Static!PassShownIsConfirmed, Static!ShowsSigned,
     AnswersSigned, ToldOfSigned, PassOnPageIsPaid, ShowsPaid
<1>2. GateInv => IndInv
  BY DEF GateInv
<1> QED
  BY <1>1, <1>2, ComposedInvariant, PTL

\* From web/checkout.html to verifier_cli: the pass on the page opens the door, however
\* often the server was restarted and the device given its key again.
THEOREM StaticPageOpens ==
  ASSUME PageAssumptions
  PROVE  ComposedSpec => []PassOnPageOpens
<1>1. ASSUME GateInv, Static!PageInv, AnswersSigned, StableKey, app.state = "CONFIRMED"
      PROVE  PassOnPageOpens
  <2>1. app.data # None /\ app.data.status = "confirmed"
    BY <1>1 DEF Static!PageInv, Static!PassShownIsConfirmed, Static!ShowsSigned
  <2>2. PICK n \in DOMAIN issued : issued[n].session_id = app.data.session
    BY <1>1, <2>1 DEF AnswersSigned, ToldOfSigned, SignedFor
  <2>3. issued[n].pass.key = device_key
    BY <1>1 DEF GateInv, KeysAsConfigured
  <2>4. issued[n].pass.expires_at > device_now
          => Verifies(TokenOf(issued[n].pass), device_key, device_now)
    BY <2>3 DEF Verifies, verify_token_string, TokenOf
  <2> QED
    BY <2>2, <2>4 DEF PassOnPageOpens
<1>2. GateInv /\ Static!PageInv /\ AnswersSigned => PassOnPageOpens
  BY <1>1 DEF PassOnPageOpens
<1> QED
  BY <1>2, ComposedInvariant, PTL
=============================================================================
