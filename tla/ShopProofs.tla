----------------------------- MODULE ShopProofs -----------------------------
(***************************************************************************)
(* Theorems about Shop, for every value of its constants.  They rest on    *)
(* what is proved of its parts: the server and the door step in the shop   *)
(* as they do alone (GateProofs), and so does the page (RecoveryProofs),   *)
(* for which the server is one of the SessionLifes it was proved against.  *)
(***************************************************************************)
EXTENDS Shop, GateProofs

-----------------------------------------------------------------------------
(* The parts in the shop.                                                  *)

\* The server and the door step as they do without the page, or not at all.
LEMMA ShopGateStep == [ShopNext]_shopVars => [GateNext]_allVars
<1> SUFFICES ASSUME [ShopNext]_shopVars PROVE [GateNext]_allVars
  OBVIOUS
<1>1. CASE OthersStep \/ PageStep \/ UNCHANGED shopVars
  BY <1>1 DEF OthersStep, PageStep, shopVars
<1>2. CASE \E m \in Memos, body \in Bodies : PageCreates(m, body)
  BY <1>2 DEF PageCreates, GateNext, Next
<1>3. CASE \E m \in Memos : PageAsks(m)
  BY <1>3 DEF PageAsks, GateNext
<1> QED
  BY <1>1, <1>2, <1>3 DEF ShopNext

\* The page steps as it does against SessionLife: what the rest of the shop does is
\* for the page a step in the life of its sessions, or nothing.
LEMMA ShopPageStep ==
  ASSUME IndInv, [ShopNext]_shopVars
  PROVE  [UI!Next]_(UI!allVars)
<1>1. CASE OthersStep
  <2>1. [Life!LifeNext]_Answered
    BY <1>1, GateStep, LifeStep DEF OthersStep
  <2>2. UNCHANGED UI!uiVars
    BY <1>1 DEF OthersStep, pageVars, UI!uiVars
  <2>3. Life!LifeNext => UI!LifeNext
    BY DEF Life!LifeNext, Life!Open, Life!Settle, Life!Expire, Life!Forget,
       UI!LifeNext, UI!Open, UI!Settle, UI!Expire, UI!Forget
  <2> QED
    BY <2>1, <2>2, <2>3 DEF UI!Next, UI!allVars
<1>2. CASE PageStep
  BY <1>2 DEF PageStep, UI!Next, UI!RequestEnds
<1>3. CASE \E m \in Memos, body \in Bodies : PageCreates(m, body)
  BY <1>3 DEF PageCreates, UI!Next, UI!RequestEnds
<1>4. CASE \E m \in Memos : PageAsks(m)
  BY <1>4 DEF PageAsks, UI!Next, UI!RequestEnds
<1>5. CASE UNCHANGED shopVars
  <2>1. UNCHANGED <<sessions, requests, now>> /\ UNCHANGED UI!uiVars
    BY <1>5 DEF shopVars, allVars, vars, pageVars, UI!uiVars
  <2>2. UNCHANGED Answered
    BY <2>1 DEF Answered, Status, StatusOf
  <2> QED
    BY <2>1, <2>2 DEF UI!allVars
<1> QED
  BY <1>1, <1>2, <1>3, <1>4, <1>5 DEF ShopNext

-----------------------------------------------------------------------------
(* The proved page.  RecoveryProofs speaks of its own copy of RecoveryPage, *)
(* which is the shop's.                                                    *)

Proved == INSTANCE RecoveryProofs WITH life <- Answered

\* The assumptions RecoveryPage makes hold in the shop.
LEMMA PageAssumptions ==
  /\ MaxLoads \in Nat
  /\ None \notin Memos /\ None \notin Proved!Answers
  /\ Memos \intersect {"none", "sent", "failed", "nothing", "create"} = {}
BY ShopAssumption DEF Proved!Answers, UI!Answers

LEMMA SameInit == UI!Init => Proved!Init
BY DEF UI!Init, UI!LifeInit, UI!initialState, UI!NoRequests,
   Proved!Init, Proved!LifeInit, Proved!initialState, Proved!NoRequests

LEMMA SameInv ==
  /\ UI!RecoveryInv <=> Proved!RecoveryInv
  /\ UI!RecoveryInv' <=> Proved!RecoveryInv'
BY DEF UI!RecoveryInv, UI!TypeOK, UI!RequestsTrue, UI!SessionsKnown, UI!GoneStaysGone,
   UI!AwaitsAgree, UI!PassShownIsSigned, UI!StoredIsShown, UI!AlwaysAsking,
   UI!StrictBuildHangs, UI!Answers, UI!StoreType, UI!Statuses,
   Proved!RecoveryInv, Proved!TypeOK, Proved!RequestsTrue, Proved!SessionsKnown,
   Proved!GoneStaysGone, Proved!AwaitsAgree, Proved!PassShownIsSigned,
   Proved!StoredIsShown, Proved!AlwaysAsking, Proved!StrictBuildHangs, Proved!Answers,
   Proved!StoreType, Proved!Statuses

LEMMA SameNext == [UI!Next]_(UI!allVars) => [Proved!Next]_(Proved!allVars)
<1>1. UI!initialize => Proved!initialize
  BY DEF UI!initialize, UI!initialState, UI!fixed, UI!NoRequests, UI!MountedLive,
     UI!RunEffect, UI!CleanUp, UI!Unmounted,
     Proved!initialize, Proved!initialState, Proved!fixed, Proved!NoRequests,
     Proved!MountedLive, Proved!RunEffect, Proved!CleanUp, Proved!Unmounted
<1>2. /\ UI!restartSession => Proved!restartSession
      /\ UI!pollTimer => Proved!pollTimer
      /\ UI!OtherTab => Proved!OtherTab
      /\ UI!LifeNext => Proved!LifeNext
      /\ UI!uiVars = Proved!uiVars /\ (UI!uiVars)' = (Proved!uiVars)'
  BY DEF UI!restartSession, UI!pollTimer, UI!OtherTab, UI!LifeNext, UI!uiVars, UI!fixed,
     UI!initialState, UI!Render, UI!PollEffect, UI!requestNewSession,
     UI!requestPaymentStatus, UI!Open, UI!Settle, UI!Expire, UI!Forget,
     Proved!restartSession, Proved!pollTimer, Proved!OtherTab, Proved!LifeNext,
     Proved!uiVars, Proved!fixed, Proved!initialState, Proved!Render, Proved!PollEffect,
     Proved!requestNewSession, Proved!requestPaymentStatus, Proved!Open, Proved!Settle,
     Proved!Expire, Proved!Forget
<1>3. UI!RequestEnds => Proved!RequestEnds
  BY DEF UI!RequestEnds, UI!createPayment, UI!getPaymentStatus, UI!requestFails, UI!Open,
     UI!fixed,
     Proved!RequestEnds, Proved!createPayment, Proved!getPaymentStatus,
     Proved!requestFails, Proved!Open, Proved!fixed
<1>4. /\ UI!SessionOpened => Proved!SessionOpened
      /\ UI!SessionRefused => Proved!SessionRefused
      /\ UI!Dropped => Proved!Dropped
  BY DEF UI!SessionOpened, UI!SessionRefused, UI!Dropped, UI!PostDone, UI!StatusDone,
     UI!Polls, UI!Render, UI!PollEffect, UI!setSession, UI!setError, UI!fixed,
     Proved!SessionOpened, Proved!SessionRefused, Proved!Dropped, Proved!PostDone,
     Proved!StatusDone, Proved!Polls, Proved!Render, Proved!PollEffect,
     Proved!setSession, Proved!setError, Proved!fixed
<1>5. ASSUME NEW m \in Memos
      PROVE  /\ UI!Recovered(m) => Proved!Recovered(m)
             /\ UI!RecoverFails(m) => Proved!RecoverFails(m)
             /\ UI!Polled(m) => Proved!Polled(m)
             /\ UI!PollNotFound(m) => Proved!PollNotFound(m)
             /\ UI!PollFails(m) => Proved!PollFails(m)
  BY DEF UI!Recovered, UI!RecoverFails, UI!Polled, UI!PollNotFound, UI!PollFails,
     UI!StatusDone, UI!Polls, UI!Render, UI!PollEffect, UI!applyStatus, UI!mapStatus,
     UI!setError, UI!requestNewSession, UI!fixed,
     Proved!Recovered, Proved!RecoverFails, Proved!Polled, Proved!PollNotFound,
     Proved!PollFails, Proved!StatusDone, Proved!Polls, Proved!Render,
     Proved!PollEffect, Proved!applyStatus, Proved!mapStatus, Proved!setError,
     Proved!requestNewSession, Proved!fixed
<1>6. UI!Continue => Proved!Continue
  BY <1>4, <1>5 DEF UI!Continue, Proved!Continue
<1>7. UI!allVars = Proved!allVars /\ (UI!allVars)' = (Proved!allVars)'
  BY DEF UI!allVars, UI!uiVars, Proved!allVars, Proved!uiVars
<1> SUFFICES ASSUME [UI!Next]_(UI!allVars) PROVE [Proved!Next]_(Proved!allVars)
  OBVIOUS
<1>8. CASE UNCHANGED UI!allVars
  BY <1>7, <1>8
<1>9. CASE UI!Next
  BY <1>1, <1>2, <1>3, <1>6, <1>9 DEF UI!Next, Proved!Next
<1> QED
  BY <1>8, <1>9

\* So its inductive invariant is one here.
LEMMA PageInvInit == UI!Init => UI!RecoveryInv
BY SameInit, SameInv, PageAssumptions, Proved!InitInv

LEMMA PageInvNext ==
  ASSUME UI!RecoveryInv, [UI!Next]_(UI!allVars)
  PROVE  UI!RecoveryInv'
BY SameInv, SameNext, PageAssumptions, Proved!StepInv

-----------------------------------------------------------------------------
(* What passes between the parts.                                          *)

\* A pass that was signed and downloaded stays so.
LEMMA HasPassStays ==
  ASSUME IndInv, [GateNext]_allVars, NEW m, HasPass(m)
  PROVE  HasPass(m)'
<1>1. \A n \in DOMAIN issued : n \in DOMAIN issued' /\ issued'[n] = issued[n]
  BY GateStep, IssuedGrows
<1>2. saved \subseteq saved'
  BY DEF GateNext, allVars, gateVars, GetAccessToken, LoadPublicKey, Scan
<1> QED
  BY <1>1, <1>2 DEF HasPass

\* Only the status route can answer the page with a pass.
LEMMA AskedNext ==
  ASSUME UI!TypeOK, [ShopNext]_shopVars, NEW m \in Memos, asked'[m] = "confirmed"
  PROVE  asked[m] = "confirmed" \/ PageAsks(m)
<1> USE DEF UI!TypeOK
<1>1. CASE OthersStep \/ UNCHANGED shopVars
  BY <1>1 DEF OthersStep, shopVars, pageVars
<1>2. CASE PageStep
  <2>1. CASE UI!initialize
    BY <2>1 DEF UI!initialize, UI!NoRequests
  <2>2. CASE UI!pollTimer
    BY <2>2 DEF UI!pollTimer, UI!requestPaymentStatus
  <2>3. CASE UI!Continue
    BY <2>3 DEF UI!Continue, UI!SessionOpened, UI!SessionRefused, UI!Dropped, UI!StatusDone,
       UI!Recovered, UI!RecoverFails, UI!Polled, UI!PollNotFound, UI!PollFails
  <2>4. CASE \E k \in Memos : UI!requestFails(k)
    BY <2>4 DEF UI!requestFails
  <2>5. CASE UI!restartSession \/ UI!OtherTab \/ UI!createPayment
    BY <2>5 DEF UI!restartSession, UI!OtherTab, UI!createPayment
  <2> QED
    BY <1>2, <2>1, <2>2, <2>3, <2>4, <2>5 DEF PageStep
<1>3. CASE \E k \in Memos, body \in Bodies : PageCreates(k, body)
  BY <1>3 DEF PageCreates, UI!createPayment
<1>4. ASSUME NEW k \in Memos, PageAsks(k) PROVE asked[m] = "confirmed" \/ PageAsks(m)
  <2>1. asked' = [asked EXCEPT ![k] = Answered[k]]
    BY <1>4 DEF PageAsks, UI!getPaymentStatus
  <2> QED
    BY <1>4, <2>1
<1> QED
  BY <1>1, <1>2, <1>3, <1>4 DEF ShopNext

\* And only such an answer puts a pass on the screen.
LEMMA ShownNext ==
  ASSUME UI!TypeOK, [ShopNext]_shopVars, store'.status = "CONFIRMED"
  PROVE  store' = store \/ \E m \in Memos : asked[m] = "confirmed" /\ store'.sessionId = m
<1> USE DEF UI!TypeOK
<1>1. CASE UI!Continue
  <2>1. ~UI!SessionOpened
    BY DEF UI!SessionOpened, UI!Render, UI!setSession
  <2>2. ~UI!SessionRefused /\ \A m \in Memos : ~UI!PollNotFound(m)
    BY DEF UI!SessionRefused, UI!PollNotFound, UI!Render, UI!setError, UI!StoreType
  <2>3. CASE UI!Dropped
    BY <2>3 DEF UI!Dropped
  <2>4. ASSUME NEW m \in Memos, UI!RecoverFails(m) PROVE store' = store
    BY <2>4 DEF UI!RecoverFails, UI!Render, UI!setError, UI!StoreType
  <2>5. ASSUME NEW m \in Memos, UI!PollFails(m) PROVE store' = store
    BY <2>5 DEF UI!PollFails
  <2>6. ASSUME NEW m \in Memos, UI!Recovered(m) \/ UI!Polled(m)
        PROVE  asked[m] = "confirmed" /\ store'.sessionId = m
    <3>1. store' = UI!applyStatus(m, asked[m])
      BY <2>6 DEF UI!Recovered, UI!Polled, UI!Render
    <3> QED
      BY <3>1 DEF UI!applyStatus, UI!mapStatus
  <2> QED
    BY <1>1, <2>1, <2>2, <2>3, <2>4, <2>5, <2>6 DEF UI!Continue
<1>2. CASE UI!initialize \/ UI!restartSession
  BY <1>2 DEF UI!initialize, UI!restartSession, UI!Render, UI!initialState
<1>3. CASE UI!pollTimer \/ UI!OtherTab
  BY <1>3 DEF UI!pollTimer, UI!OtherTab
<1>4. CASE \/ UI!createPayment
           \/ \E m \in Memos : UI!requestFails(m) \/ UI!getPaymentStatus(m)
  BY <1>4 DEF UI!createPayment, UI!requestFails, UI!getPaymentStatus
<1>5. CASE OthersStep \/ UNCHANGED shopVars
  BY <1>5 DEF OthersStep, shopVars, pageVars
<1> QED
  BY <1>1, <1>2, <1>3, <1>4, <1>5 DEF ShopNext, PageStep, PageCreates, PageAsks

\* The route hands out the pass it says is there.
LEMMA AskingHasPass ==
  ASSUME IndInv, UI!TypeOK, NEW m \in Memos, PageAsks(m), asked'[m] = "confirmed"
  PROVE  HasPass(m)'
<1>1. Answered[m] = "confirmed"
  BY DEF PageAsks, UI!getPaymentStatus, UI!TypeOK
<1>2. Status(m) = "confirmed"
  BY <1>1 DEF Answered
<1>3. saved' = saved \union {sessions[m].access_token} /\ issued' = issued
  BY <1>2 DEF PageAsks, GetAccessToken, vars
<1>4. m \in DOMAIN sessions /\ sessions[m].access_token # None
  BY <1>2 DEF Status, StatusOf
<1>5. Settled(m)
  BY <1>4 DEF IndInv, SettledOrUntouched, Untouched
<1> QED
  BY <1>3, <1>5 DEF Settled, HasPass

LEMMA AnswersNext ==
  ASSUME ShopInv, [ShopNext]_shopVars
  PROVE  AnswersSigned'
<1> USE DEF ShopInv, GateInv
<1>1. UI!TypeOK
  BY DEF UI!RecoveryInv
<1>2. \A m : HasPass(m) => HasPass(m)'
  BY ShopGateStep, HasPassStays
<1>3. ASSUME NEW m \in Memos, asked'[m] = "confirmed" PROVE HasPass(m)'
  BY <1>1, <1>2, <1>3, AskedNext, AskingHasPass DEF AnswersSigned
<1>4. ASSUME store'.status = "CONFIRMED" PROVE HasPass(store.sessionId)' 
  BY <1>1, <1>2, <1>4, ShownNext DEF AnswersSigned
<1> QED
  BY <1>3, <1>4 DEF AnswersSigned

-----------------------------------------------------------------------------
(* The shop.                                                               *)

LEMMA ShopInvInit == ShopInit => ShopInv
<1> SUFFICES ASSUME ShopInit PROVE ShopInv
  OBVIOUS
<1>1. GateInv /\ UI!RecoveryInv
  BY GateInvInit, PageInvInit DEF ShopInit
<1>2. AnswersSigned
  BY DEF ShopInit, UI!Init, UI!NoRequests, UI!initialState, AnswersSigned
<1> QED
  BY <1>1, <1>2 DEF ShopInv

LEMMA ShopInvNext == ShopInv /\ [ShopNext]_shopVars => ShopInv'
<1> SUFFICES ASSUME ShopInv, [ShopNext]_shopVars PROVE ShopInv'
  OBVIOUS
<1>1. GateInv'
  BY ShopGateStep, GateInvNext DEF ShopInv
<1>2. UI!RecoveryInv'
  BY ShopPageStep, PageInvNext DEF ShopInv, GateInv
<1> QED
  BY <1>1, <1>2, AnswersNext DEF ShopInv

\* The inductive invariant of the server, the door and the React checkout together.
THEOREM ShopInductive == ShopSpec => []ShopInv
BY ShopInvInit, ShopInvNext, PTL DEF ShopSpec

\* The page in front of the server makes no step it would not make in front of the
\* SessionLife it was proved against: what holds of the page holds in the shop.
THEOREM ShopKeepsPage == ShopSpec => KeepsPage
<1>1. ShopInit => UI!Init
  BY DEF ShopInit
<1>2. ShopInv /\ [ShopNext]_shopVars => [UI!Next]_(UI!allVars)
  BY ShopPageStep DEF ShopInv, GateInv
<1> QED
  BY <1>1, <1>2, ShopInductive, PTL DEF ShopSpec, KeepsPage, UI!Spec

\* Nor do the server and the door mind the page: what holds of them holds in the shop.
THEOREM ShopKeepsGate == ShopSpec => GateSpec
<1>1. ShopInit => GateInit
  BY DEF ShopInit
<1> QED
  BY <1>1, ShopGateStep, PTL DEF ShopSpec, GateSpec

\* haske-ui shows "Payment Confirmed" only to a buyer whose own payment, of what the
\* session asked, is on the Stellar ledger, and who has the pass signed for it.
THEOREM ScreenPaid == ShopSpec => []PassOnScreenIsPaid
<1>1. ASSUME ShopInv, store.status = "CONFIRMED" PROVE PaidAndSaved(store.sessionId)
  <2> DEFINE m == store.sessionId
  <2>1. PICK n \in DOMAIN issued : issued[n].session_id = m /\ issued[n].pass \in saved
    BY <1>1 DEF ShopInv, AnswersSigned, HasPass
  <2> DEFINE pass == issued[n].pass
             i == pass.payment.tx_hash
  <2>2. /\ i \in DOMAIN ledger /\ pass.payment = parse_payment(ledger, i)
        /\ ledger[i].successful /\ ledger[i].type = "payment"
        /\ pass.payment.destination_account = Destination /\ pass.payment.memo = m
        /\ pass.payment.amount = requests[m].amount
        /\ Upper[pass.payment.asset] = Upper[requests[m].asset]
        /\ pass.event_id = requests[m].event_id
    BY <1>1, <2>1 DEF ShopInv, GateInv, IndInv, PassBackedByPayment
  <2>3. /\ pass.payment.destination_account = ledger[i].to
        /\ pass.payment.memo = ledger[i].memo
        /\ pass.payment.amount = ledger[i].amount
        /\ pass.payment.asset = AssetName(ledger[i].asset)
    BY <2>2 DEF parse_payment
  <2>4. Matches(ledger[i], m, requests[m].amount, requests[m].asset)
    BY <2>2, <2>3 DEF Matches
  <2> QED
    BY <2>1, <2>2, <2>4 DEF PaidAndSaved
<1> QED
  BY <1>1, ShopInductive, PTL DEF PassOnScreenIsPaid

\* With a configured key, the pass of the session on the screen opens the gate until
\* it expires, whatever restarts and reloads came between the payment and the door.
THEOREM ScreenOpens == ShopSpec => []PassOnScreenOpens
<1>1. ASSUME ShopInv, StableKey, store.status = "CONFIRMED"
      PROVE  \E pass \in saved :
               /\ \E n \in DOMAIN issued :
                    issued[n] = [session_id |-> store.sessionId, pass |-> pass]
               /\ pass.expires_at > device_now
                    => Verifies(TokenOf(pass), device_key, device_now)
  <2>1. PICK n \in DOMAIN issued :
          issued[n].session_id = store.sessionId /\ issued[n].pass \in saved
    BY <1>1 DEF ShopInv, AnswersSigned, HasPass
  <2>2. issued[n] = [session_id |-> issued[n].session_id, pass |-> issued[n].pass]
    <3> DEFINE Entry == [session_id : Memos, pass : Pass]
    <3>1. issued \in Seq(Entry)
      BY <1>1 DEF ShopInv, GateInv, IndInv, TypeOK, Entry
    <3>2. issued[n] \in Entry
      <4> HIDE DEF Entry
      <4> QED
        BY <3>1
    <3> QED
      BY <3>2
  <2>3. issued[n].pass.key = device_key
    BY <1>1 DEF ShopInv, GateInv, KeysAsConfigured
  <2> QED
    BY <2>1, <2>2, <2>3 DEF Verifies, verify_token_string, TokenOf
<1>2. ShopInv => PassOnScreenOpens
  BY <1>1 DEF PassOnScreenOpens
<1> QED
  BY <1>2, ShopInductive, PTL

\* Once the buyer sees the pass it stays on the screen, in front of the real server as
\* well: no restart of it, no late answer and no other tab takes the pass off.
THEOREM ScreenStays == ShopSpec => UI!ShownPassStays
<1>1. ShopInv /\ [ShopNext]_shopVars
        => [store.status = "CONFIRMED" /\ loads' = loads => store' = store]_(UI!allVars)
  BY ShopPageStep, SameInv, SameNext, PageAssumptions, Proved!ShownStep DEF ShopInv, GateInv
<1> QED
  BY <1>1, ShopInductive, PTL DEF ShopSpec, UI!ShownPassStays

=============================================================================
