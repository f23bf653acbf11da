-------------------------------- MODULE Shop --------------------------------
(***************************************************************************)
(* The whole shop: the checkout server and the door of Gate, and one buyer *)
(* with the React checkout of RecoveryPage.                                *)
(*                                                                         *)
(* RecoveryPage was written against SessionLife.  Here it runs against the *)
(* server itself: what it asks for is what the server's handlers answer,   *)
(* its createPayment is the server's CreatePaymentRequest in one step, and *)
(* a "confirmed" it is answered carries the pass, which the buyer has then *)
(* and may show at the door.  Everybody else in the shop does as in Gate.  *)
(***************************************************************************)
EXTENDS Gate

CONSTANT MaxLoads  \* bound: page loads

VARIABLES strict, alone, store, stored, post, asked, awaits, poll, loads

pageVars == <<strict, alone, store, stored, post, asked, awaits, poll, loads>>
shopVars == <<allVars, pageVars>>

UI == INSTANCE RecoveryPage WITH life <- Answered

ASSUME ShopAssumption ==
         /\ MaxLoads \in Nat
         /\ None \notin Memos /\ None \notin UI!Answers
         /\ Memos \intersect {"none", "sent", "failed", "nothing", "create"} = {}

-----------------------------------------------------------------------------
ShopInit == GateInit /\ UI!Init

\* Other buyers, the network, the watcher, the clock, restarts, and the door.
OthersStep == GateNext /\ UNCHANGED pageVars

\* What the page does without the server: loads, clicks, timers, callbacks, its
\* other tabs, and requests whose answer is lost.
PageStep ==
  /\ UNCHANGED allVars
  /\ \/ UI!initialize \/ UI!restartSession \/ UI!pollTimer \/ UI!OtherTab \/ UI!Continue
     \/ UI!createPayment
     \/ \E m \in Memos : UI!requestFails(m)

\* A POST that is answered: the handler has opened the session and rendered its QR.
PageCreates(m, body) ==
  /\ CreatePaymentRequest(m, body)
  /\ body.amount \notin TooLongForQr
  /\ UNCHANGED gateVars
  /\ UI!createPayment

\* Mutant: the status route says "confirmed" and leaves the pass out.
PageAsksWithoutPass(m) ==
  /\ UNCHANGED allVars
  /\ UI!getPaymentStatus(m)

\* A GET that is answered: with the pass, once there is one.
PageAsks(m) ==
  /\ \/ GetAccessToken(m)
     \/ Status(m) # "confirmed" /\ UNCHANGED allVars
  /\ UI!getPaymentStatus(m)

ShopNext ==
  \/ OthersStep
  \/ PageStep
  \/ \E m \in Memos : PageAsks(m) \/ \E body \in Bodies : PageCreates(m, body)

ShopSpec == ShopInit /\ [][ShopNext]_shopVars

-----------------------------------------------------------------------------
(* Properties.                                                             *)

\* This session was paid for, on the ledger, as its buyer had asked, and the pass
\* signed for it is in buyers' hands.
PaidAndSaved(m) ==
  \E n \in DOMAIN issued :
    LET pass   == issued[n].pass
        record == ledger[pass.payment.tx_hash]
    IN /\ issued[n].session_id = m
       /\ pass \in saved
       /\ pass.event_id = requests[m].event_id
       /\ pass.payment.tx_hash \in DOMAIN ledger
       /\ Matches(record, m, requests[m].amount, requests[m].asset)

\* From the ledger to the screen: when the page says "Payment Confirmed", a payment
\* for the very session on the screen is on the ledger and the buyer has its pass,
\* whatever was polled late, lost, reloaded or restarted in between.
PassOnScreenIsPaid ==
  store.status = "CONFIRMED" => PaidAndSaved(store.sessionId)

\* From the screen to the door: with a configured key the pass of the session on
\* the screen opens the gate until it expires on the device's clock.
PassOnScreenOpens ==
  StableKey /\ store.status = "CONFIRMED" =>
    \E pass \in saved :
      /\ \E n \in DOMAIN issued :
           issued[n] = [session_id |-> store.sessionId, pass |-> pass]
      /\ pass.expires_at > device_now => Verifies(TokenOf(pass), device_key, device_now)

HasPass(m) ==
  \E n \in DOMAIN issued : issued[n].session_id = m /\ issued[n].pass \in saved

\* The page believes what it was answered, and that was signed by then.
AnswersSigned ==
  /\ \A m \in Memos : asked[m] = "confirmed" => HasPass(m)
  /\ store.status = "CONFIRMED" => HasPass(store.sessionId)

\* The inductive invariant: both parts', and what passes between them.
ShopInv ==
  /\ GateInv
  /\ UI!RecoveryInv
  /\ AnswersSigned

\* The page meets in the shop nothing that it does not meet against SessionLife.
KeepsPage == UI!Spec
=============================================================================
