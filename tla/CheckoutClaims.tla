--------------------------- MODULE CheckoutClaims ---------------------------
(***************************************************************************)
(* What the documents and the screens of the repository say of the         *)
(* checkout server and the code does not keep.                             *)
(***************************************************************************)
EXTENDS Checkout

CONSTANT Listed  \* amount as requested |-> the same amount as Horizon lists it

\* haske-ui AccessPass.jsx:56 tells the buyer of a confirmed session "Ready for
\* Entry": a pass has not expired when it is signed.  Its life is counted from the creation of the session, which may wait longer for its
\* payment than a pass lives.
PassIsLiveWhenSigned ==
  [][\A n \in DOMAIN issued' \ DOMAIN issued :
       issued'[n].pass.expires_at > now]_vars

\* The record Horizon lists when a wallet pays what its QR payload asks: an
\* amount and a memo to the destination, in the native asset as none is named.
IsQrPayment(record, rec) ==
  /\ record.successful /\ record.type = "payment"
  /\ record.to = Destination
  /\ record.memo = rec.session_id
  /\ record.amount = Listed[rec.amount]
  /\ record.asset = "native"

\* github_issues_backlog.md:209: "payment matching is not broken by string
\* formatting differences like `10` vs `10.0000000`".  What the wallet QR asks
\* for matches its session; yet amounts are compared as strings, and the
\* default request asks for "10".
QrPaymentMatches ==
  \A m \in DOMAIN sessions : \A i \in DOMAIN ledger :
    IsQrPayment(ledger[i], sessions[m])
      => Matches(ledger[i], m, sessions[m].amount, sessions[m].asset)
=============================================================================
