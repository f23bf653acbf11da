---------------------------- MODULE InvoiceLife ----------------------------
(***************************************************************************)
(* The life of a Lightning invoice as a client polling                     *)
(* GET /api/invoice/:invoice_id sees it.  Both backends implement it, the  *)
(* Lightning server and the mock that stands in for it.                    *)
(*                                                                         *)
(* "settled" comes with a token and never without one; neither ever turns  *)
(* back or changes until a restart forgets all invoices at once.           *)
(***************************************************************************)
CONSTANTS Ids, None

VARIABLE seen   \* invoice id |-> [status, access_token]

Answer(status, token) == [status |-> status, access_token |-> token]
Unknown == Answer("not_found", None)
Pending == Answer("pending", None)

Init == seen = [id \in Ids |-> Unknown]

Open(id) ==
  /\ seen[id] = Unknown
  /\ seen' = [seen EXCEPT ![id] = Pending]

\* With whatever token.
Settle(id) ==
  LET token == seen'[id].access_token
  IN  /\ seen[id] = Pending
      /\ token # None
      /\ seen' = [seen EXCEPT ![id] = Answer("settled", token)]

Forget == seen' = [id \in Ids |-> Unknown]

Next ==
  \/ \E id \in Ids : Open(id) \/ Settle(id)
  \/ Forget

Spec == Init /\ [][Next]_seen
=============================================================================
