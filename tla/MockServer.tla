----------------------------- MODULE MockServer -----------------------------
(***************************************************************************)
(* The mock backend (lightning_node bin/mock.rs): the routes of the        *)
(* Lightning server without a node.  An invoice counts as paid some        *)
(* seconds after it was made, and its token is drawn by the first GET, on  *)
(* either route, that notices.  Each handler does all of its work under    *)
(* the one write lock; create_invoice reads the clock on its way to it.    *)
(***************************************************************************)
EXTENDS Integers

CONSTANTS
  Ids,                \* invoice ids random_id can return
  Tokens,             \* access tokens random_id can return
  None,               \* Rust's None
  SETTLE_AFTER_SECS,
  MaxNow,             \* bound: last instant of the clock
  MaxRestarts         \* bound: process restarts

ASSUME SettleAssumption == SETTLE_AFTER_SECS \in Nat
ASSUME BoundAssumption == MaxNow \in Nat /\ MaxRestarts \in Nat
ASSUME NoneAssumption == None \notin Tokens

VARIABLES
  now,       \* seconds of the clock, which is not set back
  restarts,
  store,     \* AppState.store: invoice id |-> Session
  answered   \* history: invoice id |-> what this process last said of it

vars == <<now, restarts, store, answered>>

Session == [created_at : Nat, access_token : Tokens \union {None}]

StatusResponse(status, token) == [status |-> status, access_token |-> token]
NotFound == StatusResponse("not_found", None)

Init ==
  /\ now = 0
  /\ restarts = 0
  /\ store = << >>
  /\ answered = [id \in Ids |-> NotFound]

\* The answer gives the buyer an invoice to be paid.
create_invoice(id) ==
  /\ id \notin DOMAIN store
  /\ store' = [x \in DOMAIN store \union {id} |->
                 IF x = id THEN [created_at |-> now, access_token |-> None] ELSE store[x]]
  /\ answered' = [answered EXCEPT ![id] = StatusResponse("pending", None)]
  /\ UNCHANGED <<now, restarts>>

settled(session) == now - session.created_at >= SETTLE_AFTER_SECS

\* Mutant: every request draws a token.
DrawsAlways(session) == settled(session)

DrawsToken(session) == settled(session) /\ session.access_token = None

\* Mutant: the answer is made of the session as it was found.
check_invoice_stale(id) ==
  /\ id \in DOMAIN store
  /\ \E token \in Tokens :
       store' = IF DrawsToken(store[id])
                THEN [store EXCEPT ![id].access_token = token] ELSE store
  /\ answered' = [answered EXCEPT ![id] =
       StatusResponse(IF settled(store[id]) THEN "settled" ELSE "pending",
                      store[id].access_token)]
  /\ UNCHANGED <<now, restarts>>

\* check_invoice and get_access_token, the same code twice.
check_invoice(id) ==
  /\ id \in DOMAIN store
  /\ \E token \in Tokens :
       store' = IF DrawsToken(store[id])
                THEN [store EXCEPT ![id].access_token = token] ELSE store
  /\ answered' = [answered EXCEPT ![id] =
       StatusResponse(IF settled(store[id]) THEN "settled" ELSE "pending",
                      store'[id].access_token)]
  /\ UNCHANGED <<now, restarts>>

Tick ==
  /\ now < MaxNow
  /\ now' = now + 1
  /\ UNCHANGED <<restarts, store, answered>>

Restart ==
  /\ restarts < MaxRestarts
  /\ restarts' = restarts + 1
  /\ store' = << >>
  /\ answered' = [id \in Ids |-> NotFound]
  /\ UNCHANGED now

Next ==
  \/ \E id \in Ids : create_invoice(id) \/ check_invoice(id)
  \/ Tick \/ Restart

Spec == Init /\ [][Next]_vars

-----------------------------------------------------------------------------
(* Properties.                                                             *)

TypeOK ==
  /\ now \in Nat /\ restarts \in Nat
  /\ DOMAIN store \subseteq Ids /\ store \in [DOMAIN store -> Session]
  /\ answered \in [Ids -> [status : {"not_found", "pending", "settled"},
                           access_token : Tokens \union {None}]]

\* What clients were last told, on either route, is what the store holds: the
\* token that was answered is the one kept, and none was kept before it was due.
AnswersKept ==
  \A id \in Ids :
    IF id \notin DOMAIN store THEN answered[id] = NotFound
    ELSE LET token == store[id].access_token
         IN  /\ answered[id] =
                  StatusResponse(IF token = None THEN "pending" ELSE "settled", token)
             /\ token # None => settled(store[id])

\* The inductive invariant: together they hold in every reachable state.
MockInv == TypeOK /\ AnswersKept

InvoiceLife == INSTANCE InvoiceLife WITH seen <- answered

\* The two routes tell one story, whichever draws the token: an invoice settles
\* once and for all, and its token never changes.
KeepsInvoiceLife == InvoiceLife!Spec
=============================================================================
