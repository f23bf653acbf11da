---------------------------- MODULE LightningPass ----------------------------
(***************************************************************************)
(* The legacy Lightning server (crates/lightning_node): invoices, the      *)
(* session store with its index by payment hash, and the Breez event       *)
(* listener that settles sessions.                                         *)
(*                                                                         *)
(* create_invoice writes the store and the index under two locks, one      *)
(* after the other, while each InvoicePaid event is handled by a task of   *)
(* its own that reads the index and then writes the store.  The node keeps *)
(* its invoices and payments across restarts of the server, the server     *)
(* keeps nothing.                                                          *)
(***************************************************************************)
EXTENDS AccessToken, FiniteSets

CONSTANTS
  Hashes,         \* payment hashes of the invoices the node makes
  Ids,            \* invoice ids random_id can return
  InvoiceExpiry,  \* invoice_expiry_secs
  None,           \* Rust's None
  MaxNow,         \* bound: last instant of the clock
  MaxNotices,     \* bound: InvoicePaid events for one payment
  MaxRestarts     \* bound: process restarts

ASSUME ExpiryAssumption == InvoiceExpiry \in Nat
ASSUME BoundAssumption ==
         MaxNow \in Nat /\ MaxNotices \in Nat /\ MaxRestarts \in Nat

VARIABLES
  now,            \* seconds of the clock
  restarts,       \* how often the process was restarted: names its keypair
  startup,        \* what main awaits before it serves: "connect", "address" and
                  \* "faucet" if it asks for funds, then it is "over", or has "exited"
  handler_set,    \* BreezEventForwarder.handler is Some
  serving,        \* axum serves requests
  sessions,       \* AccessStore.sessions: invoice id |-> AccessSession
  payment_index,  \* AccessStore.payment_index: payment hash |-> invoice id
  creating,       \* create_invoice calls under way: [hash, id], id None before the store is written
  tasks,          \* handle_payment tasks: [hash, notice, id], id None before the index is read
  invoices,       \* the node: payment hash |-> instant its invoice expires
  disclosed,      \* hash |-> the process that told a buyer its invoice
  paid,           \* the node: hashes of settled payments
  notices         \* hash |-> InvoicePaid events sent for it

serverVars == <<restarts, startup, handler_set, serving>>
storeVars  == <<sessions, payment_index>>
nodeVars   == <<invoices, paid>>
vars == <<now, serverVars, storeVars, creating, tasks, nodeVars, disclosed, notices>>

keypair == restarts

CompactToken ==
  [format : {"compact"}, payment_hash : Hashes, expires_at : Nat, key : Nat]

AccessSession ==
  [payment_hash : Hashes, expires_at : Nat, settled : BOOLEAN,
   access_token : CompactToken \union {None}]

ASSUME NoneAssumption == None \notin CompactToken /\ None \notin Ids

\* HashMap::insert
Put(f, k, v) == [x \in DOMAIN f \union {k} |-> IF x = k THEN v ELSE f[x]]

Init ==
  /\ now = 0
  /\ restarts = 0
  /\ startup = "connect"
  /\ handler_set = FALSE
  /\ serving = FALSE
  /\ sessions = << >>
  /\ payment_index = << >>
  /\ creating = {}
  /\ tasks = {}
  /\ invoices = << >>
  /\ disclosed = << >>
  /\ paid = {}
  /\ notices = [h \in Hashes |-> 0]

-----------------------------------------------------------------------------
(* Startup, restart, clock.  The client of the faucet has no timeout.       *)

\* One step of main on its way to the server.
Startup(from, to) ==
  /\ startup = from
  /\ startup' \in to
  /\ UNCHANGED <<now, restarts, handler_set, serving, storeVars, creating, tasks,
                 nodeVars, disclosed, notices>>

\* init_breez_services connects the listener, and its errors end main.  Funds
\* are asked for if the environment says so.
Connect == Startup("connect", {"address", "over", "exited"})

\* The node makes an on-chain address; without one request_funds has failed.
NewOnchainAddress == Startup("address", {"faucet", "over"})

\* Mutant: funds are asked for again until they are granted.
FaucetAskedAgain == Startup("faucet", {"address", "over"})

\* Whatever the faucet answers is printed.
FaucetAnswers == Startup("faucet", {"over"})

\* The port is taken.
BindFails == ~handler_set /\ Startup("over", {"exited"})

\* event_forwarder.set_handler; the listener itself is connected before.
SetHandler ==
  /\ startup = "over" /\ ~handler_set
  /\ handler_set' = TRUE
  /\ UNCHANGED <<now, restarts, startup, serving, storeVars, creating, tasks, nodeVars,
                 disclosed, notices>>

\* Mutant: the server is awaited before the handler is set.
ServeAtOnce ==
  /\ ~serving
  /\ serving' = TRUE
  /\ UNCHANGED <<now, restarts, startup, handler_set, storeVars, creating, tasks, nodeVars,
                 disclosed, notices>>

\* server.await, the last statement of main
Serve ==
  /\ handler_set /\ ~serving
  /\ serving' = TRUE
  /\ UNCHANGED <<now, restarts, startup, handler_set, storeVars, creating, tasks, nodeVars,
                 disclosed, notices>>

Restart ==
  /\ restarts < MaxRestarts
  /\ restarts' = restarts + 1
  /\ startup' = "connect"
  /\ handler_set' = FALSE
  /\ serving' = FALSE
  /\ sessions' = << >>
  /\ payment_index' = << >>
  /\ creating' = {}
  /\ tasks' = {}
  /\ UNCHANGED <<now, nodeVars, disclosed, notices>>

Tick ==
  /\ now < MaxNow
  /\ now' = now + 1
  /\ UNCHANGED <<serverVars, storeVars, creating, tasks, nodeVars, disclosed, notices>>

-----------------------------------------------------------------------------
(* create_invoice.                                                         *)

\* gateway.create_invoice: the node makes an invoice nobody has seen, to be paid
\* within the expiry it is given.
receive_payment(h) ==
  /\ h \notin DOMAIN invoices
  /\ invoices' = Put(invoices, h, now + InvoiceExpiry)

MakeInvoice(h) ==
  /\ serving
  /\ receive_payment(h)
  /\ creating' = creating \union {[hash |-> h, id |-> None]}
  /\ UNCHANGED <<now, serverVars, storeVars, tasks, paid, disclosed, notices>>

\* The invoice could not be rendered as a QR code: 500, it stays undisclosed.
InvoiceFails(call) ==
  /\ call \in creating /\ call.id = None
  /\ creating' = creating \ {call}
  /\ UNCHANGED <<now, serverVars, storeVars, tasks, nodeVars, disclosed, notices>>

\* Mutant: the life of the invoice is not added.
NewSessionExpired(h, at) ==
  [payment_hash |-> h, expires_at |-> at, settled |-> FALSE, access_token |-> None]

\* The session of an invoice, for a clock read at an instant.
NewSession(h, at) ==
  [payment_hash |-> h, expires_at |-> at + InvoiceExpiry, settled |-> FALSE,
   access_token |-> None]

\* The instants at which a call that writes the store now may have read the clock:
\* after the node had made the invoice, before the QR codes and the wait for the lock.
ClockRead(call) == (invoices[call.hash] - InvoiceExpiry) .. now

\* First write: sessions, under a random id never drawn before.
StoreSession(call, id) ==
  /\ call \in creating /\ call.id = None
  /\ id \notin DOMAIN sessions
  /\ \E at \in ClockRead(call) : sessions' = Put(sessions, id, NewSession(call.hash, at))
  /\ creating' = (creating \ {call}) \union {[call EXCEPT !.id = id]}
  /\ UNCHANGED <<now, serverVars, payment_index, tasks, nodeVars, disclosed, notices>>

\* Mutant: the index, a map from String to String, is written the wrong way round.
IndexSwapped(call) ==
  /\ call \in creating /\ call.id # None
  /\ payment_index' = Put(payment_index, call.id, call.hash)
  /\ disclosed' = Put(disclosed, call.hash, restarts)
  /\ creating' = creating \ {call}
  /\ UNCHANGED <<now, serverVars, sessions, tasks, nodeVars, notices>>

\* Mutant: the answer is sent before the index is written.
DiscloseUnindexed(call) ==
  /\ call \in creating /\ call.id # None
  /\ disclosed' = Put(disclosed, call.hash, restarts)
  /\ creating' = creating \ {call}
  /\ UNCHANGED <<now, serverVars, storeVars, tasks, nodeVars, notices>>

\* Second write, payment_index, and the answer that discloses the invoice.
IndexAndDisclose(call) ==
  /\ call \in creating /\ call.id # None
  /\ payment_index' = Put(payment_index, call.hash, call.id)
  /\ disclosed' = Put(disclosed, call.hash, restarts)
  /\ creating' = creating \ {call}
  /\ UNCHANGED <<now, serverVars, sessions, tasks, nodeVars, notices>>

-----------------------------------------------------------------------------
(* Payments and their events.                                              *)

\* A buyer pays a disclosed invoice before it expires.
Pay(h) ==
  /\ h \in DOMAIN disclosed /\ h \notin paid
  /\ now <= invoices[h]
  /\ paid' = paid \union {h}
  /\ UNCHANGED <<now, serverVars, storeVars, creating, tasks, invoices, disclosed, notices>>

\* PaymentEventHandler.handle spawns a task.
handle(h) == tasks' = tasks \union {[hash |-> h, notice |-> notices[h], id |-> None]}

\* Mutant: events of every kind are taken for a payment, so the end of an unpaid
\* invoice is too.
OnAnyEvent(h) ==
  /\ h \in DOMAIN invoices /\ notices[h] < MaxNotices
  /\ notices' = [notices EXCEPT ![h] = @ + 1]
  /\ IF handler_set THEN handle(h) ELSE UNCHANGED tasks
  /\ UNCHANGED <<now, serverVars, storeVars, creating, nodeVars, disclosed>>

\* on_event(InvoicePaid): without a handler the event is dropped.  The node may
\* repeat the event.
OnEvent(h) ==
  /\ h \in paid /\ notices[h] < MaxNotices
  /\ notices' = [notices EXCEPT ![h] = @ + 1]
  /\ IF handler_set THEN handle(h) ELSE UNCHANGED tasks
  /\ UNCHANGED <<now, serverVars, storeVars, creating, nodeVars, disclosed>>

\* handle_payment reads the index: an unknown hash ends the task.
ReadIndex(task) ==
  /\ task \in tasks /\ task.id = None
  /\ tasks' = (tasks \ {task}) \union
       (IF task.hash \in DOMAIN payment_index
        THEN {[task EXCEPT !.id = payment_index[task.hash]]} ELSE {})
  /\ UNCHANGED <<now, serverVars, storeVars, creating, nodeVars, disclosed, notices>>

TokenFor(task) ==
  sign_compact_payload(task.hash, sessions[task.id].expires_at, keypair)

\* Mutant: a session whose expiry has passed is left alone as well.
SettleUnlessExpired(task) ==
  /\ task \in tasks /\ task.id # None
  /\ tasks' = tasks \ {task}
  /\ sessions' = IF task.id \in DOMAIN sessions /\ ~sessions[task.id].settled
                    /\ now <= sessions[task.id].expires_at
                 THEN [sessions EXCEPT ![task.id].settled = TRUE,
                                       ![task.id].access_token = TokenFor(task)]
                 ELSE sessions
  /\ UNCHANGED <<now, serverVars, payment_index, creating, nodeVars, disclosed, notices>>

\* The rest of handle_payment, under the write lock of sessions: an unknown or
\* settled session is left alone.
SettleSession(task) ==
  /\ task \in tasks /\ task.id # None
  /\ tasks' = tasks \ {task}
  /\ sessions' = IF task.id \in DOMAIN sessions /\ ~sessions[task.id].settled
                 THEN [sessions EXCEPT ![task.id].settled = TRUE,
                                       ![task.id].access_token = TokenFor(task)]
                 ELSE sessions
  /\ UNCHANGED <<now, serverVars, payment_index, creating, nodeVars, disclosed, notices>>

-----------------------------------------------------------------------------
(* What GET /api/invoice/:invoice_id answers.                              *)

\* Mutant: the status is read off the expiry, as that of a payment session is.
check_invoice_expiring(session) ==
  [status |-> IF session.settled /\ now <= session.expires_at THEN "settled" ELSE "pending",
   access_token |-> session.access_token]

check_invoice(session) ==
  [status |-> IF session.settled THEN "settled" ELSE "pending",
   access_token |-> session.access_token]

\* Both GET routes: an unknown invoice is NotFound, a 404.
GetInvoice(id) ==
  IF id \in DOMAIN sessions THEN check_invoice(sessions[id])
  ELSE [status |-> "not_found", access_token |-> None]

-----------------------------------------------------------------------------
Next ==
  \/ Connect \/ NewOnchainAddress \/ FaucetAnswers \/ BindFails \/ SetHandler \/ Serve
  \/ Restart \/ Tick
  \/ \E h \in Hashes : MakeInvoice(h) \/ Pay(h) \/ OnEvent(h)
  \/ \E call \in creating :
       \/ InvoiceFails(call)
       \/ \E id \in Ids : StoreSession(call, id)
       \/ IndexAndDisclose(call)
  \/ \E task \in tasks : ReadIndex(task) \/ SettleSession(task)

Spec == Init /\ [][Next]_vars

\* The node answers what main awaits of it and announces every payment at least
\* once, and the runtime runs main and the tasks it spawns.  The faucet may never
\* answer.
Fairness ==
  /\ WF_vars(Connect \/ NewOnchainAddress \/ SetHandler \/ Serve)
  /\ \A h \in Hashes :
       /\ WF_vars(OnEvent(h) /\ notices[h] = 0)
       /\ WF_vars(\E task \in tasks : task.hash = h /\ (ReadIndex(task) \/ SettleSession(task)))

FairSpec == Spec /\ Fairness

-----------------------------------------------------------------------------
(* Properties.                                                             *)

\* Types, and: the calls and tasks under way belong to this process's hashes.
TypeOK ==
  /\ now \in Nat /\ restarts \in Nat
  /\ startup \in {"connect", "address", "faucet", "over", "exited"}
  /\ handler_set \in BOOLEAN /\ serving \in BOOLEAN
  /\ DOMAIN sessions \subseteq Ids /\ sessions \in [DOMAIN sessions -> AccessSession]
  /\ DOMAIN payment_index \subseteq Hashes
  /\ payment_index \in [DOMAIN payment_index -> Ids]
  /\ \A call \in creating : call \in [hash : Hashes, id : Ids \union {None}]
  /\ \A task \in tasks : task \in [hash : Hashes, notice : Nat, id : Ids \union {None}]
  /\ DOMAIN invoices \subseteq Hashes /\ invoices \in [DOMAIN invoices -> Nat]
  /\ DOMAIN disclosed \subseteq DOMAIN invoices /\ disclosed \in [DOMAIN disclosed -> Nat]
  /\ paid \subseteq DOMAIN disclosed
  /\ notices \in [Hashes -> Nat]

\* The two writes of create_invoice are never seen half done by a payment: an
\* invoice a buyer of this process knows has a handler for its event, an index
\* entry, and a session of its own hash.
DisclosedIsReachable ==
  \A h \in DOMAIN disclosed :
    disclosed[h] = restarts =>
      /\ handler_set
      /\ h \in DOMAIN payment_index
      /\ payment_index[h] \in DOMAIN sessions
      /\ sessions[payment_index[h]].payment_hash = h

\* A session is settled, and shows a token, only when its own invoice was paid:
\* events of other invoices, repeated or of an earlier process, do not settle it.
SettledIsPaid ==
  \A id \in DOMAIN sessions :
    LET s == sessions[id]
    IN IF s.settled
       THEN /\ s.payment_hash \in paid
            /\ s.access_token = sign_compact_payload(s.payment_hash, s.expires_at, keypair)
       ELSE s.access_token = None

\* As long as an invoice can still be paid, the pass bought with it opens the
\* gate, the last second included: the session's expiry is read off the clock
\* after the invoice's.
PassOpensWhilePayable ==
  \A id \in DOMAIN sessions :
    LET s == sessions[id]
    IN s.settled /\ now <= invoices[s.payment_hash]
         => Verifies(s.access_token, keypair, now)

\* Once a payment has been announced, one of its tasks is under way or its session
\* is settled, whatever the order of events, tasks and the two writes, and however
\* late: no task ends without effect before one has settled the session.
NoPaymentLost ==
  \A h \in paid :
    disclosed[h] = restarts /\ notices[h] > 0 =>
      \/ sessions[payment_index[h]].settled
      \/ \E task \in tasks : task.hash = h

\* A payment buys one pass: no two sessions are of the same invoice.
OneSessionPerInvoice ==
  \A i, j \in DOMAIN sessions :
    sessions[i].payment_hash = sessions[j].payment_hash => i = j

\* The books balance: never are more sessions settled than payments were received,
\* however often those are announced.
SettledAreCovered ==
  Cardinality({id \in DOMAIN sessions : sessions[id].settled}) <= Cardinality(paid)

-----------------------------------------------------------------------------
(* The inductive invariant.                                                *)

\* Requests are served, and invoices made, only once the handler is set, and
\* that only once the faucet is done with.
HandlerFirst ==
  /\ serving => handler_set
  /\ handler_set => startup = "over"
  /\ creating # {} => serving

\* What a call or a task holds between its two steps is still what the store
\* holds, and tasks are only spawned for payments, as events are only of payments.
CallsAgree ==
  \A call \in creating :
    /\ call.hash \in DOMAIN invoices
    /\ call.id # None => /\ call.id \in DOMAIN sessions
                         /\ sessions[call.id].payment_hash = call.hash

TasksAgree ==
  /\ \A task \in tasks :
       /\ task.hash \in paid
       /\ task.id # None => /\ task.id \in DOMAIN sessions
                            /\ sessions[task.id].payment_hash = task.hash
                            /\ task.hash \in DOMAIN payment_index
                            /\ task.id = payment_index[task.hash]
  /\ \A h \in Hashes : notices[h] > 0 => h \in paid

\* An invoice is in the hands of one call, which has not disclosed it yet and
\* stores the only session it will have.
CallsApart ==
  /\ \A call, other \in creating : call.hash = other.hash => call = other
  /\ \A call \in creating :
       /\ call.hash \notin DOMAIN disclosed
       /\ \A id \in DOMAIN sessions : sessions[id].payment_hash = call.hash => id = call.id
  /\ DOMAIN payment_index \subseteq DOMAIN disclosed

\* The index never runs ahead of the store.
IndexAgrees ==
  \A h \in DOMAIN payment_index :
    /\ payment_index[h] \in DOMAIN sessions
    /\ sessions[payment_index[h]].payment_hash = h

\* A session lives at least as long as its invoice.
SessionsOutlive ==
  \A id \in DOMAIN sessions :
    /\ sessions[id].payment_hash \in DOMAIN invoices
    /\ sessions[id].expires_at >= invoices[sessions[id].payment_hash]

\* Together with the properties they explain, the parts above hold in every
\* reachable state of the server.
ServerInv ==
  /\ TypeOK
  /\ HandlerFirst
  /\ CallsAgree
  /\ TasksAgree
  /\ CallsApart
  /\ IndexAgrees
  /\ SessionsOutlive
  /\ \A h \in DOMAIN disclosed : disclosed[h] <= restarts
  /\ OneSessionPerInvoice
  /\ DisclosedIsReachable
  /\ SettledIsPaid
  /\ NoPaymentLost

\* A paid invoice of this process settles its session, unless it restarts.
PaidInvoiceSettles ==
  \A h \in Hashes : \A r \in 0 .. MaxRestarts :
    (h \in paid /\ disclosed[h] = r /\ restarts = r /\ notices[h] = 0)
      ~> \/ restarts # r
         \/ h \in DOMAIN payment_index /\ sessions[payment_index[h]].settled

\* Whatever the faucet answers, a process that does not exit comes to serve; only
\* a faucet that never answers keeps it from that.
ServerStarts ==
  \A r \in 0 .. MaxRestarts :
    restarts = r ~> \/ serving \/ startup = "exited" \/ restarts # r
                    \/ [](startup = "faucet")

InvoiceLife == INSTANCE InvoiceLife WITH seen <- [id \in Ids |-> GetInvoice(id)]

\* A client polling an invoice sees it settle once and for all, with a token
\* that never changes however often the payment is announced: repeated events
\* and their tasks do not show, until a restart forgets every invoice.
KeepsInvoiceLife == InvoiceLife!Spec
=============================================================================
