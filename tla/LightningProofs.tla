--------------------------- MODULE LightningProofs ---------------------------
(* Proofs about LightningPass: what the runs show on two invoices holds for *)
(* any number of invoices, events and restarts.                             *)
EXTENDS LightningPass, FiniteSetTheorems, TLAPS

\* The empty function is a function into anything.
LEMMA EmptyFunction == \A S : << >> \in [DOMAIN << >> -> S] /\ DOMAIN << >> = {}
<1>1. DOMAIN << >> = {}
  OBVIOUS
<1>2. << >> = [x \in {} |-> x]
  OBVIOUS
<1> QED
  BY <1>1, <1>2

(* The invariant, step by step.  An action disturbs few of its parts: the   *)
(* ones whose variables it leaves alone are proved together.                *)

LEMMA InitInv == Init => ServerInv
<1> SUFFICES ASSUME Init PROVE ServerInv
  OBVIOUS
<1> USE ExpiryAssumption DEF Init
<1>1. TypeOK
  BY EmptyFunction DEF TypeOK
<1>2. HandlerFirst /\ CallsAgree /\ TasksAgree /\ IndexAgrees /\ SessionsOutlive
  BY DEF HandlerFirst, CallsAgree, TasksAgree, IndexAgrees, SessionsOutlive
<1>3. DisclosedIsReachable /\ SettledIsPaid
  BY DEF DisclosedIsReachable, SettledIsPaid
<1>4. CallsApart /\ OneSessionPerInvoice /\ NoPaymentLost
  BY EmptyFunction DEF CallsApart, OneSessionPerInvoice, NoPaymentLost
<1> QED
  BY <1>1, <1>2, <1>3, <1>4 DEF ServerInv

\* Startup: the faucet comes before the handler, and the handler before the first request.
LEMMA StartupInv ==
  ASSUME ServerInv,
         \/ Connect \/ NewOnchainAddress \/ FaucetAnswers \/ BindFails
         \/ SetHandler \/ Serve
  PROVE  ServerInv'
<1> USE DEF Connect, NewOnchainAddress, FaucetAnswers, BindFails, Startup, SetHandler, Serve,
            storeVars, nodeVars
<1>1. TypeOK'
  BY DEF ServerInv, TypeOK
<1>2. HandlerFirst' /\ CallsAgree' /\ TasksAgree' /\ IndexAgrees' /\ SessionsOutlive'
  BY DEF ServerInv, HandlerFirst, CallsAgree, TasksAgree, IndexAgrees, SessionsOutlive
<1>3. DisclosedIsReachable' /\ SettledIsPaid'
  BY DEF ServerInv, DisclosedIsReachable, SettledIsPaid, keypair
<1>4. CallsApart' /\ OneSessionPerInvoice' /\ NoPaymentLost'
  BY DEF ServerInv, CallsApart, OneSessionPerInvoice, NoPaymentLost
<1> QED
  BY <1>1, <1>2, <1>3, <1>4 DEF ServerInv

\* A restart forgets the store; what was disclosed before is no longer this
\* process's.
LEMMA RestartInv ==
  ASSUME ServerInv, Restart
  PROVE  ServerInv'
<1> USE DEF Restart, nodeVars
<1>1. TypeOK'
  <2>1. /\ DOMAIN sessions' = {} /\ sessions' \in [DOMAIN sessions' -> AccessSession]
        /\ DOMAIN payment_index' = {} /\ payment_index' \in [DOMAIN payment_index' -> Ids]
    <3> HIDE DEF AccessSession
    <3> QED
      BY EmptyFunction
  <2>2. restarts' \in Nat
    BY DEF ServerInv, TypeOK
  <2> QED
    BY <2>1, <2>2 DEF ServerInv, TypeOK
<1>2. \A h \in DOMAIN disclosed' : disclosed'[h] <= restarts /\ disclosed'[h] # restarts'
  BY DEF ServerInv, TypeOK
<1>3. HandlerFirst' /\ CallsAgree' /\ TasksAgree' /\ IndexAgrees' /\ SessionsOutlive'
  BY DEF ServerInv, HandlerFirst, CallsAgree, TasksAgree, IndexAgrees, SessionsOutlive
<1>4. DisclosedIsReachable' /\ SettledIsPaid'
  BY <1>2 DEF DisclosedIsReachable, SettledIsPaid
<1>5. \A h \in DOMAIN disclosed' : disclosed'[h] <= restarts'
  BY <1>2 DEF ServerInv, TypeOK
<1>6. CallsApart' /\ OneSessionPerInvoice'
  BY DEF CallsApart, OneSessionPerInvoice
<1>7. NoPaymentLost'
  BY <1>2 DEF ServerInv, TypeOK, NoPaymentLost
<1> QED
  BY <1>1, <1>3, <1>4, <1>5, <1>6, <1>7 DEF ServerInv

LEMMA TickInv ==
  ASSUME ServerInv, Tick
  PROVE  ServerInv'
<1> USE DEF Tick, serverVars, storeVars, nodeVars
<1>1. TypeOK'
  BY DEF ServerInv, TypeOK
<1>2. HandlerFirst' /\ CallsAgree' /\ TasksAgree' /\ IndexAgrees'
  BY DEF ServerInv, HandlerFirst, CallsAgree, TasksAgree, IndexAgrees
<1>3. SessionsOutlive'
  BY DEF ServerInv, SessionsOutlive
<1>4. DisclosedIsReachable' /\ SettledIsPaid'
  BY DEF ServerInv, DisclosedIsReachable, SettledIsPaid, keypair
<1>5. CallsApart' /\ OneSessionPerInvoice' /\ NoPaymentLost'
  BY DEF ServerInv, CallsApart, OneSessionPerInvoice, NoPaymentLost
<1> QED
  BY <1>1, <1>2, <1>3, <1>4, <1>5 DEF ServerInv

\* A new invoice belongs to no session yet.
LEMMA MakeInvoiceInv ==
  ASSUME ServerInv, NEW h \in Hashes, MakeInvoice(h)
  PROVE  ServerInv'
<1> USE DEF MakeInvoice, receive_payment, serverVars, storeVars
<1>1. /\ DOMAIN invoices' = DOMAIN invoices \union {h}
      /\ invoices'[h] = now + InvoiceExpiry
      /\ \A g \in DOMAIN invoices : g # h /\ invoices'[g] = invoices[g]
  BY DEF Put
<1>2. TypeOK'
  BY <1>1, ExpiryAssumption DEF ServerInv, TypeOK, Put
<1>3. HandlerFirst' /\ CallsAgree' /\ TasksAgree' /\ IndexAgrees'
  BY <1>1 DEF ServerInv, HandlerFirst, CallsAgree, TasksAgree, IndexAgrees
<1>4. SessionsOutlive'
  BY <1>1 DEF ServerInv, SessionsOutlive
<1>5. DisclosedIsReachable' /\ SettledIsPaid'
  BY DEF ServerInv, DisclosedIsReachable, SettledIsPaid, keypair
<1>6. CallsApart'
  <2>1. h \notin DOMAIN disclosed /\ \A id \in DOMAIN sessions : sessions[id].payment_hash # h
    BY DEF ServerInv, TypeOK, SessionsOutlive
  <2>2. \A call \in creating : call.hash # h
    BY DEF ServerInv, CallsAgree
  <2> QED
    BY <2>1, <2>2 DEF ServerInv, CallsApart
<1>7. OneSessionPerInvoice' /\ NoPaymentLost'
  BY DEF ServerInv, OneSessionPerInvoice, NoPaymentLost
<1> QED
  BY <1>2, <1>3, <1>4, <1>5, <1>6, <1>7 DEF ServerInv

LEMMA InvoiceFailsInv ==
  ASSUME ServerInv, NEW call \in creating, InvoiceFails(call)
  PROVE  ServerInv'
<1> USE DEF InvoiceFails, serverVars, storeVars, nodeVars
<1>1. TypeOK'
  BY DEF ServerInv, TypeOK
<1>2. HandlerFirst' /\ CallsAgree' /\ TasksAgree' /\ IndexAgrees' /\ SessionsOutlive'
  BY DEF ServerInv, HandlerFirst, CallsAgree, TasksAgree, IndexAgrees, SessionsOutlive
<1>3. DisclosedIsReachable' /\ SettledIsPaid'
  BY DEF ServerInv, DisclosedIsReachable, SettledIsPaid, keypair
<1>4. CallsApart' /\ OneSessionPerInvoice' /\ NoPaymentLost'
  BY DEF ServerInv, CallsApart, OneSessionPerInvoice, NoPaymentLost
<1> QED
  BY <1>1, <1>2, <1>3, <1>4 DEF ServerInv

\* The first write gives the invoice a session of its own, pending and at least
\* as long-lived; no other session changes.
LEMMA StoreSessionInv ==
  ASSUME ServerInv, NEW call \in creating, NEW id \in Ids, StoreSession(call, id)
  PROVE  ServerInv'
<1> USE DEF StoreSession, serverVars, nodeVars
<1>0. PICK at \in ClockRead(call) : sessions' = Put(sessions, id, NewSession(call.hash, at))
  OBVIOUS
<1> DEFINE new == NewSession(call.hash, at)
<1>1. /\ call.hash \in Hashes /\ call.id = None /\ call.hash \in DOMAIN invoices
      /\ None \notin Ids
  BY NoneAssumption DEF ServerInv, TypeOK, CallsAgree
<1>2. /\ new \in AccessSession /\ new.payment_hash = call.hash
      /\ new.expires_at >= invoices[call.hash] /\ new.settled = FALSE
      /\ new.access_token = None
  <2>1. invoices[call.hash] \in Nat /\ now \in Nat
    BY <1>1 DEF ServerInv, TypeOK
  <2>2. at \in Int /\ at >= invoices[call.hash] - InvoiceExpiry
    BY <2>1, ExpiryAssumption DEF ClockRead
  <2>3. at + InvoiceExpiry \in Nat /\ at + InvoiceExpiry >= invoices[call.hash]
    BY <2>1, <2>2, ExpiryAssumption
  <2> QED
    BY <1>1, <2>3 DEF NewSession, AccessSession
<1> HIDE DEF new
<1>3. /\ DOMAIN sessions' = DOMAIN sessions \union {id}
      /\ sessions'[id] = new
      /\ \A i \in DOMAIN sessions : i # id /\ sessions'[i] = sessions[i]
  BY <1>0 DEF Put, new
<1>4. /\ [call EXCEPT !.id = id] \in [hash : Hashes, id : Ids \union {None}]
      /\ [call EXCEPT !.id = id].hash = call.hash /\ [call EXCEPT !.id = id].id = id
  BY <1>1 DEF ServerInv, TypeOK
<1>5. TypeOK'
  <2>1. sessions' \in [DOMAIN sessions' -> AccessSession]
    <3>1. sessions' = [x \in DOMAIN sessions \union {id} |->
                          IF x = id THEN new ELSE sessions[x]]
      BY <1>0 DEF Put, new
    <3> HIDE DEF AccessSession
    <3> QED
      BY <1>2, <3>1 DEF ServerInv, TypeOK
  <2> QED
    BY <1>3, <1>4, <2>1 DEF ServerInv, TypeOK
<1>6. HandlerFirst' /\ CallsAgree'
  BY <1>1, <1>2, <1>3, <1>4 DEF ServerInv, HandlerFirst, CallsAgree
<1>7. TasksAgree' /\ IndexAgrees' /\ DisclosedIsReachable'
  BY <1>3 DEF ServerInv, TasksAgree, IndexAgrees, DisclosedIsReachable
<1>8. SessionsOutlive'
  BY <1>1, <1>2, <1>3 DEF ServerInv, SessionsOutlive
<1>9. SettledIsPaid'
  BY <1>2, <1>3 DEF ServerInv, SettledIsPaid, keypair
<1>10. \A i \in DOMAIN sessions : sessions[i].payment_hash # call.hash
  BY <1>1 DEF ServerInv, TypeOK, CallsApart
<1>11. CallsApart' /\ OneSessionPerInvoice'
  <2>1. \A other \in creating : other # call => other.hash # call.hash
    BY DEF ServerInv, CallsApart
  <2> QED
    BY <1>2, <1>3, <1>4, <1>10, <2>1 DEF ServerInv, CallsApart, OneSessionPerInvoice
<1>12. NoPaymentLost'
  BY <1>3 DEF ServerInv, TypeOK, DisclosedIsReachable, NoPaymentLost
<1> QED
  BY <1>5, <1>6, <1>7, <1>8, <1>9, <1>11, <1>12 DEF ServerInv

\* The second write completes the path from the invoice to its session before
\* the answer discloses the invoice.
LEMMA IndexAndDiscloseInv ==
  ASSUME ServerInv, NEW call \in creating, IndexAndDisclose(call)
  PROVE  ServerInv'
<1> USE DEF IndexAndDisclose, serverVars, nodeVars
<1> DEFINE h == call.hash
<1>1. /\ h \in Hashes /\ call.id \in Ids /\ h \in DOMAIN invoices
      /\ call.id \in DOMAIN sessions /\ sessions[call.id].payment_hash = h
      /\ handler_set
  BY DEF ServerInv, TypeOK, CallsAgree, HandlerFirst
<1>2. /\ DOMAIN payment_index' = DOMAIN payment_index \union {h}
      /\ payment_index'[h] = call.id
      /\ \A g \in DOMAIN payment_index : g # h => payment_index'[g] = payment_index[g]
  BY DEF Put
<1>3. /\ DOMAIN disclosed' = DOMAIN disclosed \union {h}
      /\ disclosed'[h] = restarts
      /\ \A g \in DOMAIN disclosed : g # h => disclosed'[g] = disclosed[g]
  BY DEF Put
<1>4. TypeOK'
  BY <1>1 DEF ServerInv, TypeOK, Put
<1>5. HandlerFirst' /\ CallsAgree' /\ SessionsOutlive'
  BY DEF ServerInv, HandlerFirst, CallsAgree, SessionsOutlive
<1>6. IndexAgrees'
  BY <1>1, <1>2 DEF ServerInv, IndexAgrees
<1>7. DisclosedIsReachable' /\ \A g \in DOMAIN disclosed' : disclosed'[g] <= restarts'
  <2>1. restarts \in Nat /\ restarts <= restarts
    BY DEF ServerInv, TypeOK
  <2> QED
    BY <1>1, <1>2, <1>3, <2>1 DEF ServerInv, DisclosedIsReachable
<1>8. SettledIsPaid'
  BY DEF ServerInv, SettledIsPaid, keypair
<1>9. CallsApart' /\ OneSessionPerInvoice'
  <2>1. \A other \in creating' : other \in creating /\ other.hash # h
    BY DEF ServerInv, CallsApart
  <2> QED
    BY <1>2, <1>3, <2>1 DEF ServerInv, CallsApart, OneSessionPerInvoice
<1>10. h \notin DOMAIN disclosed /\ h \notin DOMAIN payment_index
  BY DEF ServerInv, CallsApart
<1>11. TasksAgree'
  BY <1>2, <1>10 DEF ServerInv, TasksAgree
<1>12. NoPaymentLost'
  BY <1>2, <1>3, <1>10 DEF ServerInv, TypeOK, DisclosedIsReachable, NoPaymentLost
<1> QED
  BY <1>4, <1>5, <1>6, <1>7, <1>8, <1>9, <1>11, <1>12 DEF ServerInv

LEMMA PayInv ==
  ASSUME ServerInv, NEW h \in Hashes, Pay(h)
  PROVE  ServerInv'
<1> USE DEF Pay, serverVars, storeVars
<1>1. TypeOK'
  BY DEF ServerInv, TypeOK
<1>2. HandlerFirst' /\ CallsAgree' /\ TasksAgree' /\ IndexAgrees' /\ SessionsOutlive'
  BY DEF ServerInv, HandlerFirst, CallsAgree, TasksAgree, IndexAgrees, SessionsOutlive
<1>3. DisclosedIsReachable' /\ SettledIsPaid'
  BY DEF ServerInv, DisclosedIsReachable, SettledIsPaid, keypair
<1>4. CallsApart' /\ OneSessionPerInvoice'
  BY DEF ServerInv, CallsApart, OneSessionPerInvoice
<1>5. NoPaymentLost'
  BY DEF ServerInv, TasksAgree, NoPaymentLost
<1> QED
  BY <1>1, <1>2, <1>3, <1>4, <1>5 DEF ServerInv

\* Tasks are spawned for paid invoices only.
LEMMA OnEventInv ==
  ASSUME ServerInv, NEW h \in Hashes, OnEvent(h)
  PROVE  ServerInv'
<1> USE DEF OnEvent, handle, serverVars, storeVars, nodeVars
<1> DEFINE new == [hash |-> h, notice |-> notices[h], id |-> None]
<1>1. tasks' \subseteq tasks \union {new}
  OBVIOUS
<1>2. TypeOK'
  <2>1. notices[h] \in Nat /\ new \in [hash : Hashes, notice : Nat, id : Ids \union {None}]
    BY DEF ServerInv, TypeOK
  <2>2. notices' \in [Hashes -> Nat]
    BY <2>1 DEF ServerInv, TypeOK
  <2> QED
    BY <1>1, <2>1, <2>2 DEF ServerInv, TypeOK
<1>3. TasksAgree'
  BY <1>1 DEF ServerInv, TasksAgree
<1>4. HandlerFirst' /\ CallsAgree' /\ IndexAgrees' /\ SessionsOutlive'
  BY DEF ServerInv, HandlerFirst, CallsAgree, IndexAgrees, SessionsOutlive
<1>5. DisclosedIsReachable' /\ SettledIsPaid'
  BY DEF ServerInv, DisclosedIsReachable, SettledIsPaid, keypair
<1>6. CallsApart' /\ OneSessionPerInvoice'
  BY DEF ServerInv, CallsApart, OneSessionPerInvoice
<1>7. NoPaymentLost'
  <2>1. tasks \subseteq tasks' /\ \A g \in Hashes : g # h => notices'[g] = notices[g]
    BY DEF ServerInv, TypeOK
  <2>2. handler_set => new \in tasks' /\ new.hash = h
    OBVIOUS
  <2>3. h \in paid /\ paid \subseteq DOMAIN disclosed /\ paid \subseteq Hashes
    BY DEF ServerInv, TypeOK
  <2>4. disclosed[h] = restarts => handler_set
    BY <2>3 DEF ServerInv, DisclosedIsReachable
  <2> HIDE DEF new
  <2> QED
    BY <2>1, <2>2, <2>3, <2>4 DEF ServerInv, NoPaymentLost
<1> QED
  BY <1>2, <1>3, <1>4, <1>5, <1>6, <1>7 DEF ServerInv

\* The index gives a task the session of its own invoice.
LEMMA ReadIndexInv ==
  ASSUME ServerInv, NEW task \in tasks, ReadIndex(task)
  PROVE  ServerInv'
<1> USE DEF ReadIndex, serverVars, storeVars, nodeVars
<1>1. task \in [hash : Hashes, notice : Nat, id : Ids \union {None}]
  BY DEF ServerInv, TypeOK
<1>2. \A t \in tasks' :
        t \in tasks \/ /\ t = [task EXCEPT !.id = payment_index[task.hash]]
                       /\ task.hash \in DOMAIN payment_index
  OBVIOUS
<1>3. TypeOK'
  BY <1>1, <1>2 DEF ServerInv, TypeOK
<1>4. TasksAgree'
  BY <1>1, <1>2 DEF ServerInv, TasksAgree, IndexAgrees
<1>5. HandlerFirst' /\ CallsAgree' /\ IndexAgrees' /\ SessionsOutlive'
  BY DEF ServerInv, HandlerFirst, CallsAgree, IndexAgrees, SessionsOutlive
<1>6. DisclosedIsReachable' /\ SettledIsPaid'
  BY DEF ServerInv, DisclosedIsReachable, SettledIsPaid, keypair
<1>7. CallsApart' /\ OneSessionPerInvoice'
  BY DEF ServerInv, CallsApart, OneSessionPerInvoice
<1>8. NoPaymentLost'
  <2>1. \A t \in tasks : t # task => t \in tasks'
    OBVIOUS
  <2>2. task.hash \in DOMAIN payment_index => \E t \in tasks' : t.hash = task.hash
    <3> DEFINE next == [task EXCEPT !.id = payment_index[task.hash]]
    <3>1. next.hash = task.hash
      BY <1>1
    <3>2. task.hash \in DOMAIN payment_index => next \in tasks'
      OBVIOUS
    <3> QED
      BY <3>1, <3>2
  <2>3. paid \subseteq DOMAIN disclosed
    BY DEF ServerInv, TypeOK
  <2> QED
    BY <2>1, <2>2, <2>3 DEF ServerInv, DisclosedIsReachable, NoPaymentLost
<1> QED
  BY <1>3, <1>4, <1>5, <1>6, <1>7, <1>8 DEF ServerInv

\* The settled session is the paid invoice's, and takes its expiry with it.
LEMMA SettleSessionInv ==
  ASSUME ServerInv, NEW task \in tasks, SettleSession(task)
  PROVE  ServerInv'
<1> USE DEF SettleSession, serverVars, nodeVars
<1> DEFINE id == task.id
           s == sessions[id]
<1>1. /\ task.hash \in Hashes /\ task.hash \in paid
      /\ id \in DOMAIN sessions /\ s.payment_hash = task.hash
      /\ s \in AccessSession /\ restarts \in Nat
  BY DEF ServerInv, TypeOK, TasksAgree
<1>2. /\ TokenFor(task) \in CompactToken
      /\ TokenFor(task) = sign_compact_payload(s.payment_hash, s.expires_at, keypair)
  BY <1>1 DEF TokenFor, sign_compact_payload, CompactToken, AccessSession, keypair
<1>3. /\ DOMAIN sessions' = DOMAIN sessions
      /\ \A i \in DOMAIN sessions : i # id => sessions'[i] = sessions[i]
      /\ \/ sessions'[id] = s
         \/ sessions'[id] = [s EXCEPT !.settled = TRUE, !.access_token = TokenFor(task)]
  BY <1>1
<1>4. \A i \in DOMAIN sessions :
        /\ sessions'[i] \in AccessSession
        /\ sessions'[i].payment_hash = sessions[i].payment_hash
        /\ sessions'[i].expires_at = sessions[i].expires_at
  <2>1. \A i \in DOMAIN sessions : sessions[i] \in AccessSession
    BY DEF ServerInv, TypeOK
  <2> QED
    BY <1>1, <1>2, <1>3, <2>1 DEF AccessSession
<1>5. TypeOK'
  <2>1. sessions' \in [DOMAIN sessions' -> AccessSession]
    <3>1. sessions' = [i \in DOMAIN sessions |-> sessions'[i]]
      BY DEF ServerInv, TypeOK
    <3> QED
      BY <1>3, <1>4, <3>1
  <2> QED
    BY <1>3, <2>1 DEF ServerInv, TypeOK
<1>6. CallsAgree' /\ TasksAgree' /\ IndexAgrees'
  <2>1. CallsAgree'
    BY <1>3, <1>4 DEF ServerInv, CallsAgree
  <2>2. TasksAgree'
    BY <1>3, <1>4 DEF ServerInv, TasksAgree
  <2>3. IndexAgrees'
    BY <1>3, <1>4 DEF ServerInv, IndexAgrees
  <2> QED
    BY <2>1, <2>2, <2>3
<1>7. HandlerFirst'
  BY DEF ServerInv, HandlerFirst
<1>8. SessionsOutlive'
  BY <1>3, <1>4 DEF ServerInv, SessionsOutlive
<1>9. DisclosedIsReachable'
  BY <1>3, <1>4 DEF ServerInv, DisclosedIsReachable
<1>10. SettledIsPaid'
  <2>1. keypair' = keypair /\ paid' = paid
    BY DEF keypair
  <2>2. /\ sessions'[id].settled
        /\ sessions'[id].payment_hash \in paid
        /\ sessions'[id].access_token =
             sign_compact_payload(sessions'[id].payment_hash, sessions'[id].expires_at, keypair)
    <3>1. CASE s.settled
      BY <1>1, <3>1 DEF ServerInv, SettledIsPaid
    <3>2. CASE ~s.settled
      <4>1. sessions'[id] = [s EXCEPT !.settled = TRUE, !.access_token = TokenFor(task)]
        BY <1>1, <3>2
      <4>2. /\ sessions'[id].settled /\ sessions'[id].payment_hash = s.payment_hash
            /\ sessions'[id].expires_at = s.expires_at
            /\ sessions'[id].access_token = TokenFor(task)
        BY <1>1, <4>1 DEF AccessSession
      <4> QED
        BY <1>1, <1>2, <4>2
    <3> QED
      BY <3>1, <3>2
  <2>3. \A i \in DOMAIN sessions : i # id => sessions'[i] = sessions[i]
    BY <1>3
  <2> QED
    BY <1>3, <2>1, <2>2, <2>3 DEF ServerInv, SettledIsPaid
<1>11. CallsApart' /\ OneSessionPerInvoice'
  BY <1>3, <1>4 DEF ServerInv, CallsApart, OneSessionPerInvoice
<1>12. NoPaymentLost'
  <2>1. /\ sessions'[id].settled
        /\ \A i \in DOMAIN sessions : sessions[i].settled => sessions'[i].settled
    <3>1. sessions'[id].settled
      BY <1>1 DEF AccessSession
    <3> QED
      BY <1>3, <3>1
  <2>2. payment_index[task.hash] = id
    BY DEF ServerInv, TasksAgree
  <2>3. \A t \in tasks : t.hash # task.hash => t \in tasks'
    OBVIOUS
  <2>4. \A h \in paid : disclosed[h] = restarts => payment_index[h] \in DOMAIN sessions
    BY DEF ServerInv, TypeOK, DisclosedIsReachable
  <2> QED
    BY <2>1, <2>2, <2>3, <2>4 DEF ServerInv, NoPaymentLost
<1> QED
  BY <1>5, <1>6, <1>7, <1>8, <1>9, <1>10, <1>11, <1>12 DEF ServerInv

LEMMA StutterInv ==
  ASSUME ServerInv, UNCHANGED vars
  PROVE  ServerInv'
BY DEF ServerInv, TypeOK, HandlerFirst, CallsAgree, TasksAgree, IndexAgrees,
  SessionsOutlive, CallsApart, OneSessionPerInvoice, NoPaymentLost, DisclosedIsReachable, SettledIsPaid, keypair, vars, serverVars,
  storeVars, nodeVars

-----------------------------------------------------------------------------

\* The inductive invariant of the Lightning server, for every interleaving of
\* create_invoice, handle_payment, events and restarts.
THEOREM ServerInvariant == Spec => []ServerInv
<1>1. ServerInv /\ [Next]_vars => ServerInv'
  <2> SUFFICES ASSUME ServerInv, [Next]_vars PROVE ServerInv'
    OBVIOUS
  <2>1. CASE \/ Connect \/ NewOnchainAddress \/ FaucetAnswers \/ BindFails
              \/ SetHandler \/ Serve
    BY <2>1, StartupInv
  <2>2. CASE Restart
    BY <2>2, RestartInv
  <2>3. CASE Tick
    BY <2>3, TickInv
  <2>4. CASE \E h \in Hashes : MakeInvoice(h) \/ Pay(h) \/ OnEvent(h)
    BY <2>4, MakeInvoiceInv, PayInv, OnEventInv
  <2>5. CASE \E call \in creating : \/ InvoiceFails(call)
                                    \/ \E id \in Ids : StoreSession(call, id)
                                    \/ IndexAndDisclose(call)
    BY <2>5, InvoiceFailsInv, StoreSessionInv, IndexAndDiscloseInv
  <2>6. CASE \E task \in tasks : ReadIndex(task) \/ SettleSession(task)
    BY <2>6, ReadIndexInv, SettleSessionInv
  <2>7. CASE UNCHANGED vars
    BY <2>7, StutterInv
  <2> QED
    BY <2>1, <2>2, <2>3, <2>4, <2>5, <2>6, <2>7 DEF Next
<1> QED
  BY <1>1, InitInv, PTL DEF Spec

\* Types hold in every reachable state.
THEOREM TypeCorrect == Spec => []TypeOK
<1>1. ServerInv => TypeOK
  BY DEF ServerInv
<1> QED
  BY <1>1, ServerInvariant, PTL

\* create_invoice's two writes are never seen half done by a payment.
THEOREM DisclosedReachable == Spec => []DisclosedIsReachable
<1>1. ServerInv => DisclosedIsReachable
  BY DEF ServerInv
<1> QED
  BY <1>1, ServerInvariant, PTL

\* handle_payment settles only sessions whose own invoice was paid, whatever
\* events are repeated or come from an earlier process.
THEOREM SettledPaid == Spec => []SettledIsPaid
<1>1. ServerInv => SettledIsPaid
  BY DEF ServerInv
<1> QED
  BY <1>1, ServerInvariant, PTL

\* An event of a payment is never used up in vain: its session is settled, or a
\* task of handle_payment is on the way to it.
THEOREM NothingLost == Spec => []NoPaymentLost
<1>1. ServerInv => NoPaymentLost
  BY DEF ServerInv
<1> QED
  BY <1>1, ServerInvariant, PTL

\* A payment buys one pass: two settled sessions never name the same invoice.
THEOREM OnePassPerPayment == Spec => []OneSessionPerInvoice
<1>1. ServerInv => OneSessionPerInvoice
  BY DEF ServerInv
<1> QED
  BY <1>1, ServerInvariant, PTL

\* handle_payment gives away no pass: the sessions it has settled are at most as many
\* as the payments the node received, whatever events are repeated.
THEOREM BooksBalance == Spec => []SettledAreCovered
<1>1. Init => IsFiniteSet(paid)
  BY FS_EmptySet DEF Init
<1>2. IsFiniteSet(paid) /\ [Next]_vars => IsFiniteSet(paid)'
  <2>1. [Next]_vars => paid' = paid \/ \E h \in Hashes : paid' = paid \union {h}
    BY DEF Next, vars, nodeVars, Connect, NewOnchainAddress, FaucetAnswers, BindFails,
       Startup, SetHandler, Serve, Restart, Tick, MakeInvoice, Pay, OnEvent, InvoiceFails,
       StoreSession, IndexAndDisclose, ReadIndex, SettleSession
  <2> QED
    BY <2>1, FS_AddElement
<1>3. ServerInv /\ IsFiniteSet(paid) => SettledAreCovered
  <2> SUFFICES ASSUME ServerInv, IsFiniteSet(paid) PROVE SettledAreCovered
    OBVIOUS
  <2> DEFINE Settled == {id \in DOMAIN sessions : sessions[id].settled}
             hash == [id \in Settled |-> sessions[id].payment_hash]
  <2>1. \A id \in Settled : hash[id] \in paid
    BY DEF ServerInv, SettledIsPaid
  <2>2. \A i, j \in Settled : hash[i] = hash[j] => i = j
    BY DEF ServerInv, OneSessionPerInvoice
  <2>3. hash \in Injection(Settled, paid)
    BY <2>1, <2>2 DEF Injection, IsInjective
  <2> QED
    BY <2>3, FS_Injection DEF SettledAreCovered
<1> QED
  BY <1>1, <1>2, <1>3, ServerInvariant, PTL DEF Spec

\* The pass of a settled session opens the gate as long as its invoice could
\* still be paid: the session's expiry is read off a later clock than the
\* invoice's, and the verifier accepts the last second.
THEOREM PassOpens == Spec => []PassOpensWhilePayable
<1>1. ServerInv => PassOpensWhilePayable
  <2> SUFFICES ASSUME ServerInv,
                      NEW id \in DOMAIN sessions,
                      sessions[id].settled,
                      now <= invoices[sessions[id].payment_hash]
               PROVE  Verifies(sessions[id].access_token, keypair, now)
    BY DEF PassOpensWhilePayable
  <2> DEFINE s == sessions[id]
  <2>1. s.access_token = [format |-> "compact", payment_hash |-> s.payment_hash,
                          expires_at |-> s.expires_at, key |-> keypair]
    BY DEF ServerInv, SettledIsPaid, sign_compact_payload
  <2>2. /\ s.payment_hash \in DOMAIN invoices
        /\ invoices[s.payment_hash] <= s.expires_at
    BY DEF ServerInv, SessionsOutlive
  <2>3. now \in Nat /\ invoices[s.payment_hash] \in Nat /\ s.expires_at \in Nat
    BY <2>2 DEF ServerInv, TypeOK, AccessSession
  <2>4. ~ (now > s.expires_at)
    BY <2>2, <2>3
  <2> QED
    BY <2>1, <2>4 DEF Verifies, verify_compact_token, is_expired
<1> QED
  BY <1>1, ServerInvariant, PTL

-----------------------------------------------------------------------------
(* The life of an invoice.                                                 *)

seen == [id \in Ids |-> GetInvoice(id)]

\* What is not in sessions' way, a client does not see.
LEMMA Unseen ==
  ASSUME UNCHANGED sessions
  PROVE  UNCHANGED seen
BY DEF seen, GetInvoice, check_invoice

LEMMA OpenIsSeen ==
  ASSUME ServerInv, NEW call \in creating, NEW id \in Ids, StoreSession(call, id)
  PROVE  InvoiceLife!Open(id)
<1> USE DEF StoreSession, seen
<1>0. PICK at \in ClockRead(call) : sessions' = Put(sessions, id, NewSession(call.hash, at))
  OBVIOUS
<1> DEFINE new == NewSession(call.hash, at)
<1>1. new.settled = FALSE /\ new.access_token = None
  BY DEF NewSession
<1> HIDE DEF new
<1>2. /\ DOMAIN sessions' = DOMAIN sessions \union {id} /\ id \notin DOMAIN sessions
      /\ sessions'[id] = new
      /\ \A i \in DOMAIN sessions : i # id /\ sessions'[i] = sessions[i]
  BY <1>0 DEF Put, new
<1>3. seen[id] = [status |-> "not_found", access_token |-> None]
  BY <1>2 DEF GetInvoice, check_invoice
<1>4. GetInvoice(id)' = [status |-> "pending", access_token |-> None]
  BY <1>1, <1>2 DEF GetInvoice, check_invoice
<1>5. \A i \in Ids : i # id => GetInvoice(i)' = GetInvoice(i)
  BY <1>2 DEF GetInvoice, check_invoice
<1>6. seen' = [seen EXCEPT ![id] = [status |-> "pending", access_token |-> None]]
  BY <1>4, <1>5
<1> QED
  BY <1>3, <1>6 DEF InvoiceLife!Open, InvoiceLife!Unknown, InvoiceLife!Pending,
     InvoiceLife!Answer

\* A task that finds its session settled is not seen, any other settles it.
LEMMA SettleIsSeen ==
  ASSUME ServerInv, NEW task \in tasks, SettleSession(task)
  PROVE  (\E id \in Ids : InvoiceLife!Settle(id)) \/ UNCHANGED seen
<1> USE DEF SettleSession
<1> DEFINE id == task.id
           s == sessions[id]
           token == TokenFor(task)
<1>1. /\ task.hash \in Hashes /\ id \in DOMAIN sessions /\ id \in Ids
      /\ s \in AccessSession /\ restarts \in Nat
  BY DEF ServerInv, TypeOK, TasksAgree
<1>2. token # None
  BY <1>1, NoneAssumption DEF TokenFor, sign_compact_payload, CompactToken, AccessSession, keypair
<1> HIDE DEF token
<1>3. CASE s.settled
  <2>1. UNCHANGED sessions
    BY <1>3
  <2> QED
    BY <2>1, Unseen
<1>4. CASE ~s.settled
  <2>1. /\ DOMAIN sessions' = DOMAIN sessions
        /\ sessions'[id].settled = TRUE /\ sessions'[id].access_token = token
        /\ \A i \in DOMAIN sessions : i # id => sessions'[i] = sessions[i]
    BY <1>1, <1>4 DEF token, AccessSession
  <2>2. seen[id] = [status |-> "pending", access_token |-> None]
    BY <1>1, <1>4 DEF seen, GetInvoice, check_invoice, ServerInv, SettledIsPaid
  <2>3. GetInvoice(id)' = [status |-> "settled", access_token |-> token]
    BY <1>1, <2>1 DEF GetInvoice, check_invoice
  <2>4. \A i \in Ids : i # id => GetInvoice(i)' = GetInvoice(i)
    BY <2>1 DEF GetInvoice, check_invoice
  <2>5. seen' = [seen EXCEPT ![id] = [status |-> "settled", access_token |-> token]]
    BY <2>3, <2>4 DEF seen
  <2>6. seen'[id].access_token = token
    BY <1>1, <2>3 DEF seen
  <2>7. InvoiceLife!Settle(id)
    BY <1>2, <2>2, <2>5, <2>6
       DEF InvoiceLife!Settle, InvoiceLife!Pending, InvoiceLife!Answer, seen
  <2> QED
    BY <1>1, <2>7
<1> QED
  BY <1>3, <1>4

\* A restart forgets all invoices at once.
LEMMA RestartIsSeen ==
  ASSUME Restart
  PROVE  InvoiceLife!Forget
<1>1. DOMAIN sessions' = {}
  BY EmptyFunction DEF Restart
<1> QED
  BY <1>1 DEF GetInvoice, check_invoice, InvoiceLife!Forget, InvoiceLife!Unknown, InvoiceLife!Answer

LEMMA InvoiceStep ==
  ASSUME ServerInv, [Next]_vars
  PROVE  [InvoiceLife!Next]_seen
<1>1. CASE UNCHANGED sessions
  BY <1>1, Unseen
<1>2. CASE Restart
  BY <1>2, RestartIsSeen DEF InvoiceLife!Next
<1>3. CASE \E call \in creating : \E id \in Ids : StoreSession(call, id)
  BY <1>3, OpenIsSeen DEF InvoiceLife!Next
<1>4. CASE \E task \in tasks : SettleSession(task)
  BY <1>4, SettleIsSeen DEF InvoiceLife!Next
<1>5. UNCHANGED sessions \/ Restart
      \/ (\E call \in creating : \E id \in Ids : StoreSession(call, id))
      \/ (\E task \in tasks : SettleSession(task))
  BY DEF Next, vars, storeVars, Connect, NewOnchainAddress, FaucetAnswers, BindFails, Startup,
     SetHandler, Serve, Tick,
     MakeInvoice, Pay, OnEvent, InvoiceFails, IndexAndDisclose, ReadIndex
<1> QED
  BY <1>1, <1>2, <1>3, <1>4, <1>5

\* The server implements the life of an invoice: whatever events are repeated
\* and however their tasks interleave with create_invoice, a client sees an
\* invoice settle once, with one token, until a restart.
THEOREM LightningKeepsInvoiceLife == Spec => KeepsInvoiceLife
<1>1. Init => InvoiceLife!Init
  <2> SUFFICES ASSUME Init PROVE InvoiceLife!Init
    OBVIOUS
  <2>1. DOMAIN sessions = {}
    BY EmptyFunction DEF Init
  <2> QED
    BY <2>1 DEF GetInvoice, check_invoice, InvoiceLife!Init, InvoiceLife!Unknown, InvoiceLife!Answer
<1>2. ServerInv /\ [Next]_vars => [InvoiceLife!Next]_[id \in Ids |-> GetInvoice(id)]
  BY InvoiceStep DEF seen
<1> QED
  BY <1>1, <1>2, ServerInvariant, PTL DEF Spec, KeepsInvoiceLife, InvoiceLife!Spec
=============================================================================
