----------------------------- MODULE MockProofs -----------------------------
(* Proofs about MockServer: for any number of invoices, tokens and restarts, *)
(* and any delay.                                                            *)
EXTENDS MockServer, TLAPS

LEMMA InitInv == Init => MockInv
<1> SUFFICES ASSUME Init PROVE MockInv
  OBVIOUS
<1> USE DEF Init
<1>1. DOMAIN store = {} /\ store \in [DOMAIN store -> Session]
  <2>1. << >> = [x \in {} |-> x]
    OBVIOUS
  <2> HIDE DEF Session
  <2> QED
    BY <2>1
<1>2. answered \in [Ids -> [status : {"not_found", "pending", "settled"},
                            access_token : Tokens \union {None}]]
  BY DEF NotFound, StatusResponse
<1>3. TypeOK
  BY <1>1, <1>2 DEF TypeOK
<1>4. AnswersKept
  BY <1>1 DEF AnswersKept
<1> QED
  BY <1>3, <1>4 DEF MockInv

\* The new session is the only one that changes, and the buyer was told of it.
LEMMA CreateInv ==
  ASSUME MockInv, NEW id \in Ids, create_invoice(id)
  PROVE  MockInv' /\ InvoiceLife!Open(id)
<1> USE NoneAssumption DEF create_invoice
<1> DEFINE new == [created_at |-> now, access_token |-> None]
<1>1. new \in Session /\ new.access_token = None
  BY DEF MockInv, TypeOK, Session
<1> HIDE DEF new
<1>2. /\ DOMAIN store' = DOMAIN store \union {id} /\ id \notin DOMAIN store
      /\ store'[id] = new
      /\ \A x \in DOMAIN store : x # id /\ store'[x] = store[x]
  BY DEF new
<1>3. /\ answered'[id] = StatusResponse("pending", None)
      /\ \A x \in Ids : x # id => answered'[x] = answered[x]
  BY DEF MockInv, TypeOK
<1>4. store' \in [DOMAIN store' -> Session]
  <2>1. \A x \in DOMAIN store' : store'[x] \in Session
    BY <1>1, <1>2 DEF MockInv, TypeOK
  <2>2. store' = [x \in DOMAIN store' |-> store'[x]]
    OBVIOUS
  <2> HIDE DEF Session
  <2> QED
    BY <2>1, <2>2
<1>5. TypeOK'
  BY <1>2, <1>4 DEF MockInv, TypeOK, StatusResponse
<1>6. AnswersKept'
  BY <1>1, <1>2, <1>3 DEF MockInv, AnswersKept, settled
<1>7. InvoiceLife!Open(id)
  BY <1>2 DEF MockInv, AnswersKept, NotFound, StatusResponse, InvoiceLife!Open,
     InvoiceLife!Unknown, InvoiceLife!Pending, InvoiceLife!Answer
<1> QED
  BY <1>5, <1>6, <1>7 DEF MockInv

\* A request that draws a token settles the invoice; any other repeats the answer
\* that was given before.
LEMMA CheckInv ==
  ASSUME MockInv, NEW id \in Ids, check_invoice(id)
  PROVE  MockInv' /\ (InvoiceLife!Settle(id) \/ UNCHANGED answered)
<1> USE NoneAssumption DEF check_invoice
<1>1. PICK token \in Tokens :
        store' = IF DrawsToken(store[id])
                 THEN [store EXCEPT ![id].access_token = token] ELSE store
  OBVIOUS
<1>2. CASE DrawsToken(store[id])
  <2>0. id \in DOMAIN store /\ store[id] \in Session
    BY DEF MockInv, TypeOK
  <2>1. /\ store[id].access_token = None /\ settled(store[id])
        /\ answered[id] = StatusResponse("pending", None)
    BY <1>2 DEF DrawsToken, MockInv, AnswersKept
  <2> DEFINE new == [store[id] EXCEPT !.access_token = token]
  <2>2. new \in Session /\ new.access_token = token /\ new.created_at = store[id].created_at
    BY <2>0 DEF Session
  <2>3. store' = [store EXCEPT ![id] = new]
    BY <1>1, <1>2
  <2> HIDE DEF new
  <2>4. /\ DOMAIN store' = DOMAIN store /\ store'[id] = new
        /\ \A x \in DOMAIN store : x # id => store'[x] = store[x]
    BY <2>0, <2>3
  <2>5. /\ answered' = [answered EXCEPT ![id] = StatusResponse("settled", token)]
        /\ answered'[id] = StatusResponse("settled", token)
        /\ \A x \in Ids : x # id => answered'[x] = answered[x]
    BY <2>1, <2>2, <2>4 DEF MockInv, TypeOK
  <2>6. store' \in [DOMAIN store' -> Session]
    <3> HIDE DEF Session
    <3> QED
      BY <2>2, <2>3 DEF MockInv, TypeOK
  <2>7. TypeOK'
    BY <2>4, <2>5, <2>6 DEF MockInv, TypeOK, StatusResponse
  <2>8. AnswersKept'
    <3>1. /\ answered'[id] = StatusResponse("settled", store'[id].access_token)
          /\ store'[id].access_token # None /\ settled(store[id])
      BY <2>0, <2>1, <2>2, <2>4, <2>5 DEF MockInv, TypeOK
    <3>2. settled(store[id])'
      BY <2>2, <2>4, <3>1 DEF settled
    <3>3. ASSUME NEW x \in Ids, x # id
          PROVE  IF x \notin DOMAIN store' THEN answered'[x] = NotFound
                 ELSE LET t == store'[x].access_token
                      IN  /\ answered'[x] =
                               StatusResponse(IF t = None THEN "pending" ELSE "settled", t)
                          /\ t # None => settled(store[x])'
      BY <2>4, <2>5, <3>3 DEF MockInv, AnswersKept, settled
    <3> QED
      BY <2>0, <2>4, <3>1, <3>2, <3>3 DEF AnswersKept
  <2>9. InvoiceLife!Settle(id)
    <3>1. answered'[id].access_token = token
      BY <2>5 DEF StatusResponse
    <3> QED
      BY <2>1, <2>5, <3>1 DEF StatusResponse, InvoiceLife!Settle,
         InvoiceLife!Pending, InvoiceLife!Answer
  <2> QED
    BY <2>7, <2>8, <2>9 DEF MockInv
<1>3. CASE ~DrawsToken(store[id])
  <2>1. store' = store
    BY <1>1, <1>3
  <2>2. answered'[id] = answered[id] /\ \A x \in Ids : x # id => answered'[x] = answered[x]
    BY <1>3, <2>1 DEF DrawsToken, MockInv, TypeOK, AnswersKept
  <2>3. answered' = answered
    BY <2>2 DEF MockInv, TypeOK
  <2>4. MockInv'
    BY <2>1, <2>3 DEF MockInv, TypeOK, AnswersKept, settled
  <2> QED
    BY <2>3, <2>4
<1> QED
  BY <1>2, <1>3

\* What was due stays due.
LEMMA TickInv ==
  ASSUME MockInv, Tick
  PROVE  MockInv'
<1> USE DEF Tick, MockInv
<1>1. TypeOK'
  BY DEF TypeOK
<1>2. AnswersKept'
  BY SettleAssumption DEF AnswersKept, TypeOK, Session, settled
<1> QED
  BY <1>1, <1>2

LEMMA RestartInv ==
  ASSUME MockInv, Restart
  PROVE  MockInv' /\ InvoiceLife!Forget
<1> USE DEF Restart
<1>1. DOMAIN store' = {} /\ store' \in [DOMAIN store' -> Session]
  <2>1. << >> = [x \in {} |-> x]
    OBVIOUS
  <2> HIDE DEF Session
  <2> QED
    BY <2>1
<1>2. answered' \in [Ids -> [status : {"not_found", "pending", "settled"},
                             access_token : Tokens \union {None}]]
  BY DEF NotFound, StatusResponse
<1>3. TypeOK'
  BY <1>1, <1>2 DEF MockInv, TypeOK
<1>4. AnswersKept'
  BY <1>1 DEF AnswersKept
<1>5. InvoiceLife!Forget
  BY DEF InvoiceLife!Forget, InvoiceLife!Unknown, InvoiceLife!Answer, NotFound, StatusResponse
<1> QED
  BY <1>3, <1>4, <1>5 DEF MockInv

-----------------------------------------------------------------------------

\* Every step keeps the invariant, and is one of an invoice's life or leaves it.
LEMMA Step ==
  ASSUME MockInv, [Next]_vars
  PROVE  MockInv' /\ [InvoiceLife!Next]_answered
<1>1. CASE \E id \in Ids : create_invoice(id) \/ check_invoice(id)
  BY <1>1, CreateInv, CheckInv DEF InvoiceLife!Next
<1>2. CASE Tick
  BY <1>2, TickInv DEF Tick
<1>3. CASE Restart
  BY <1>3, RestartInv DEF InvoiceLife!Next
<1>4. CASE UNCHANGED vars
  BY <1>4 DEF vars, MockInv, TypeOK, AnswersKept, settled
<1> QED
  BY <1>1, <1>2, <1>3, <1>4 DEF Next

\* The inductive invariant of the mock.
THEOREM MockInvariant == Spec => []MockInv
<1> QED
  BY InitInv, Step, PTL DEF Spec

\* What clients were last told is what the store holds, on either route.
THEOREM AnswersAreKept == Spec => []AnswersKept
<1>1. MockInv => AnswersKept
  BY DEF MockInv
<1> QED
  BY <1>1, MockInvariant, PTL

\* The mock implements the life of an invoice: the two GET routes, drawing the
\* token by turns, never show a settled invoice without it or a second one.
THEOREM MockKeepsInvoiceLife == Spec => KeepsInvoiceLife
<1>1. Init => InvoiceLife!Init
  BY DEF Init, InvoiceLife!Init, InvoiceLife!Unknown, InvoiceLife!Answer, NotFound,
     StatusResponse
<1>2. MockInv /\ [Next]_vars => [InvoiceLife!Next]_answered
  BY Step
<1> QED
  BY <1>1, <1>2, MockInvariant, PTL DEF Spec, KeepsInvoiceLife, InvoiceLife!Spec
=============================================================================
