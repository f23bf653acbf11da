------------------------------ MODULE PageProofs ------------------------------
(* Proofs about CheckoutPage: for any number of sessions, calls and loads.  *)
EXTENDS CheckoutPage, TLAPS

-----------------------------------------------------------------------------
(* The server's side and the list of calls.                                *)

\* A session that exists goes on existing, and a signed one stays signed.
LEMMA LifeGoesOn ==
  ASSUME life \in [Memos -> Answers \union {"never"}], LifeNext
  PROVE  /\ life' \in [Memos -> Answers \union {"never"}]
         /\ \A m \in Memos :
              /\ life[m] # "never" => life'[m] # "never"
              /\ life[m] \in {"confirmed", "not_found"}
                   => life'[m] \in {"confirmed", "not_found"}
BY DEF LifeNext, Open, Settle, Expire, Forget, Answers

\* Removing a call leaves only calls that were there.
LEMMA RemoveCall ==
  ASSUME calls \in Seq(CallType), NEW i \in DOMAIN calls
  PROVE  /\ RemoveAt(calls, i) \in Seq(CallType)
         /\ \A j \in DOMAIN RemoveAt(calls, i) :
              \E k \in DOMAIN calls : RemoveAt(calls, i)[j] = calls[k]
<1> DEFINE left == SubSeq(calls, 1, i - 1)
           right == SubSeq(calls, i + 1, Len(calls))
<1>1. left \in Seq(CallType) /\ right \in Seq(CallType)
  <2> HIDE DEF CallType
  <2> QED
    OBVIOUS
<1>2. /\ Len(left) = i - 1 /\ \A j \in 1 .. Len(left) : left[j] = calls[j]
      /\ Len(right) = Len(calls) - i
      /\ \A j \in 1 .. Len(right) : right[j] = calls[i + j]
  OBVIOUS
<1>3. RemoveAt(calls, i) = left \o right
  BY DEF RemoveAt
<1> HIDE DEF left, right
<1>4. RemoveAt(calls, i) \in Seq(CallType)
  BY <1>1, <1>3
<1>5. ASSUME NEW j \in DOMAIN (left \o right)
      PROVE  \E k \in DOMAIN calls : (left \o right)[j] = calls[k]
  <2>0. /\ Len(left \o right) = Len(left) + Len(right)
        /\ DOMAIN calls = 1 .. Len(calls) /\ j \in 1 .. Len(left) + Len(right)
        /\ Len(left) \in Nat /\ Len(right) \in Nat /\ Len(calls) \in Nat /\ i \in Nat
    BY <1>1
  <2>1. CASE j <= Len(left)
    <3>1. (left \o right)[j] = left[j] /\ j \in 1 .. Len(left) /\ j \in 1 .. Len(calls)
      BY <1>1, <1>2, <2>0, <2>1
    <3> QED
      BY <1>2, <2>0, <3>1
  <2>2. CASE j > Len(left)
    <3>1. (left \o right)[j] = right[j - Len(left)]
      BY <1>1, <2>0, <2>2
    <3>2. j - Len(left) \in 1 .. Len(right) /\ i + (j - Len(left)) \in 1 .. Len(calls)
      BY <1>2, <2>0, <2>2
    <3> QED
      BY <1>2, <2>0, <3>1, <3>2
  <2> QED
    BY <2>0, <2>1, <2>2
<1> QED
  BY <1>3, <1>4, <1>5

\* The store with a status answer in it.
LEMMA WithType ==
  ASSUME PageInv, NEW i \in DOMAIN calls, calls[i].answer \in Answers
  PROVE  /\ With(calls[i]) \in StoreType
         /\ With(calls[i]).session = app.session /\ With(calls[i]).state = app.state
         /\ With(calls[i]).data # None /\ With(calls[i]).data.status = calls[i].answer
         /\ With(calls[i]).data.session = calls[i].session
<1>1. calls[i].session \in Memos
  BY DEF PageInv, CallsKnown
<1>2. [session |-> calls[i].session, status |-> calls[i].answer] \in AccessData
  BY <1>1 DEF AccessData
<1>3. app \in StoreType
  BY DEF PageInv, TypeOK
<1> QED
  BY <1>2, <1>3, NoneAssumption DEF With, StoreType

-----------------------------------------------------------------------------
(* The two halves of a step: what it does to the store and to the calls.    *)

\* Calls are removed at most.
LEMMA CallsKept ==
  ASSUME CallsKnown, life' = life,
         \A j \in DOMAIN calls' : \E k \in DOMAIN calls : calls'[j] = calls[k]
  PROVE  CallsKnown'
BY DEF CallsKnown

\* A call is appended.
LEMMA CallAdded ==
  ASSUME CallsKnown, life' = life, NEW others \in Seq(CallType),
         others = calls \/ others = << >>,
         NEW c \in CallType, calls' = Append(others, c), c.answer = "sent",
         c.kind = "status" => c.session \in Memos /\ life[c.session] # "never"
  PROVE  calls' \in Seq(CallType) /\ CallsKnown'
<1>1. calls' \in Seq(CallType)
  BY DEF CallType
<1>2. \A j \in DOMAIN calls' : calls'[j] = c \/ (j \in DOMAIN others /\ calls'[j] = others[j])
  <2> HIDE DEF CallType
  <2> QED
    OBVIOUS
<1>3. others # << >> => others = calls
  OBVIOUS
<1>4. \A j \in DOMAIN others : j \in DOMAIN calls /\ others[j] = calls[j]
  OBVIOUS
<1> QED
  BY <1>1, <1>2, <1>4 DEF CallsKnown, Answers

\* The store is saved in a new state: everything hangs on the state it takes.
LEMMA Saved ==
  ASSUME NEW a \in StoreType, NEW to \in States, Store(a, to), life' = life,
         to \in {"DETECTED", "CONFIRMED"} =>
           /\ a.data # None /\ a.data.status = "confirmed"
           /\ life[a.data.session] \in {"confirmed", "not_found"},
         a.session # None => life[a.session] # "never"
  PROVE  /\ app' \in StoreType /\ storage' \in StoreType
         /\ app'.state = to /\ app'.session = a.session
         /\ PassShownIsConfirmed' /\ SavedInStep' /\ SessionsKnown'
<1>1. /\ app' \in StoreType /\ storage' = app' /\ app'.state = to
      /\ app'.session = a.session /\ app'.data = a.data
  BY DEF Store, StoreType
<1>2. ShowsSigned(app)'
  BY <1>1 DEF ShowsSigned
<1>3. storage' # None
  BY <1>1, NoneAssumption
<1> QED
  BY <1>1, <1>2, <1>3 DEF PassShownIsConfirmed, ShowsSigned, SavedInStep, SessionsKnown

\* The store and its copy stay.
LEMMA Left ==
  ASSUME PageInv, UNCHANGED <<app, storage, life, loads>>
  PROVE  PassShownIsConfirmed' /\ SavedInStep' /\ SessionsKnown'
BY DEF PageInv, PassShownIsConfirmed, ShowsSigned, SavedInStep, SessionsKnown

\* handleStatus takes the answer into a store that is not saved.
LEMMA Taken ==
  ASSUME PageInv, NEW i \in DOMAIN calls, calls[i].answer \in Answers,
         app' = With(calls[i]), UNCHANGED <<storage, life, loads>>,
         calls[i].answer = "confirmed" \/ app.state \notin {"DETECTED", "CONFIRMED"}
  PROVE  /\ app' \in StoreType /\ app'.session = app.session
         /\ PassShownIsConfirmed' /\ SavedInStep' /\ SessionsKnown'
<1>1. /\ With(calls[i]) \in StoreType
      /\ With(calls[i]).session = app.session /\ With(calls[i]).state = app.state
      /\ With(calls[i]).data # None /\ With(calls[i]).data.status = calls[i].answer
      /\ With(calls[i]).data.session = calls[i].session
  BY WithType
<1>2. ShowsSigned(app)'
  BY <1>1 DEF PageInv, CallsKnown, ShowsSigned
<1> QED
  BY <1>1, <1>2 DEF PageInv, PassShownIsConfirmed, ShowsSigned, SavedInStep, SessionsKnown

-----------------------------------------------------------------------------
(* The invariant, step by step.                                            *)

LEMMA InitInv == Init => PageInv
<1> SUFFICES ASSUME Init PROVE PageInv
  OBVIOUS
<1> USE DEF Init, createInitialStore
<1>1. life \in [Memos -> Answers \union {"never"}]
  BY DEF LifeInit
<1>2. app \in StoreType
  BY DEF StoreType, States
<1>3. calls \in Seq(CallType)
  OBVIOUS
<1>4. TypeOK
  BY <1>1, <1>2, <1>3 DEF TypeOK
<1>5. PassShownIsConfirmed /\ SavedInStep /\ CallsKnown /\ SessionsKnown
  BY DEF PassShownIsConfirmed, ShowsSigned, SavedInStep, CallsKnown, SessionsKnown
<1> QED
  BY <1>4, <1>5 DEF PageInv

\* The server moves on without the page.
LEMMA ServerInv ==
  ASSUME PageInv, LifeNext, UNCHANGED pageVars
  PROVE  PageInv'
<1> USE DEF pageVars, timers
<1>1. /\ life' \in [Memos -> Answers \union {"never"}]
      /\ \A m \in Memos :
           /\ life[m] # "never" => life'[m] # "never"
           /\ life[m] \in {"confirmed", "not_found"}
                => life'[m] \in {"confirmed", "not_found"}
  BY LifeGoesOn DEF PageInv, TypeOK
<1>2. /\ app.session \in Memos \union {None} /\ app.data \in AccessData \union {None}
      /\ storage # None => storage.session \in Memos \union {None}
                           /\ storage.data \in AccessData \union {None}
  BY DEF PageInv, TypeOK, StoreType
<1>3. TypeOK'
  BY <1>1 DEF PageInv, TypeOK
<1>4. PassShownIsConfirmed'
  BY <1>1, <1>2 DEF PageInv, PassShownIsConfirmed, ShowsSigned, AccessData
<1>5. SavedInStep' /\ SessionsKnown'
  BY <1>1, <1>2 DEF PageInv, SavedInStep, SessionsKnown
<1>6. CallsKnown'
  BY <1>1 DEF PageInv, CallsKnown, Answers
<1> QED
  BY <1>3, <1>4, <1>5, <1>6 DEF PageInv

\* A new session is asked for: the page waits with no session.
LEMMA CreateFacts ==
  ASSUME PageInv, life' = life, NEW a \in StoreType, NEW others \in Seq(CallType),
         others = calls \/ others = << >>, createPaymentSession(a, others)
  PROVE  /\ app' \in StoreType /\ storage' \in StoreType
         /\ PassShownIsConfirmed' /\ SavedInStep' /\ SessionsKnown'
         /\ calls' \in Seq(CallType) /\ CallsKnown'
         /\ poll_timer' = FALSE /\ confirm_timer' = FALSE
<1> DEFINE b == [a EXCEPT !.session = None, !.data = None]
<1>1. b \in StoreType /\ b.session = None
  BY DEF StoreType
<1>2. Store(b, "WAITING")
  BY DEF createPaymentSession
<1>3. /\ app' \in StoreType /\ storage' \in StoreType
      /\ PassShownIsConfirmed' /\ SavedInStep' /\ SessionsKnown'
  <2> HIDE DEF b
  <2> QED
    BY <1>1, <1>2, Saved DEF States
<1>4. PostCall \in CallType /\ PostCall.answer = "sent" /\ PostCall.kind = "post"
  BY PageBounds DEF PostCall, CallType
<1>5. calls' = Append(others, PostCall)
  BY DEF createPaymentSession
<1>6. calls' \in Seq(CallType) /\ CallsKnown'
  BY <1>4, <1>5, CallAdded DEF PageInv
<1> QED
  BY <1>3, <1>6 DEF createPaymentSession, stopTimers

LEMMA ClickInv ==
  ASSUME PageInv, Click
  PROVE  PageInv'
<1>1. /\ life' = life /\ app \in StoreType /\ calls \in Seq(CallType)
      /\ createPaymentSession(app, calls)
  BY DEF Click, PageInv, TypeOK
<1>2. TypeOK'
  BY <1>1, CreateFacts DEF Click, PageInv, TypeOK
<1> QED
  BY <1>1, <1>2, CreateFacts DEF PageInv

\* restore takes up a store that was saved.
LEMMA RestoreInv ==
  ASSUME PageInv, restore
  PROVE  PageInv'
<1>1. life' = life /\ lost_timers' = 0 /\ loads' \in Nat
  BY DEF restore, PageInv, TypeOK
<1>2. CASE storage = None
  <2>1. createInitialStore \in StoreType /\ << >> \in Seq(CallType)
    BY DEF createInitialStore, StoreType, States
  <2>2. createPaymentSession(createInitialStore, << >>) /\ counting' = FALSE
    BY <1>2 DEF restore
  <2>3. /\ app' \in StoreType /\ storage' \in StoreType
        /\ PassShownIsConfirmed' /\ SavedInStep' /\ SessionsKnown'
        /\ calls' \in Seq(CallType) /\ CallsKnown'
        /\ poll_timer' = FALSE /\ confirm_timer' = FALSE
    BY <1>1, <2>1, <2>2, CreateFacts
  <2>4. TypeOK'
    BY <1>1, <2>2, <2>3 DEF PageInv, TypeOK
  <2> QED
    BY <2>3, <2>4 DEF PageInv
<1>3. CASE storage # None
  <2>1. /\ storage \in StoreType /\ storage.state \in States
        /\ storage.session # None => life[storage.session] # "never"
        /\ ShowsSigned(storage)
    BY <1>3 DEF PageInv, TypeOK, SessionsKnown, PassShownIsConfirmed, StoreType
  <2>2. /\ calls' = << >> /\ confirm_timer' = FALSE /\ counting' \in BOOLEAN
        /\ poll_timer' = FALSE \/ poll_timer' = (storage.session # None)
        /\ Store(storage, "EXPIRED") \/ Store(storage, storage.state)
    BY <1>3 DEF restore
  <2>3. /\ app' \in StoreType /\ storage' \in StoreType /\ app'.session = storage.session
        /\ PassShownIsConfirmed' /\ SavedInStep' /\ SessionsKnown'
    <3>1. CASE Store(storage, "EXPIRED")
      BY <1>1, <2>1, <3>1, Saved DEF States
    <3>2. CASE Store(storage, storage.state)
      BY <1>1, <2>1, <3>2, Saved DEF ShowsSigned
    <3> QED
      BY <2>2, <3>1, <3>2
  <2>4. calls' \in Seq(CallType) /\ CallsKnown'
    BY <2>2 DEF CallsKnown
  <2>5. TypeOK'
    BY <1>1, <2>2, <2>3, <2>4 DEF PageInv, TypeOK
  <2> QED
    BY <2>3, <2>4, <2>5 DEF PageInv
<1> QED
  BY <1>2, <1>3

\* The timers: countdown, poll and the move to CONFIRMED.
LEMMA CountdownInv ==
  ASSUME PageInv, updateCountdown
  PROVE  PageInv'
<1> USE DEF updateCountdown, stopTimers
<1>1. /\ app' \in StoreType /\ storage' \in StoreType
      /\ PassShownIsConfirmed' /\ SavedInStep' /\ SessionsKnown'
  BY Saved DEF PageInv, TypeOK, SessionsKnown, States
<1>2. CallsKnown'
  BY DEF PageInv, CallsKnown
<1>3. TypeOK'
  BY <1>1 DEF PageInv, TypeOK
<1> QED
  BY <1>1, <1>2, <1>3 DEF PageInv

LEMMA PollInv ==
  ASSUME PageInv, checkStatus
  PROVE  PageInv'
<1> USE DEF checkStatus
<1>1. PassShownIsConfirmed' /\ SavedInStep' /\ SessionsKnown'
  BY Left
<1>2. calls' \in Seq(CallType) /\ CallsKnown'
  <2>1. CASE app.session = None
    BY <2>1 DEF PageInv, TypeOK, CallsKnown
  <2>2. CASE app.session # None
    <3>1. app.session \in Memos /\ life[app.session] # "never"
      BY <2>2 DEF PageInv, TypeOK, StoreType, SessionsKnown
    <3>2. /\ StatusCall(app.session) \in CallType
          /\ StatusCall(app.session).answer = "sent"
          /\ StatusCall(app.session).session = app.session
      BY <3>1, PageBounds DEF StatusCall, CallType
    <3>3. calls' = Append(calls, StatusCall(app.session))
      BY <2>2
    <3> QED
      BY <3>1, <3>2, <3>3, CallAdded DEF PageInv, TypeOK
  <2> QED
    BY <2>1, <2>2
<1>3. TypeOK'
  BY <1>2 DEF PageInv, TypeOK
<1> QED
  BY <1>1, <1>2, <1>3 DEF PageInv

LEMMA ConfirmTimerInv ==
  ASSUME PageInv, ConfirmTimer
  PROVE  PageInv'
<1> USE DEF ConfirmTimer
<1>1. CallsKnown' /\ calls' \in Seq(CallType)
  BY DEF PageInv, TypeOK, CallsKnown
<1>2. lost_timers' \in Nat /\ confirm_timer' \in BOOLEAN /\ counting' \in BOOLEAN
  <2>1. /\ lost_timers \in Nat /\ confirm_timer \in BOOLEAN /\ counting \in BOOLEAN
    BY DEF PageInv, TypeOK
  <2>2. counting' = TRUE \/ counting' = counting
    OBVIOUS
  <2>3. \/ confirm_timer' = FALSE /\ lost_timers' = lost_timers
        \/ /\ lost_timers > 0 /\ lost_timers' = lost_timers - 1
           /\ confirm_timer' = confirm_timer
    OBVIOUS
  <2>4. lost_timers' \in Nat
    BY <2>1, <2>3
  <2>5. confirm_timer' \in BOOLEAN /\ counting' \in BOOLEAN
    BY <2>1, <2>2, <2>3
  <2> QED
    BY <2>4, <2>5
<1>3. CASE Allowed(app.state, "CONFIRMED")
  <2>1. app.state \in {"DETECTED", "CONFIRMED"}
    <3>1. app.state \in States
      BY DEF PageInv, TypeOK, StoreType
    <3> QED
      BY <1>3, <3>1 DEF Allowed, TRANSITIONS, States
  <2>2. /\ app' \in StoreType /\ storage' \in StoreType /\ app'.session = app.session
        /\ PassShownIsConfirmed' /\ SavedInStep' /\ SessionsKnown'
    <3>1. app \in StoreType /\ Store(app, "CONFIRMED") /\ life' = life
      BY <1>3 DEF PageInv, TypeOK
    <3> QED
      BY <2>1, <3>1, Saved DEF PageInv, PassShownIsConfirmed, ShowsSigned, SessionsKnown, States
  <2>3. TypeOK'
    BY <1>1, <1>2, <2>2 DEF PageInv, TypeOK
  <2> QED
    BY <1>1, <2>2, <2>3 DEF PageInv
<1>4. CASE ~Allowed(app.state, "CONFIRMED")
  <2>1. PassShownIsConfirmed' /\ SavedInStep' /\ SessionsKnown'
    BY <1>4, Left
  <2>2. TypeOK'
    BY <1>1, <1>2, <1>4 DEF PageInv, TypeOK
  <2> QED
    BY <1>1, <2>1, <2>2 DEF PageInv
<1> QED
  BY <1>3, <1>4

-----------------------------------------------------------------------------
(* Requests.                                                               *)

\* A call among others takes another form.
LEMMA ReplacedAt ==
  ASSUME NEW S, NEW q \in Seq(S), NEW i \in DOMAIN q, NEW c \in S
  PROVE  /\ [q EXCEPT ![i] = c] \in Seq(S) /\ DOMAIN [q EXCEPT ![i] = c] = DOMAIN q
         /\ [q EXCEPT ![i] = c][i] = c
         /\ \A j \in DOMAIN q : j # i => [q EXCEPT ![i] = c][j] = q[j]
<1> DEFINE r == [q EXCEPT ![i] = c]
<1>1. DOMAIN q = 1 .. Len(q) /\ Len(q) \in Nat /\ \A j \in DOMAIN q : q[j] \in S
  OBVIOUS
<1>2. r = [j \in 1 .. Len(q) |-> IF j = i THEN c ELSE q[j]]
  BY <1>1
<1>3. r \in [1 .. Len(q) -> S]
  BY <1>1, <1>2
<1>4. r \in Seq(S)
  BY <1>1, <1>3
<1> QED
  BY <1>1, <1>2, <1>4

\* What CallsKnown says of one call.
KnownCall(c) ==
  /\ c.kind = "status" \/ c.answer = "opened" =>
       c.session \in Memos /\ life[c.session] # "never"
  /\ c.answer \in Answers => c.kind = "status"
  /\ c.answer = "confirmed" => life[c.session] \in {"confirmed", "not_found"}

\* A call is replaced by one that is in order, while sessions live on.
LEMMA CallReplaced ==
  ASSUME calls \in Seq(CallType), CallsKnown, NEW i \in DOMAIN calls,
         NEW c \in CallType, calls' = [calls EXCEPT ![i] = c],
         \A m \in Memos :
           /\ life[m] # "never" => life'[m] # "never"
           /\ life[m] \in {"confirmed", "not_found"}
                => life'[m] \in {"confirmed", "not_found"},
         /\ c.kind = "status" \/ c.answer = "opened" =>
              c.session \in Memos /\ life'[c.session] # "never"
         /\ c.answer \in Answers => c.kind = "status"
         /\ c.answer = "confirmed" => life'[c.session] \in {"confirmed", "not_found"}
  PROVE  calls' \in Seq(CallType) /\ CallsKnown'
<1>1. /\ calls' \in Seq(CallType) /\ DOMAIN calls' = DOMAIN calls /\ calls'[i] = c
      /\ \A j \in DOMAIN calls : j # i => calls'[j] = calls[j]
  <2> HIDE DEF CallType
  <2> QED
    BY ReplacedAt
<1>2. ASSUME NEW j \in DOMAIN calls PROVE KnownCall(calls[j])
  BY DEF CallsKnown, KnownCall
<1>3. ASSUME NEW j \in DOMAIN calls', j # i
      PROVE  /\ calls'[j].kind = "status" \/ calls'[j].answer = "opened" =>
                  calls'[j].session \in Memos /\ life'[calls'[j].session] # "never"
             /\ calls'[j].answer \in Answers => calls'[j].kind = "status"
             /\ calls'[j].answer = "confirmed" =>
                  life'[calls'[j].session] \in {"confirmed", "not_found"}
  <2>1. calls'[j] = calls[j] /\ KnownCall(calls[j])
    BY <1>1, <1>2, <1>3
  <2>2. calls[j].answer = "confirmed" => calls[j].session \in Memos
    BY <2>1 DEF KnownCall, Answers
  <2> QED
    BY <2>1, <2>2 DEF KnownCall
<1> QED
  BY <1>1, <1>3 DEF CallsKnown

\* The server's answer to an attempt.
LEMMA ServerAnswersInv ==
  ASSUME PageInv, NEW i \in DOMAIN calls, ServerAnswers(i)
  PROVE  PageInv'
<1>1. /\ calls \in Seq(CallType) /\ calls[i] \in CallType /\ CallsKnown
      /\ life \in [Memos -> Answers \union {"never"}]
  <2>1. calls \in Seq(CallType) /\ CallsKnown /\ life \in [Memos -> Answers \union {"never"}]
    BY DEF PageInv, TypeOK
  <2> QED
    BY <2>1
<1>2. /\ app' = app /\ storage' = storage /\ loads' = loads /\ counting' = counting
      /\ poll_timer' = poll_timer /\ confirm_timer' = confirm_timer
      /\ lost_timers' = lost_timers
  BY DEF ServerAnswers, timers
<1>3. CASE calls[i].kind = "post"
  <2>1. PICK m \in Memos :
          /\ Open(m)
          /\ calls' = [calls EXCEPT ![i].answer = "opened", ![i].session = m]
    BY <1>3 DEF ServerAnswers
  <2> DEFINE c == [calls[i] EXCEPT !.answer = "opened", !.session = m]
  <2>2. /\ c \in CallType /\ c.kind = "post" /\ c.answer = "opened" /\ c.session = m
    BY <1>1, <1>3 DEF CallType
  <2>3. calls' = [calls EXCEPT ![i] = c]
    BY <2>1
  <2>4. LifeNext /\ life'[m] # "never"
    BY <1>1, <2>1 DEF LifeNext, Open
  <2>5. /\ life' \in [Memos -> Answers \union {"never"}]
        /\ \A k \in Memos :
             /\ life[k] # "never" => life'[k] # "never"
             /\ life[k] \in {"confirmed", "not_found"}
                  => life'[k] \in {"confirmed", "not_found"}
    BY <1>1, <2>4, LifeGoesOn
  <2> HIDE DEF c
  <2>6. c.answer \notin Answers
    BY <2>2 DEF Answers
  <2>7. calls' \in Seq(CallType) /\ CallsKnown'
    <3>1. c.answer # "confirmed" /\ c.answer \notin Answers
      BY <2>2, <2>6
    <3> QED
      BY <1>1, <2>2, <2>3, <2>4, <2>5, <3>1, CallReplaced
  <2>8. TypeOK'
    BY <1>2, <2>5, <2>7 DEF PageInv, TypeOK
  <2>9. /\ app.session \in Memos \union {None} /\ app.data \in AccessData \union {None}
        /\ storage # None => storage.session \in Memos \union {None}
                             /\ storage.data \in AccessData \union {None}
    BY DEF PageInv, TypeOK, StoreType
  <2>10. PassShownIsConfirmed'
    BY <1>2, <2>5, <2>9 DEF PageInv, PassShownIsConfirmed, ShowsSigned, AccessData
  <2>11. SavedInStep' /\ SessionsKnown'
    BY <1>2, <2>5, <2>9 DEF PageInv, SavedInStep, SessionsKnown
  <2> QED
    BY <2>7, <2>8, <2>10, <2>11 DEF PageInv
<1>4. CASE calls[i].kind = "status"
  <2> DEFINE c == [calls[i] EXCEPT !.answer = life[calls[i].session]]
  <2>1. calls[i].session \in Memos /\ life[calls[i].session] \in Answers
    BY <1>1, <1>4 DEF CallsKnown
  <2>2. /\ c \in CallType /\ c.kind = "status" /\ c.answer = life[calls[i].session]
        /\ c.session = calls[i].session
    BY <1>1, <1>4, <2>1 DEF CallType
  <2>3. calls' = [calls EXCEPT ![i] = c] /\ life' = life
    BY <1>4 DEF ServerAnswers
  <2> HIDE DEF c
  <2>4. calls' \in Seq(CallType) /\ CallsKnown'
    <3>1. life'[c.session] # "never"
      BY <2>1, <2>2, <2>3 DEF Answers
    <3>2. c.answer = "confirmed" => life'[c.session] \in {"confirmed", "not_found"}
      BY <2>2, <2>3
    <3> QED
      BY <1>1, <2>1, <2>2, <2>3, <3>1, <3>2, CallReplaced
  <2>5. TypeOK'
    BY <1>2, <2>3, <2>4 DEF PageInv, TypeOK
  <2>6. PassShownIsConfirmed' /\ SavedInStep' /\ SessionsKnown'
    BY <1>2, <2>3, Left
  <2> QED
    BY <2>4, <2>5, <2>6 DEF PageInv
<1> QED
  BY <1>3, <1>4 DEF ServerAnswers

\* A failed attempt saves the store and asks again.
LEMMA AttemptFailsInv ==
  ASSUME PageInv, NEW i \in DOMAIN calls, AttemptFails(i)
  PROVE  PageInv'
<1>1. calls \in Seq(CallType) /\ calls[i] \in CallType /\ app \in StoreType /\ CallsKnown
  <2>1. calls \in Seq(CallType) /\ app \in StoreType /\ CallsKnown
    BY DEF PageInv, TypeOK
  <2> QED
    BY <2>1
<1>2. /\ app' = app /\ storage' = app /\ life' = life /\ loads' = loads
      /\ counting' = counting /\ poll_timer' = poll_timer
      /\ confirm_timer' = confirm_timer /\ lost_timers' = lost_timers
  BY DEF AttemptFails, timers
<1> DEFINE again == IF calls[i].kind = "post" THEN PostCall ELSE StatusCall(calls[i].session)
           c == [again EXCEPT !.tries = calls[i].tries + 1]
<1>3. calls[i].session \in Memos \union {None} /\ calls[i].tries + 1 \in 0 .. MaxRetries
  BY <1>1, PageBounds DEF CallType, AttemptFails
<1>4. /\ c \in CallType /\ c.kind = calls[i].kind /\ c.answer = "sent"
      /\ c.kind = "status" => c.session = calls[i].session
  BY <1>1, <1>3 DEF CallType, PostCall, StatusCall
<1>5. calls' = [calls EXCEPT ![i] = c]
  BY DEF AttemptFails
<1> HIDE DEF c
<1>6. calls' \in Seq(CallType) /\ CallsKnown'
  <2>1. c.answer # "confirmed" /\ c.answer # "opened" /\ c.answer \notin Answers
    BY <1>4 DEF Answers
  <2>2. c.kind = "status" => c.session \in Memos /\ life'[c.session] # "never"
    BY <1>2, <1>4, <1>1 DEF CallsKnown
  <2> QED
    BY <1>1, <1>2, <1>4, <1>5, <2>1, <2>2, CallReplaced
<1>7. TypeOK'
  BY <1>1, <1>2, <1>6 DEF PageInv, TypeOK
<1>8. PassShownIsConfirmed' /\ SavedInStep' /\ SessionsKnown'
  BY <1>1, <1>2, NoneAssumption
    DEF PageInv, PassShownIsConfirmed, ShowsSigned, SavedInStep, SessionsKnown
<1> QED
  BY <1>6, <1>7, <1>8 DEF PageInv

\* The last attempt fails.
LEMMA CallThrowsInv ==
  ASSUME PageInv, NEW i \in DOMAIN calls, CallThrows(i)
  PROVE  PageInv'
<1> USE DEF CallThrows, timers
<1>1. calls' \in Seq(CallType) /\ CallsKnown'
  BY RemoveCall, CallsKept DEF PageInv, TypeOK
<1>2. CASE Allowed(app.state, "ERROR")
  <2>1. /\ app' \in StoreType /\ storage' \in StoreType /\ app'.session = app.session
        /\ PassShownIsConfirmed' /\ SavedInStep' /\ SessionsKnown'
    BY <1>2, Saved DEF PageInv, TypeOK, SessionsKnown, States
  <2>2. TypeOK'
    BY <1>1, <2>1 DEF PageInv, TypeOK
  <2> QED
    BY <1>1, <2>1, <2>2 DEF PageInv
<1>3. CASE ~Allowed(app.state, "ERROR")
  <2>1. PassShownIsConfirmed' /\ SavedInStep' /\ SessionsKnown'
    BY <1>3, Left
  <2>2. TypeOK'
    BY <1>1, <1>3 DEF PageInv, TypeOK
  <2> QED
    BY <1>1, <2>1, <2>2 DEF PageInv
<1> QED
  BY <1>2, <1>3

\* The new session is taken in.
LEMMA PostReturnsInv ==
  ASSUME PageInv, NEW i \in DOMAIN calls, PostReturns(i)
  PROVE  PageInv'
<1> USE DEF PostReturns
<1> DEFINE a == [app EXCEPT !.session = calls[i].session, !.data = None]
<1>1. calls' \in Seq(CallType) /\ CallsKnown'
  BY RemoveCall, CallsKept DEF PageInv, TypeOK
<1>2. calls[i].session \in Memos /\ life[calls[i].session] # "never"
  BY DEF PageInv, CallsKnown
<1>3. a \in StoreType /\ a.session = calls[i].session /\ Store(a, "WAITING")
  BY <1>2 DEF PageInv, TypeOK, StoreType
<1> HIDE DEF a
<1>4. /\ app' \in StoreType /\ storage' \in StoreType /\ app'.session = calls[i].session
      /\ PassShownIsConfirmed' /\ SavedInStep' /\ SessionsKnown'
  BY <1>2, <1>3, Saved DEF States
<1>5. TypeOK'
  BY <1>1, <1>2, <1>4, NoneAssumption DEF PageInv, TypeOK
<1> QED
  BY <1>1, <1>4, <1>5 DEF PageInv

\* A status answer arrives: what the three handlers have in common.
LEMMA AnswerTaken ==
  ASSUME PageInv, NEW i \in DOMAIN calls, calls[i].answer \in Answers,
         calls' = RemoveAt(calls, i), life' = life
  PROVE  /\ calls' \in Seq(CallType) /\ CallsKnown'
         /\ With(calls[i]) \in StoreType
         /\ With(calls[i]).session = app.session /\ With(calls[i]).state = app.state
         /\ app.session # None => life[app.session] # "never"
         /\ calls[i].answer = "confirmed" =>
              /\ With(calls[i]).data # None /\ With(calls[i]).data.status = "confirmed"
              /\ life[With(calls[i]).data.session] \in {"confirmed", "not_found"}
<1>1. calls' \in Seq(CallType) /\ CallsKnown'
  BY RemoveCall, CallsKept DEF PageInv, TypeOK
<1>2. app.session # None => life[app.session] # "never"
  BY DEF PageInv, SessionsKnown
<1>3. calls[i].answer = "confirmed" => life[calls[i].session] \in {"confirmed", "not_found"}
  BY DEF PageInv, CallsKnown
<1> QED
  BY <1>1, <1>2, <1>3, WithType

LEMMA ExpiredInv ==
  ASSUME PageInv, NEW i \in DOMAIN calls, handleExpired(i)
  PROVE  PageInv'
<1> USE DEF handleExpired, timers
<1> DEFINE a == With(calls[i])
           to == IF Allowed(app.state, "EXPIRED") THEN "EXPIRED" ELSE "ERROR"
<1>1. /\ calls' \in Seq(CallType) /\ CallsKnown'
      /\ a \in StoreType /\ a.session = app.session
      /\ a.session # None => life[a.session] # "never"
  BY AnswerTaken DEF Answers
<1>2. to \in States /\ to \notin {"DETECTED", "CONFIRMED"} /\ Store(a, to)
  BY DEF States
<1> HIDE DEF a, to
<1>3. /\ app' \in StoreType /\ storage' \in StoreType /\ app'.session = a.session
      /\ PassShownIsConfirmed' /\ SavedInStep' /\ SessionsKnown'
  BY <1>1, <1>2, Saved
<1>4. TypeOK'
  BY <1>1, <1>3 DEF PageInv, TypeOK
<1> QED
  BY <1>1, <1>3, <1>4 DEF PageInv

LEMMA ConfirmedInv ==
  ASSUME PageInv, NEW i \in DOMAIN calls, handleConfirmed(i)
  PROVE  PageInv'
<1> USE DEF handleConfirmed
<1>1. /\ calls' \in Seq(CallType) /\ CallsKnown' /\ With(calls[i]) \in StoreType
      /\ With(calls[i]).session = app.session
      /\ With(calls[i]).session # None => life[With(calls[i]).session] # "never"
      /\ With(calls[i]).data # None /\ With(calls[i]).data.status = "confirmed"
      /\ life[With(calls[i]).data.session] \in {"confirmed", "not_found"}
  BY AnswerTaken DEF Answers
<1>2. app.state # "WAITING" =>
      /\ app' \in StoreType /\ app'.session = app.session
      /\ storage' \in StoreType \union {None}
      /\ PassShownIsConfirmed' /\ SavedInStep' /\ SessionsKnown'
  BY Taken DEF Answers, PageInv, TypeOK
<1>3. app.state = "WAITING" => Store(With(calls[i]), "DETECTED") /\ life' = life
  OBVIOUS
<1>4. ASSUME app.state = "WAITING"
      PROVE  /\ app' \in StoreType /\ storage' \in StoreType
             /\ app'.session = With(calls[i]).session
             /\ PassShownIsConfirmed' /\ SavedInStep' /\ SessionsKnown'
  <2> HIDE DEF handleConfirmed
  <2>1. Store(With(calls[i]), "DETECTED") /\ life' = life /\ "DETECTED" \in States
    BY <1>3, <1>4 DEF States
  <2> QED
    BY <1>1, <2>1, Saved
<1>5. lost_timers' \in Nat
  <2>1. lost_timers \in Nat
    BY DEF PageInv, TypeOK
  <2> QED
    BY <2>1
<1>6. TypeOK'
  BY <1>1, <1>2, <1>4, <1>5 DEF PageInv, TypeOK
<1> QED
  BY <1>1, <1>2, <1>4, <1>6 DEF PageInv

LEMMA WaitingInv ==
  ASSUME PageInv, NEW i \in DOMAIN calls, handleWaiting(i)
  PROVE  PageInv'
<1> USE DEF handleWaiting
<1>1. /\ calls' \in Seq(CallType) /\ CallsKnown' /\ With(calls[i]) \in StoreType
      /\ With(calls[i]).session = app.session
      /\ With(calls[i]).session # None => life[With(calls[i]).session] # "never"
  BY AnswerTaken DEF Answers
<1>2. app.state = "WAITING" =>
      /\ app' \in StoreType /\ app'.session = app.session
      /\ storage' \in StoreType \union {None}
      /\ PassShownIsConfirmed' /\ SavedInStep' /\ SessionsKnown'
  BY Taken DEF Answers, PageInv, TypeOK
<1>3. app.state # "WAITING" => Store(With(calls[i]), "WAITING") /\ life' = life
  OBVIOUS
<1>4. ASSUME app.state # "WAITING"
      PROVE  /\ app' \in StoreType /\ storage' \in StoreType
             /\ app'.session = With(calls[i]).session
             /\ PassShownIsConfirmed' /\ SavedInStep' /\ SessionsKnown'
  <2> HIDE DEF handleWaiting
  <2>1. Store(With(calls[i]), "WAITING") /\ life' = life /\ "WAITING" \in States
    BY <1>3, <1>4 DEF States
  <2> QED
    BY <1>1, <2>1, Saved
<1>5. TypeOK'
  BY <1>1, <1>2, <1>4 DEF PageInv, TypeOK
<1> QED
  BY <1>1, <1>2, <1>4, <1>5 DEF PageInv

LEMMA StepInv ==
  ASSUME PageInv, [Next]_allVars
  PROVE  PageInv'
<1>1. CASE LifeNext /\ UNCHANGED pageVars
  BY <1>1, ServerInv
<1>2. CASE restore
  BY <1>2, RestoreInv
<1>3. CASE Click
  BY <1>3, ClickInv
<1>4. CASE updateCountdown
  BY <1>4, CountdownInv
<1>5. CASE checkStatus
  BY <1>5, PollInv
<1>6. CASE ConfirmTimer
  BY <1>6, ConfirmTimerInv
<1>7. ASSUME NEW i \in DOMAIN calls,
             \/ ServerAnswers(i) \/ AttemptFails(i) \/ CallThrows(i) \/ PostReturns(i)
             \/ handleExpired(i) \/ handleConfirmed(i) \/ handleWaiting(i)
      PROVE  PageInv'
  BY <1>7, ServerAnswersInv, AttemptFailsInv, CallThrowsInv, PostReturnsInv,
     ExpiredInv, ConfirmedInv, WaitingInv
<1>8. CASE UNCHANGED allVars
  BY <1>8 DEF allVars, pageVars, timers, PageInv, TypeOK, PassShownIsConfirmed,
     ShowsSigned, SavedInStep, CallsKnown, SessionsKnown
<1> QED
  BY <1>1, <1>2, <1>3, <1>4, <1>5, <1>6, <1>7, <1>8 DEF Next, CallStep

-----------------------------------------------------------------------------
(* The theorems.                                                           *)

\* The inductive invariant of the page holds for any number of sessions,
\* retries, calls in flight and loads.
THEOREM PageInvariant == Spec => []PageInv
<1>1. PageInv /\ [Next]_allVars => PageInv'
  BY StepInv
<1> QED
  BY InitInv, <1>1, PTL DEF Spec

\* checkout.html shows a pass (DETECTED, CONFIRMED) only when the server has
\* signed it, whatever the order of answers, timers, clicks and reloads.
THEOREM ShownIsConfirmed == Spec => []PassShownIsConfirmed
<1>1. PageInv => PassShownIsConfirmed
  BY DEF PageInv
<1> QED
  BY PageInvariant, <1>1, PTL

\* What a reload restores is what the page had: saveState after every change of
\* state or session.
THEOREM SavedAlways == Spec => []SavedInStep
<1>1. PageInv => SavedInStep
  BY DEF PageInv
<1> QED
  BY PageInvariant, <1>1, PTL

\* Types hold in every reachable state of the page.
THEOREM TypeCorrect == Spec => []TypeOK
<1>1. PageInv => TypeOK
  BY DEF PageInv
<1> QED
  BY PageInvariant, <1>1, PTL

-----------------------------------------------------------------------------
(* No page is forgotten.                                                   *)

\* Removing a call leaves every other one.
LEMMA OthersStay ==
  ASSUME calls \in Seq(CallType), NEW i \in DOMAIN calls, NEW k \in DOMAIN calls, k # i
  PROVE  \E j \in DOMAIN RemoveAt(calls, i) : RemoveAt(calls, i)[j] = calls[k]
<1> DEFINE left == SubSeq(calls, 1, i - 1)
           right == SubSeq(calls, i + 1, Len(calls))
<1>1. left \in Seq(CallType) /\ right \in Seq(CallType)
  <2> HIDE DEF CallType
  <2> QED
    OBVIOUS
<1>2. /\ Len(left) = i - 1 /\ \A j \in 1 .. Len(left) : left[j] = calls[j]
      /\ Len(right) = Len(calls) - i
      /\ \A j \in 1 .. Len(right) : right[j] = calls[i + j]
      /\ DOMAIN calls = 1 .. Len(calls) /\ Len(calls) \in Nat /\ i \in Nat /\ k \in Nat
  <2> HIDE DEF CallType
  <2>1. DOMAIN calls = 1 .. Len(calls) /\ Len(calls) \in Nat
    OBVIOUS
  <2>2. i \in 1 .. Len(calls) /\ i \in Nat /\ k \in Nat
    BY <2>1
  <2>3. Len(left) = i - 1 /\ \A j \in 1 .. Len(left) : left[j] = calls[j]
    BY <2>2
  <2>4. Len(right) = Len(calls) - i
    BY <2>2
  <2>5. \A j \in 1 .. Len(right) : right[j] = calls[i + j]
    BY <2>2, <2>4
  <2> QED
    BY <2>1, <2>2, <2>3, <2>4, <2>5
<1>3. RemoveAt(calls, i) = left \o right
  BY DEF RemoveAt
<1> HIDE DEF left, right, CallType
<1>4. DOMAIN (left \o right) = 1 .. Len(left) + Len(right)
  BY <1>1
<1>5. CASE k < i
  <2>1. k \in 1 .. Len(left) /\ k \in 1 .. Len(left) + Len(right)
    BY <1>2, <1>5
  <2>2. (left \o right)[k] = left[k]
    BY <1>1, <2>1
  <2> QED
    BY <1>2, <1>3, <1>4, <2>1, <2>2
<1>6. CASE k > i
  <2>1. k - i \in 1 .. Len(right) /\ k - 1 \in 1 .. Len(left) + Len(right)
        /\ k - 1 > Len(left) /\ (k - 1) - Len(left) = k - i /\ i + (k - i) = k
    BY <1>2, <1>6
  <2>2. (left \o right)[k - 1] = right[k - i]
    BY <1>1, <2>1
  <2>3. right[k - i] = calls[k]
    BY <1>2, <2>1
  <2> QED
    BY <1>3, <1>4, <2>1, <2>2, <2>3
<1> QED
  BY <1>2, <1>5, <1>6

Posting == \E i \in DOMAIN calls : calls[i].kind = "post"

\* A POST asked for is a call under way.
LEMMA PostAsked ==
  ASSUME NEW others \in Seq(CallType), calls' = Append(others, PostCall)
  PROVE  Posting'
<1>1. PostCall \in [kind : {"post"}, session : {None}, answer : {"sent"}, tries : {0}]
  BY DEF PostCall
<1>2. Len(others) + 1 \in DOMAIN calls' /\ calls'[Len(others) + 1] = PostCall
  <2> HIDE DEF CallType
  <2> QED
    OBVIOUS
<1> QED
  BY <1>1, <1>2 DEF Posting

LEMMA TimedStep ==
  ASSUME PageInv, WaitingIsTimed, [Next]_allVars
  PROVE  WaitingIsTimed'
<1> USE DEF WaitingIsTimed
<1> DEFINE Waits == app.state \in {"WAITING", "DETECTED"}
<1>0. /\ app \in StoreType /\ calls \in Seq(CallType)
      /\ \A i \in DOMAIN calls : calls[i] \in CallType
  BY DEF PageInv, TypeOK
<1>1. CASE UNCHANGED <<app, calls, counting>>
  BY <1>1
<1>2. CASE Click
  BY <1>0, <1>2, PostAsked DEF Click, createPaymentSession, Posting
<1>3. CASE restore
  <2>1. CASE storage = None
    <3>1. << >> \in Seq(CallType)
      OBVIOUS
    <3> QED
      BY <1>3, <2>1, <3>1, PostAsked DEF restore, createPaymentSession, Posting
  <2>2. CASE storage # None
    <3>1. storage \in StoreType
      BY <2>2 DEF PageInv, TypeOK
    <3>2. /\ \/ app'.state \in {"EXPIRED", "CONFIRMED", "ERROR"}
             \/ counting' = TRUE
      BY <1>3, <2>2, <3>1 DEF restore, Store, StoreType
    <3> QED
      BY <3>2
  <2> QED
    BY <2>1, <2>2
<1>4. CASE updateCountdown
  BY <1>0, <1>4 DEF updateCountdown, Store, StoreType
<1>5. CASE checkStatus
  <2>1. CASE UNCHANGED calls
    BY <1>5, <2>1 DEF checkStatus
  <2>2. CASE calls' = Append(calls, StatusCall(app.session))
    <3>1. \A k \in DOMAIN calls : k \in DOMAIN calls' /\ calls'[k] = calls[k]
      <4> HIDE DEF CallType
      <4> QED
        BY <1>0, <2>2
    <3> QED
      BY <1>5, <3>1 DEF checkStatus
  <2> QED
    BY <1>5, <2>1, <2>2 DEF checkStatus
<1>6. CASE ConfirmTimer
  BY <1>0, <1>6 DEF ConfirmTimer, Store, StoreType
<1>7. ASSUME NEW i \in DOMAIN calls, ServerAnswers(i) \/ AttemptFails(i)
      PROVE  WaitingIsTimed'
  <2>1. DOMAIN calls' = DOMAIN calls /\ \A k \in DOMAIN calls : calls'[k].kind = calls[k].kind
    <3>1. CASE ServerAnswers(i)
      BY <1>0, <3>1 DEF ServerAnswers, CallType
    <3>2. CASE AttemptFails(i)
      <4> DEFINE again == IF calls[i].kind = "post" THEN PostCall ELSE StatusCall(calls[i].session)
      <4>1. calls[i].kind \in {"post", "status"}
        BY <1>0 DEF CallType
      <4>2. calls' = [calls EXCEPT ![i] = [again EXCEPT !.tries = calls[i].tries + 1]]
        BY <3>2 DEF AttemptFails
      <4>3. [again EXCEPT !.tries = calls[i].tries + 1].kind = calls[i].kind
        BY <4>1 DEF PostCall, StatusCall
      <4> HIDE DEF again, CallType
      <4> QED
        BY <1>0, <4>2, <4>3
    <3> QED
      BY <1>7, <3>1, <3>2
  <2> QED
    BY <1>7, <2>1 DEF ServerAnswers, AttemptFails, timers
<1>8. ASSUME NEW i \in DOMAIN calls, CallThrows(i) \/ handleExpired(i)
      PROVE  WaitingIsTimed'
  <2>1. CASE handleExpired(i)
    <3>1. With(calls[i]) \in StoreType
      BY <2>1, WithType DEF handleExpired, Answers
    <3>2. app'.state \in {"EXPIRED", "ERROR"}
      BY <2>1, <3>1 DEF handleExpired, Store, StoreType
    <3> QED
      BY <3>2
  <2>2. CASE CallThrows(i)
    <3>1. app.state \in {"WAITING", "DETECTED"} => Allowed(app.state, "ERROR")
      BY DEF Allowed, TRANSITIONS
    <3>2. app'.state = "ERROR" \/ (app' = app /\ ~Allowed(app.state, "ERROR"))
      BY <1>0, <2>2 DEF CallThrows, Store, StoreType
    <3> QED
      BY <3>1, <3>2
  <2> QED
    BY <1>8, <2>1, <2>2
<1>9. ASSUME NEW i \in DOMAIN calls, PostReturns(i) \/ handleWaiting(i)
      PROVE  WaitingIsTimed'
  BY <1>9 DEF PostReturns, handleWaiting
<1>10. ASSUME NEW i \in DOMAIN calls, handleConfirmed(i)
       PROVE  WaitingIsTimed'
  <2>1. calls[i].kind = "status" /\ calls' = RemoveAt(calls, i) /\ counting' = counting
    BY <1>10 DEF handleConfirmed, PageInv, CallsKnown, Answers
  <2>2. app'.state \in {"WAITING", "DETECTED"} => Waits
    BY <1>0, <1>10 DEF handleConfirmed, Store, With, StoreType
  <2>3. Posting => Posting'
    BY <1>0, <2>1, OthersStay DEF Posting
  <2> QED
    BY <2>1, <2>2, <2>3 DEF Posting
<1> QED
  BY <1>1, <1>2, <1>3, <1>4, <1>5, <1>6, <1>7, <1>8, <1>9, <1>10
     DEF Next, CallStep, allVars, pageVars

\* checkout.html waits only while its countdown runs or the POST that starts it
\* is under way: no order of answers, timers and clicks leaves it without both.
THEOREM NeverForgotten == Spec => []WaitingIsTimed
<1>1. Init => WaitingIsTimed
  BY DEF Init, createInitialStore, WaitingIsTimed
<1>2. PageInv /\ WaitingIsTimed /\ [Next]_allVars => WaitingIsTimed'
  BY TimedStep
<1> QED
  BY <1>1, <1>2, PageInvariant, PTL DEF Spec

-----------------------------------------------------------------------------
(* Where answers come from.                                                *)

\* A call that says "confirmed" did so before, or says now what the server answers.
LEMMA CallsTraced ==
  ASSUME PageInv, [Next]_allVars, NEW j \in DOMAIN calls', calls'[j].answer = "confirmed"
  PROVE  \/ \E k \in DOMAIN calls : calls'[j] = calls[k]
         \/ calls'[j].session \in Memos /\ life[calls'[j].session] = "confirmed"
<1>0. calls \in Seq(CallType) /\ \A k \in DOMAIN calls : calls[k] \in CallType
  <2>1. calls \in Seq(CallType)
    BY DEF PageInv, TypeOK
  <2> HIDE DEF CallType
  <2> QED
    BY <2>1
<1>1. CASE calls' = calls
  BY <1>1
<1>2. ASSUME NEW others \in Seq(CallType), others = calls \/ others = << >>,
             NEW c, c.answer = "sent", calls' = Append(others, c)
      PROVE  \E k \in DOMAIN calls : calls'[j] = calls[k]
  <2>1. calls'[j] = c \/ (j \in DOMAIN others /\ calls'[j] = others[j])
    <3> HIDE DEF CallType
    <3> QED
      BY <1>2
  <2>2. j \in DOMAIN others => j \in DOMAIN calls /\ others[j] = calls[j]
    BY <1>2
  <2> QED
    BY <1>2, <2>1, <2>2
<1>3. PostCall.answer = "sent" /\ \A m : StatusCall(m).answer = "sent"
  BY DEF PostCall, StatusCall
<1>4. << >> \in Seq(CallType)
  OBVIOUS
<1>5. CASE restore \/ Click
  <2>1. CASE \E a : createPaymentSession(a, calls) \/ createPaymentSession(a, << >>)
    <3>1. calls' = Append(calls, PostCall) \/ calls' = Append(<< >>, PostCall)
      BY <2>1 DEF createPaymentSession
    <3> HIDE DEF CallType
    <3> QED
      BY <1>0, <1>2, <1>3, <1>4, <3>1
  <2>2. CASE calls' = << >>
    BY <2>2
  <2> QED
    BY <1>5, <2>1, <2>2 DEF restore, Click
<1>6. CASE checkStatus
  <2>1. calls' = calls \/ calls' = Append(calls, StatusCall(app.session))
    BY <1>6 DEF checkStatus
  <2> HIDE DEF CallType
  <2> QED
    BY <1>0, <1>1, <1>2, <1>3, <2>1
<1>7. ASSUME NEW i \in DOMAIN calls, calls' = RemoveAt(calls, i)
      PROVE  \E k \in DOMAIN calls : calls'[j] = calls[k]
  BY <1>0, <1>7, RemoveCall
<1>8. ASSUME NEW i \in DOMAIN calls, NEW c, calls' = [calls EXCEPT ![i] = c], j # i
      PROVE  \E k \in DOMAIN calls : calls'[j] = calls[k]
  BY <1>8
<1>9. ASSUME NEW i \in DOMAIN calls, ServerAnswers(i)
      PROVE  \/ \E k \in DOMAIN calls : calls'[j] = calls[k]
             \/ calls'[j].session \in Memos /\ life[calls'[j].session] = "confirmed"
  <2>1. ASSUME NEW m \in Memos, calls' = [calls EXCEPT ![i].answer = "opened", ![i].session = m]
        PROVE  \E k \in DOMAIN calls : calls'[j] = calls[k]
    BY <1>0, <2>1 DEF CallType
  <2>2. CASE calls[i].kind = "status" /\ calls' = [calls EXCEPT ![i].answer = life[calls[i].session]]
    <3>1. calls[i].session \in Memos
      BY <2>2 DEF PageInv, CallsKnown
    <3>2. CASE j = i
      <4>1. calls'[i] = [calls[i] EXCEPT !.answer = life[calls[i].session]]
        BY <2>2
      <4>2. /\ calls'[i].session = calls[i].session
            /\ calls'[i].answer = life[calls[i].session]
        BY <1>0, <4>1 DEF CallType
      <4> QED
        BY <3>1, <3>2, <4>2
    <3>3. CASE j # i
      BY <2>2, <3>3
    <3> QED
      BY <3>2, <3>3
  <2> QED
    BY <1>9, <2>1, <2>2 DEF ServerAnswers
<1>10. ASSUME NEW i \in DOMAIN calls, AttemptFails(i)
       PROVE  \E k \in DOMAIN calls : calls'[j] = calls[k]
  <2> DEFINE again == IF calls[i].kind = "post" THEN PostCall ELSE StatusCall(calls[i].session)
             c == [again EXCEPT !.tries = calls[i].tries + 1]
  <2>1. calls' = [calls EXCEPT ![i] = c]
    BY <1>10 DEF AttemptFails
  <2>2. c.answer = "sent"
    BY DEF PostCall, StatusCall
  <2> HIDE DEF c, again, CallType
  <2>3. j # i
    BY <2>1, <2>2
  <2> QED
    BY <1>8, <2>1, <2>3
<1>11. ASSUME NEW i \in DOMAIN calls,
              \/ CallThrows(i) \/ PostReturns(i) \/ handleExpired(i)
              \/ handleConfirmed(i) \/ handleWaiting(i)
       PROVE  \E k \in DOMAIN calls : calls'[j] = calls[k]
  <2>1. calls' = RemoveAt(calls, i)
    BY <1>11 DEF CallThrows, PostReturns, handleExpired, handleConfirmed, handleWaiting
  <2> QED
    BY <1>7, <2>1
<1>12. \/ calls' = calls \/ restore \/ Click \/ checkStatus \/ CallStep
  BY DEF Next, allVars, pageVars, updateCountdown, ConfirmTimer
<1> QED
  BY <1>1, <1>5, <1>6, <1>9, <1>10, <1>11, <1>12 DEF CallStep

\* The answer the store holds was in it, or in its copy, or was just given by a call;
\* and localStorage is only ever written from the store.
LEMMA DataTraced ==
  ASSUME PageInv, [Next]_allVars
  PROVE  /\ storage' \in {storage, app, app'}
         /\ \/ app'.data \in {None, app.data}
            \/ storage # None /\ app'.data = storage.data
            \/ \E k \in DOMAIN calls :
                 app'.data = [session |-> calls[k].session, status |-> calls[k].answer]
<1>0. app \in StoreType /\ (storage # None => storage \in StoreType)
  BY DEF PageInv, TypeOK
<1>1. CASE UNCHANGED <<app, storage>>
  BY <1>1
<1>3. ASSUME NEW a \in StoreType, NEW to, Store(a, to)
      PROVE  app'.data = a.data /\ storage' = app'
  BY <1>3 DEF Store, StoreType
<1>4. ASSUME NEW a \in StoreType, NEW others, createPaymentSession(a, others)
      PROVE  app'.data = None /\ storage' = app'
  <2> DEFINE b == [a EXCEPT !.session = None, !.data = None]
  <2>1. b \in StoreType /\ b.data = None
    BY DEF StoreType
  <2>2. Store(b, "WAITING")
    BY <1>4 DEF createPaymentSession
  <2> HIDE DEF b
  <2> QED
    BY <1>3, <2>1, <2>2
<1>5. CASE restore
  <2>1. CASE storage = None
    <3>1. createInitialStore \in StoreType
      BY DEF createInitialStore, StoreType, States
    <3>2. createPaymentSession(createInitialStore, << >>)
      BY <1>5, <2>1 DEF restore
    <3> QED
      BY <1>4, <3>1, <3>2
  <2>2. CASE storage # None
    <3>1. \E to : Store(storage, to)
      BY <1>5, <2>2 DEF restore
    <3> QED
      BY <1>0, <1>3, <2>2, <3>1
  <2> QED
    BY <2>1, <2>2
<1>6. CASE Click
  BY <1>0, <1>4, <1>6 DEF Click
<1>7. CASE updateCountdown \/ ConfirmTimer
  <2>1. UNCHANGED <<app, storage>> \/ \E to : Store(app, to)
    BY <1>7 DEF updateCountdown, ConfirmTimer
  <2> QED
    BY <1>0, <1>1, <1>3, <2>1
<1>8. ASSUME NEW i \in DOMAIN calls,
             ServerAnswers(i) \/ AttemptFails(i) \/ CallThrows(i)
      PROVE  /\ storage' \in {storage, app, app'} /\ app'.data = app.data
  <2>1. \/ UNCHANGED <<app, storage>> \/ (app' = app /\ storage' = app)
        \/ \E to : Store(app, to)
    BY <1>8 DEF ServerAnswers, AttemptFails, CallThrows
  <2> QED
    BY <1>0, <1>3, <2>1
<1>9. ASSUME NEW i \in DOMAIN calls, PostReturns(i)
      PROVE  app'.data = None /\ storage' = app'
  BY <1>0, <1>9 DEF PostReturns, Store, StoreType
<1>10. ASSUME NEW i \in DOMAIN calls,
              handleExpired(i) \/ handleConfirmed(i) \/ handleWaiting(i)
       PROVE  /\ storage' \in {storage, app'}
              /\ app'.data = [session |-> calls[i].session, status |-> calls[i].answer]
  <2> DEFINE a == With(calls[i])
  <2>1. calls[i].answer \in Answers
    BY <1>10 DEF handleExpired, handleConfirmed, handleWaiting, Answers
  <2>2. /\ a \in StoreType
        /\ a.data = [session |-> calls[i].session, status |-> calls[i].answer]
    BY <1>0, <2>1, WithType DEF With, StoreType
  <2>3. (\E to : Store(a, to)) \/ (app' = a /\ storage' = storage)
    BY <1>10 DEF handleExpired, handleConfirmed, handleWaiting
  <2> HIDE DEF a
  <2> QED
    BY <1>3, <2>2, <2>3
<1>11. CASE checkStatus \/ (LifeNext /\ UNCHANGED pageVars) \/ UNCHANGED allVars
  BY <1>11 DEF checkStatus, pageVars, allVars
<1> QED
  BY <1>5, <1>6, <1>7, <1>8, <1>9, <1>10, <1>11 DEF Next, CallStep
=============================================================================
