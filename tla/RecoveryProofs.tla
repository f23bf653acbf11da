---------------------------- MODULE RecoveryProofs ----------------------------
(* Proofs about RecoveryPage: for any number of sessions and loads, either   *)
(* build, and whatever other tabs do to localStorage.                        *)
EXTENDS RecoveryPage, TLAPS

-----------------------------------------------------------------------------
(* The server's side.                                                      *)

\* A session goes on existing, a signed one stays signed until it is forgotten,
\* and a forgotten one does not come back.
LEMMA LifeGoesOn ==
  ASSUME life \in [Memos -> Answers \union {"never"}], LifeNext
  PROVE  /\ life' \in [Memos -> Answers \union {"never"}]
         /\ \A m \in Memos :
              /\ life[m] # "never" => life'[m] # "never"
              /\ life[m] \in {"confirmed", "not_found"}
                   => life'[m] \in {"confirmed", "not_found"}
              /\ life[m] = "not_found" => life'[m] = "not_found"
BY DEF LifeNext, Open, Settle, Expire, Forget, Answers

\* What the invariant says of the server's side survives any of its steps.
LEMMA LifeStep ==
  ASSUME RecoveryInv, LifeNext, UNCHANGED <<fixed, store, stored, awaits, poll, loads>>,
         asked' = asked, post' = post
  PROVE  RecoveryInv'
<1> USE DEF RecoveryInv, fixed
<1>1. TypeOK'
  BY LifeGoesOn DEF TypeOK
<1>2. RequestsTrue'
  BY LifeGoesOn DEF RequestsTrue, TypeOK
<1>3. SessionsKnown'
  BY LifeGoesOn DEF SessionsKnown, TypeOK
<1>4. GoneStaysGone' /\ PassShownIsSigned'
  BY LifeGoesOn DEF GoneStaysGone, PassShownIsSigned, TypeOK, StoreType
<1>5. AwaitsAgree' /\ StoredIsShown' /\ AlwaysAsking' /\ StrictBuildHangs'
  BY DEF AwaitsAgree, StoredIsShown, AlwaysAsking, StrictBuildHangs
<1> QED
  BY <1>1, <1>2, <1>3, <1>4, <1>5

\* Opening a session is such a step.
LEMMA OpenStep ==
  ASSUME RecoveryInv, NEW m \in Memos, Open(m)
  PROVE  /\ life' \in [Memos -> Answers \union {"never"}]
         /\ life'[m] # "never"
         /\ \A n \in Memos : life[n] # "never" => life'[n] = life[n]
BY DEF RecoveryInv, TypeOK, Open, Answers

-----------------------------------------------------------------------------
(* The page.  Where the server's side stays, its facts are read off.       *)

LEMMA InitInv == Init => RecoveryInv
<1> SUFFICES ASSUME Init PROVE RecoveryInv
  OBVIOUS
<1> USE NamesAssumption, LoadsAssumption DEF Init, LifeInit, initialState, NoRequests
<1>1. TypeOK
  BY DEF TypeOK, StoreType, Statuses, Answers
<1>2. RequestsTrue /\ SessionsKnown /\ GoneStaysGone /\ AwaitsAgree
  BY DEF RequestsTrue, SessionsKnown, GoneStaysGone, AwaitsAgree
<1>3. PassShownIsSigned /\ StoredIsShown /\ AlwaysAsking /\ StrictBuildHangs
  BY DEF PassShownIsSigned, StoredIsShown, AlwaysAsking, StrictBuildHangs
<1> QED
  BY <1>1, <1>2, <1>3 DEF RecoveryInv

\* In a production build, and only there, the mount effect lives.
LEMMA LiveBuild == strict \in BOOLEAN => (MountedLive <=> ~strict)
BY DEF MountedLive, RunEffect, CleanUp, Unmounted

LEMMA InitializeInv ==
  ASSUME RecoveryInv, initialize
  PROVE  RecoveryInv'
<1> USE NamesAssumption DEF initialize, fixed, initialState, NoRequests, RecoveryInv
<1>0. MountedLive <=> ~strict
  BY LiveBuild DEF TypeOK
<1>1. TypeOK'
  BY LoadsAssumption DEF TypeOK, StoreType, Statuses
<1>2. RequestsTrue'
  BY DEF RequestsTrue, SessionsKnown, TypeOK
<1>3. SessionsKnown' /\ GoneStaysGone'
  BY DEF SessionsKnown, GoneStaysGone, TypeOK
<1>4. AwaitsAgree'
  BY <1>0 DEF AwaitsAgree, TypeOK
<1>5. AlwaysAsking'
  BY <1>0 DEF AlwaysAsking, TypeOK
<1>6. PassShownIsSigned' /\ StoredIsShown' /\ StrictBuildHangs'
  BY DEF PassShownIsSigned, StoredIsShown, StrictBuildHangs
<1> QED
  BY <1>1, <1>2, <1>3, <1>4, <1>5, <1>6

LEMMA RestartSessionInv ==
  ASSUME RecoveryInv, restartSession
  PROVE  RecoveryInv'
<1> USE NamesAssumption
    DEF restartSession, Render, requestNewSession, PollEffect, fixed, initialState, RecoveryInv
<1>0. store' = initialState /\ poll' = "off"
  BY DEF TypeOK, StoreType
<1>1. TypeOK'
  BY <1>0 DEF TypeOK, StoreType, Statuses
<1>2. RequestsTrue' /\ SessionsKnown' /\ GoneStaysGone'
  BY <1>0 DEF RequestsTrue, SessionsKnown, GoneStaysGone
<1>3. AwaitsAgree'
  BY <1>0 DEF AwaitsAgree, StrictBuildHangs
<1>4. AlwaysAsking'
  BY <1>0 DEF AlwaysAsking
<1>5. PassShownIsSigned' /\ StoredIsShown' /\ StrictBuildHangs'
  BY <1>0 DEF PassShownIsSigned, StoredIsShown, StrictBuildHangs
<1> QED
  BY <1>1, <1>2, <1>3, <1>4, <1>5

LEMMA PollTimerInv ==
  ASSUME RecoveryInv, pollTimer
  PROVE  RecoveryInv'
<1> USE NamesAssumption DEF pollTimer, requestPaymentStatus, fixed, RecoveryInv
<1>0. store.sessionId \in Memos /\ life[store.sessionId] # "never"
  BY DEF TypeOK, StoreType, SessionsKnown
<1>1. TypeOK'
  BY DEF TypeOK
<1>2. RequestsTrue' /\ SessionsKnown' /\ GoneStaysGone'
  BY <1>0 DEF RequestsTrue, SessionsKnown, GoneStaysGone, TypeOK
<1>3. AwaitsAgree' /\ AlwaysAsking'
  BY <1>0 DEF AwaitsAgree, AlwaysAsking, TypeOK
<1>4. PassShownIsSigned' /\ StoredIsShown' /\ StrictBuildHangs'
  BY DEF PassShownIsSigned, StoredIsShown, StrictBuildHangs
<1> QED
  BY <1>1, <1>2, <1>3, <1>4

\* A POST ends.
LEMMA CreatePaymentInv ==
  ASSUME RecoveryInv, createPayment
  PROVE  RecoveryInv'
<1> USE NamesAssumption DEF createPayment, fixed, RecoveryInv
<1>1. CASE post' = "failed" /\ UNCHANGED life
  <2> USE <1>1
  <2>1. TypeOK' /\ RequestsTrue' /\ SessionsKnown' /\ GoneStaysGone'
    BY DEF TypeOK, RequestsTrue, SessionsKnown, GoneStaysGone
  <2>2. AwaitsAgree' /\ AlwaysAsking'
    BY DEF AwaitsAgree, AlwaysAsking
  <2>3. PassShownIsSigned' /\ StoredIsShown' /\ StrictBuildHangs'
    BY DEF PassShownIsSigned, StoredIsShown, StrictBuildHangs
  <2> QED
    BY <2>1, <2>2, <2>3
<1>2. ASSUME NEW m \in Memos, Open(m), post' = m
      PROVE  RecoveryInv'
  <2> USE <1>2
  <2>0. /\ life' \in [Memos -> Answers \union {"never"}] /\ life'[m] # "never"
        /\ \A n \in Memos : life[n] # "never" => life'[n] = life[n]
    BY OpenStep
  <2>1. TypeOK'
    BY <2>0 DEF TypeOK
  <2>2. RequestsTrue'
    BY <2>0 DEF RequestsTrue
  <2>3. SessionsKnown'
    BY <2>0 DEF SessionsKnown
  <2>4. GoneStaysGone' /\ PassShownIsSigned'
    BY <2>0 DEF GoneStaysGone, PassShownIsSigned, TypeOK, StoreType
  <2>5. AwaitsAgree' /\ AlwaysAsking'
    BY DEF AwaitsAgree, AlwaysAsking
  <2>6. StoredIsShown' /\ StrictBuildHangs'
    BY DEF StoredIsShown, StrictBuildHangs
  <2> QED
    BY <2>1, <2>2, <2>3, <2>4, <2>5, <2>6
<1> QED
  BY <1>1, <1>2

\* A GET ends: it was asked about a session that exists.
LEMMA StatusEndsInv ==
  ASSUME RecoveryInv, NEW m \in Memos, getPaymentStatus(m) \/ requestFails(m)
  PROVE  RecoveryInv'
<1> USE DEF getPaymentStatus, requestFails, fixed, RecoveryInv
<1>1. /\ asked' \in [Memos -> Answers \union {"none", "sent", "failed"}]
      /\ asked'[m] \in {life[m], "failed"} /\ asked'[m] # "none"
      /\ \A n \in Memos : n # m => asked'[n] = asked[n]
  BY DEF TypeOK, RequestsTrue, Answers
<1>2. TypeOK' /\ SessionsKnown'
  BY <1>1 DEF TypeOK, SessionsKnown
<1>3. RequestsTrue' /\ GoneStaysGone'
  BY <1>1 DEF RequestsTrue, GoneStaysGone, TypeOK, StoreType
<1>4. AwaitsAgree'
  BY <1>1 DEF AwaitsAgree
<1>5. AlwaysAsking'
  BY <1>1 DEF AlwaysAsking, TypeOK, StoreType
<1>6. PassShownIsSigned' /\ StoredIsShown' /\ StrictBuildHangs'
  BY DEF PassShownIsSigned, StoredIsShown, StrictBuildHangs
<1> QED
  BY <1>2, <1>3, <1>4, <1>5, <1>6

\* createAndStoreSession, restartSession: the page has no session before.
LEMMA CreatedInv ==
  ASSUME RecoveryInv, SessionOpened \/ SessionRefused
  PROVE  RecoveryInv'
<1> USE NamesAssumption
    DEF SessionOpened, SessionRefused, PostDone, Render, PollEffect, setSession, setError,
        fixed, RecoveryInv
<1>0. /\ store.status = "INIT" /\ store.sessionId = None
      /\ \/ /\ store' = [status |-> "WAITING", sessionId |-> post, accessData |-> None]
            /\ post \in Memos /\ stored' = post /\ poll' = "timer"
            /\ life[post] # "never"
         \/ /\ store' \in StoreType
            /\ store'.status = "ERROR" /\ store'.sessionId = None
            /\ stored' = stored /\ poll' = "off"
            /\ alone => stored = None
  BY DEF TypeOK, StoreType, Statuses, SessionsKnown, AwaitsAgree
<1>1. TypeOK'
  BY <1>0 DEF TypeOK, StoreType, Statuses
<1>2. RequestsTrue' /\ SessionsKnown' /\ GoneStaysGone'
  BY <1>0 DEF RequestsTrue, SessionsKnown, GoneStaysGone
<1>3. AwaitsAgree' /\ AlwaysAsking' /\ StrictBuildHangs'
  BY <1>0 DEF AwaitsAgree, AlwaysAsking, StrictBuildHangs
<1>4. PassShownIsSigned' /\ StoredIsShown'
  BY <1>0 DEF PassShownIsSigned, StoredIsShown
<1> QED
  BY <1>1, <1>2, <1>3, <1>4

\* An answer of the server, applied to the store.
LEMMA Applied ==
  ASSUME RecoveryInv, NEW m \in Memos, asked[m] \in {"waiting", "expired", "confirmed"}
  PROVE  /\ applyStatus(m, asked[m]) \in StoreType
         /\ applyStatus(m, asked[m]).sessionId = m
         /\ applyStatus(m, asked[m]).accessData = asked[m]
         /\ asked[m] = "waiting" => applyStatus(m, asked[m]).status = "WAITING"
         /\ asked[m] = "expired" => applyStatus(m, asked[m]).status = "EXPIRED"
         /\ asked[m] = "confirmed" => applyStatus(m, asked[m]).status = "CONFIRMED"
         /\ life[m] # "never"
         /\ asked[m] = "confirmed" => life[m] \in {"confirmed", "not_found"}
<1>1. asked[m] \in Answers
  BY DEF Answers
<1> QED
  BY <1>1 DEF applyStatus, mapStatus, StoreType, Statuses, RecoveryInv, RequestsTrue

\* A status request is over.
LEMMA RequestOver ==
  ASSUME RecoveryInv, NEW m \in Memos, StatusDone(m), life' = life
  PROVE  /\ asked' \in [Memos -> Answers \union {"none", "sent", "failed"}]
         /\ asked'[m] = "none" /\ \A n \in Memos : n # m => asked'[n] = asked[n]
         /\ RequestsTrue'
BY DEF StatusDone, RecoveryInv, TypeOK, RequestsTrue

LEMMA RecoveredInv ==
  ASSUME RecoveryInv, NEW m \in Memos, Recovered(m)
  PROVE  RecoveryInv'
<1> USE NamesAssumption DEF Recovered, fixed, RecoveryInv
<1> DEFINE s == applyStatus(m, asked[m])
<1>0. /\ store.status = "INIT" /\ store.sessionId = None /\ ~strict
      /\ asked[m] \in {"waiting", "expired", "confirmed"}
  BY DEF TypeOK, SessionsKnown, AwaitsAgree, StatusDone, Answers
<1>1. store' = s /\ poll' = IF asked[m] = "waiting" THEN "timer" ELSE "off"
  BY <1>0, Applied DEF Render, PollEffect
<1>2. /\ s \in StoreType /\ s.sessionId = m /\ s.accessData = asked[m]
      /\ s.status = IF asked[m] = "waiting" THEN "WAITING"
                    ELSE IF asked[m] = "expired" THEN "EXPIRED" ELSE "CONFIRMED"
      /\ life[m] # "never" /\ (asked[m] = "confirmed" => life[m] \in {"confirmed", "not_found"})
  BY <1>0, Applied
<1> HIDE DEF s
<1>3. TypeOK' /\ RequestsTrue'
  BY <1>0, <1>1, <1>2, RequestOver DEF TypeOK
<1>4. SessionsKnown' /\ GoneStaysGone'
  BY <1>0, <1>1, <1>2 DEF SessionsKnown, GoneStaysGone
<1>5. AwaitsAgree' /\ AlwaysAsking' /\ StrictBuildHangs'
  BY <1>0, <1>1, <1>2 DEF AwaitsAgree, AlwaysAsking, StrictBuildHangs
<1>6. PassShownIsSigned' /\ StoredIsShown'
  BY <1>0, <1>1, <1>2 DEF PassShownIsSigned, StoredIsShown
<1> QED
  BY <1>3, <1>4, <1>5, <1>6

\* After a 404 the page goes on awaiting, for a new session.
LEMMA RecoverFailsInv ==
  ASSUME RecoveryInv, NEW m \in Memos, RecoverFails(m)
  PROVE  RecoveryInv'
<1> USE NamesAssumption DEF RecoverFails, fixed, RecoveryInv
<1>0. store.status = "INIT" /\ store.sessionId = None /\ ~strict /\ poll = "off"
  BY DEF TypeOK, SessionsKnown, AwaitsAgree
<1>1. /\ store' \in StoreType /\ store'.sessionId = None /\ poll' = "off"
      /\ \/ store'.status = "INIT" /\ awaits' = "create" /\ post' # "none"
         \/ store'.status = "ERROR" /\ awaits' = "nothing"
      /\ post' \in Memos \union {"none", "sent", "failed"}
      /\ post' \in Memos => post' = post
  BY <1>0 DEF TypeOK, StoreType, Statuses, Render, PollEffect, setError, requestNewSession
<1>2. TypeOK' /\ RequestsTrue'
  BY <1>0, <1>1, RequestOver DEF TypeOK
<1>3. SessionsKnown' /\ GoneStaysGone'
  BY <1>0, <1>1 DEF SessionsKnown, GoneStaysGone
<1>4. AwaitsAgree' /\ AlwaysAsking' /\ StrictBuildHangs'
  BY <1>0, <1>1 DEF AwaitsAgree, AlwaysAsking, StrictBuildHangs
<1>5. PassShownIsSigned' /\ StoredIsShown'
  BY <1>0, <1>1 DEF PassShownIsSigned, StoredIsShown
<1> QED
  BY <1>2, <1>3, <1>4, <1>5

\* A poll that has not been cancelled: nothing else is awaited.
LEMMA PollAlone ==
  ASSUME RecoveryInv, NEW m \in Memos, Polls(m)
  PROVE  /\ store.sessionId = m /\ store.status # "INIT" /\ awaits = "nothing" /\ ~strict
         /\ life[m] # "never"
BY NamesAssumption
   DEF RecoveryInv, Polls, SessionsKnown, AwaitsAgree, StrictBuildHangs, TypeOK

LEMMA PolledInv ==
  ASSUME RecoveryInv, NEW m \in Memos, Polled(m)
  PROVE  RecoveryInv'
<1> USE NamesAssumption DEF Polled, fixed, RecoveryInv
<1> DEFINE s == applyStatus(m, asked[m])
<1>0. /\ Polls(m) /\ asked[m] \in {"waiting", "expired", "confirmed"}
      /\ store.sessionId = m /\ store.status # "INIT" /\ awaits = "nothing" /\ ~strict
  BY PollAlone DEF TypeOK, StatusDone, Answers
<1>1. store.status = "WAITING"
  BY <1>0 DEF GoneStaysGone, Polls, TypeOK, StoreType, Statuses
<1>2. /\ s \in StoreType /\ s.sessionId = m /\ s.accessData = asked[m]
      /\ s.status = IF asked[m] = "waiting" THEN "WAITING"
                    ELSE IF asked[m] = "expired" THEN "EXPIRED" ELSE "CONFIRMED"
      /\ life[m] # "never" /\ (asked[m] = "confirmed" => life[m] \in {"confirmed", "not_found"})
  BY <1>0, Applied
<1>3. store' = s /\ poll' = IF asked[m] = "waiting" THEN "timer" ELSE "off"
  BY <1>0, <1>1, <1>2 DEF Render, PollEffect
<1> HIDE DEF s
<1>4. TypeOK' /\ RequestsTrue'
  BY <1>0, <1>2, <1>3, RequestOver DEF TypeOK
<1>5. SessionsKnown' /\ GoneStaysGone'
  BY <1>0, <1>2, <1>3 DEF SessionsKnown, GoneStaysGone
<1>6. AwaitsAgree' /\ AlwaysAsking' /\ StrictBuildHangs'
  BY <1>0, <1>2, <1>3 DEF AwaitsAgree, AlwaysAsking, StrictBuildHangs
<1>7. PassShownIsSigned'
  BY <1>0, <1>2, <1>3 DEF PassShownIsSigned
<1>8. StoredIsShown'
  BY <1>0, <1>1, <1>2, <1>3 DEF StoredIsShown, TypeOK, StoreType, Statuses
<1> QED
  BY <1>4, <1>5, <1>6, <1>7, <1>8

\* The session is gone for good.
LEMMA PollNotFoundInv ==
  ASSUME RecoveryInv, NEW m \in Memos, PollNotFound(m)
  PROVE  RecoveryInv'
<1> USE NamesAssumption DEF PollNotFound, fixed, RecoveryInv
<1>0. /\ Polls(m) /\ store.sessionId = m /\ store.status # "INIT" /\ awaits = "nothing"
      /\ ~strict /\ life[m] = "not_found"
  BY PollAlone DEF RequestsTrue
<1>1. /\ store' \in StoreType /\ store'.sessionId = m /\ store'.status = "ERROR"
      /\ poll' \in {"off", "timer"}
  BY <1>0 DEF TypeOK, StoreType, Statuses, Render, PollEffect, setError
<1>2. asked'[m] = "none" /\ RequestsTrue'
  BY RequestOver
<1>3. TypeOK'
  BY <1>0, <1>1, <1>2, RequestOver DEF TypeOK
<1>4. SessionsKnown' /\ GoneStaysGone'
  BY <1>0, <1>1, <1>2 DEF SessionsKnown, GoneStaysGone
<1>5. AwaitsAgree' /\ AlwaysAsking' /\ StrictBuildHangs'
  BY <1>0, <1>1 DEF AwaitsAgree, AlwaysAsking, StrictBuildHangs
<1>6. PassShownIsSigned' /\ StoredIsShown'
  BY <1>0, <1>1 DEF PassShownIsSigned, StoredIsShown
<1> QED
  BY <1>2, <1>3, <1>4, <1>5, <1>6

LEMMA PollFailsInv ==
  ASSUME RecoveryInv, NEW m \in Memos, PollFails(m)
  PROVE  RecoveryInv'
<1> USE NamesAssumption DEF PollFails, fixed, RecoveryInv
<1>0. store.sessionId = m /\ store.status # "INIT" /\ awaits = "nothing"
  BY PollAlone
<1>1. /\ asked'[m] = "none" /\ \A n \in Memos : n # m => asked'[n] = asked[n]
      /\ RequestsTrue'
  BY RequestOver
<1>2. TypeOK'
  BY <1>0, RequestOver DEF TypeOK, Polls
<1>3. SessionsKnown' /\ GoneStaysGone'
  BY <1>0, <1>1 DEF SessionsKnown, GoneStaysGone
<1>4. AwaitsAgree' /\ AlwaysAsking' /\ StrictBuildHangs'
  BY <1>0 DEF AwaitsAgree, AlwaysAsking, StrictBuildHangs
<1>5. PassShownIsSigned' /\ StoredIsShown'
  BY DEF PassShownIsSigned, StoredIsShown
<1> QED
  BY <1>1, <1>2, <1>3, <1>4, <1>5

\* What is dropped, nothing on the page waits for.
LEMMA DroppedInv ==
  ASSUME RecoveryInv, Dropped
  PROVE  RecoveryInv'
<1> USE NamesAssumption DEF Dropped, fixed, RecoveryInv
<1>1. CASE PostDone /\ awaits # "create" /\ UNCHANGED asked
  <2> USE <1>1 DEF PostDone
  <2>1. TypeOK' /\ RequestsTrue' /\ SessionsKnown' /\ GoneStaysGone'
    BY DEF TypeOK, RequestsTrue, SessionsKnown, GoneStaysGone
  <2>2. AwaitsAgree' /\ AlwaysAsking'
    BY DEF AwaitsAgree, AlwaysAsking
  <2>3. PassShownIsSigned' /\ StoredIsShown' /\ StrictBuildHangs'
    BY DEF PassShownIsSigned, StoredIsShown, StrictBuildHangs
  <2> QED
    BY <2>1, <2>2, <2>3
<1>2. ASSUME NEW m \in Memos, StatusDone(m), awaits # m, ~Polls(m), UNCHANGED post
      PROVE  RecoveryInv'
  <2> USE <1>2
  <2>1. /\ asked'[m] = "none" /\ \A n \in Memos : n # m => asked'[n] = asked[n]
        /\ RequestsTrue'
    BY RequestOver
  <2>2. TypeOK'
    BY RequestOver DEF TypeOK
  <2>3. SessionsKnown' /\ GoneStaysGone'
    BY <2>1 DEF SessionsKnown, GoneStaysGone, TypeOK, StoreType
  <2>4. AwaitsAgree'
    BY <2>1 DEF AwaitsAgree
  <2>5. AlwaysAsking'
    BY <2>1 DEF AlwaysAsking, Polls, TypeOK, StoreType
  <2>6. PassShownIsSigned' /\ StoredIsShown' /\ StrictBuildHangs'
    BY DEF PassShownIsSigned, StoredIsShown, StrictBuildHangs
  <2> QED
    BY <2>1, <2>2, <2>3, <2>4, <2>5, <2>6
<1> QED
  BY <1>1, <1>2

LEMMA OtherTabInv ==
  ASSUME RecoveryInv, OtherTab
  PROVE  RecoveryInv'
<1> USE NamesAssumption DEF OtherTab, fixed, RecoveryInv
<1>1. TypeOK' /\ RequestsTrue' /\ SessionsKnown' /\ GoneStaysGone'
  BY DEF TypeOK, RequestsTrue, SessionsKnown, GoneStaysGone
<1>2. AwaitsAgree' /\ AlwaysAsking'
  BY DEF AwaitsAgree, AlwaysAsking
<1>3. PassShownIsSigned' /\ StoredIsShown' /\ StrictBuildHangs'
  BY DEF PassShownIsSigned, StoredIsShown, StrictBuildHangs
<1> QED
  BY <1>1, <1>2, <1>3

LEMMA StepInv ==
  ASSUME RecoveryInv, [Next]_allVars
  PROVE  RecoveryInv'
<1>1. CASE LifeNext /\ UNCHANGED uiVars
  BY <1>1, LifeStep DEF uiVars, fixed
<1>2. CASE initialize \/ restartSession \/ pollTimer \/ OtherTab
  BY <1>2, InitializeInv, RestartSessionInv, PollTimerInv, OtherTabInv
<1>3. CASE RequestEnds
  BY <1>3, CreatePaymentInv, StatusEndsInv DEF RequestEnds
<1>4. CASE Continue
  BY <1>4, CreatedInv, DroppedInv, RecoveredInv, RecoverFailsInv, PolledInv,
     PollNotFoundInv, PollFailsInv DEF Continue
<1>5. CASE UNCHANGED allVars
  BY <1>5 DEF allVars, uiVars, RecoveryInv, TypeOK, RequestsTrue, SessionsKnown,
     GoneStaysGone, AwaitsAgree, PassShownIsSigned, StoredIsShown, AlwaysAsking,
     StrictBuildHangs
<1> QED
  BY <1>1, <1>2, <1>3, <1>4, <1>5 DEF Next

-----------------------------------------------------------------------------
(* The theorems.                                                           *)

\* The inductive invariant of the React checkout.
THEOREM RecoveryInvariant == Spec => []RecoveryInv
<1>1. RecoveryInv /\ [Next]_allVars => RecoveryInv'
  BY StepInv
<1> QED
  BY InitInv, <1>1, PTL DEF Spec

\* haske-ui keeps its types, and never polls without a session.
THEOREM TypeCorrect == Spec => []TypeOK
<1>1. RecoveryInv => TypeOK
  BY DEF RecoveryInv
<1> QED
  BY RecoveryInvariant, <1>1, PTL

\* haske-ui shows a pass only when the server has signed it for the session on
\* the screen, with any number of tabs.
THEOREM ShownIsSigned == Spec => []PassShownIsSigned
<1>1. RecoveryInv => PassShownIsSigned
  BY DEF RecoveryInv
<1> QED
  BY RecoveryInvariant, <1>1, PTL

\* In a lone tab, localStorage holds the id of the session on the screen: a late
\* answer of a cancelled poll never changes it.
THEOREM StoredShown == Spec => []StoredIsShown
<1>1. RecoveryInv => StoredIsShown
  BY DEF RecoveryInv
<1> QED
  BY RecoveryInvariant, <1>1, PTL

\* While the page waits, one of its own callbacks is due.
THEOREM NeverIdle == Spec => []AlwaysAsking
<1>1. RecoveryInv => AlwaysAsking
  BY DEF RecoveryInv
<1> QED
  BY RecoveryInvariant, <1>1, PTL

\* main.jsx wraps the page in StrictMode: a development build of it hangs.
THEOREM StrictHangs == Spec => []StrictBuildHangs
<1>1. RecoveryInv => StrictBuildHangs
  BY DEF RecoveryInv
<1> QED
  BY RecoveryInvariant, <1>1, PTL

\* useSessionRecovery forgets a session on the server's word, or when the first
\* request of a load fails, and never because a poll does.
THEOREM ForgottenOnly == Spec => ForgottenOnAnswer
<1> DEFINE Word == \/ asked[stored] \in {"expired", "not_found"}
                   \/ awaits = stored /\ asked[stored] = "failed"
<1>1. ASSUME RecoveryInv, [Next]_allVars, alone, stored # None, stored' = None
      PROVE  Word
  <2> USE <1>1, NamesAssumption DEF RecoveryInv
  <2>1. ~restartSession /\ ~SessionOpened /\ ~OtherTab
    BY DEF restartSession, SessionOpened, PostDone, OtherTab, StoredIsShown, TypeOK
  <2>2. PICK m \in Memos : Recovered(m) \/ RecoverFails(m) \/ Polled(m) \/ PollNotFound(m)
    BY <2>1
       DEF Next, RequestEnds, Continue, allVars, uiVars, initialize, pollTimer, createPayment,
           getPaymentStatus, requestFails, SessionRefused, PollFails, Dropped
  <2>3. CASE Recovered(m) \/ RecoverFails(m)
    <3>1. awaits = m /\ stored = m
      BY <2>3 DEF Recovered, RecoverFails, AwaitsAgree
    <3> QED
      BY <2>3, <3>1 DEF Recovered, RecoverFails
  <2>4. CASE Polled(m) \/ PollNotFound(m)
    <3>1. Polls(m) /\ (asked[m] \in {"expired", "not_found"})
      BY <2>4 DEF Polled, PollNotFound
    <3>2. store.sessionId = m /\ store.status # "INIT"
      BY <3>1, PollAlone
    <3>3. store.status = "WAITING"
      BY <3>1, <3>2 DEF Polls, StoredIsShown, TypeOK, StoreType, Statuses
    <3> QED
      BY <3>1, <3>2, <3>3 DEF StoredIsShown
  <2> QED
    BY <2>2, <2>3, <2>4
<1>2. RecoveryInv /\ [Next]_allVars => [alone /\ stored # None /\ stored' = None => Word]_allVars
  BY <1>1
<1> QED
  BY <1>2, RecoveryInvariant, PTL DEF Spec, ForgottenOnAnswer

\* No step but a page load changes what a page that shows its pass shows: every
\* callback that could is cancelled, or awaits what only a page at INIT awaits.
LEMMA ShownStep ==
  ASSUME RecoveryInv, [Next]_allVars, store.status = "CONFIRMED", loads' = loads
  PROVE  store' = store
<1> USE NamesAssumption DEF RecoveryInv
<1>1. ~initialize /\ ~restartSession
  BY DEF initialize, restartSession, TypeOK
<1>2. awaits = "nothing"
  BY DEF AwaitsAgree
<1>3. ~SessionOpened /\ ~SessionRefused /\ \A m \in Memos : ~Recovered(m) /\ ~RecoverFails(m)
  BY <1>2 DEF SessionOpened, SessionRefused, Recovered, RecoverFails
<1>4. \A m \in Memos : ~Polls(m)
  BY DEF Polls, TypeOK
<1>5. \A m \in Memos : ~Polled(m) /\ ~PollNotFound(m)
  BY <1>4 DEF Polled, PollNotFound
<1> QED
  BY <1>1, <1>3, <1>5
     DEF Next, RequestEnds, Continue, allVars, uiVars, pollTimer, createPayment,
         getPaymentStatus, requestFails, PollFails, Dropped, OtherTab

\* haske-ui never takes a pass off its screen by itself.
THEOREM ShownStays == Spec => ShownPassStays
<1>1. RecoveryInv /\ [Next]_allVars
        => [store.status = "CONFIRMED" /\ loads' = loads => store' = store]_allVars
  BY ShownStep
<1> QED
  BY <1>1, RecoveryInvariant, PTL DEF Spec, ShownPassStays
=============================================================================
