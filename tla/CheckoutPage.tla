---------------------------- MODULE CheckoutPage ----------------------------
(***************************************************************************)
(* The static checkout page (web/checkout.html) against the sessions of    *)
(* the server.                                                             *)
(*                                                                         *)
(* The page is one event loop: its timers (the poll, the 850 ms before     *)
(* CONFIRMED, the countdown), the answers of its requests and the buyer's  *)
(* clicks and reloads each run to completion, in any order.  Requests take *)
(* any time, fail at any attempt, and are never cancelled by the page.     *)
(*                                                                         *)
(* The countdown compares with the buyer's own clock, which nobody sets    *)
(* right, so it may run out at any moment.  Not in the state: texts,       *)
(* retries shown, and the data the page merely displays.                   *)
(***************************************************************************)
EXTENDS SessionLife, Naturals, Sequences, SequencesExt

CONSTANTS
  None,        \* JavaScript's null
  MaxRetries,  \* MAX_RETRIES
  MaxCalls,    \* bound: requests in flight
  MaxLoads     \* bound: page loads

ASSUME PageBounds == MaxRetries \in Nat /\ MaxCalls \in Nat /\ MaxLoads \in Nat

VARIABLES
  app,           \* [state, session, data]: the store; data is the last answer
  storage,       \* localStorage[STORAGE_KEY], or None
  calls,         \* fetchJson calls in flight
  poll_timer,    \* the poll is scheduled
  confirm_timer, \* the transition to CONFIRMED is scheduled
  lost_timers,   \* such transitions whose handle was overwritten
  counting,      \* the countdown interval runs
  loads          \* page loads so far

timers == <<poll_timer, confirm_timer, lost_timers>>
pageVars == <<app, storage, calls, timers, counting, loads>>
allVars == <<life, pageVars>>

States == {"INIT", "WAITING", "DETECTED", "CONFIRMED", "EXPIRED", "ERROR"}

\* The last status answer, as far as it matters: accessData.
AccessData == [session : Memos, status : Answers]

StoreType ==
  [state : States, session : Memos \union {None}, data : AccessData \union {None}]

ASSUME NoneAssumption ==
         None \notin Memos /\ None \notin AccessData /\ None \notin StoreType

TRANSITIONS ==
  [INIT      |-> {"WAITING", "ERROR"},
   WAITING   |-> {"DETECTED", "EXPIRED", "ERROR"},
   DETECTED  |-> {"CONFIRMED", "EXPIRED", "ERROR"},
   CONFIRMED |-> {"EXPIRED"},
   EXPIRED   |-> {"WAITING"},
   ERROR     |-> {"WAITING"}]

\* Mutant: transition() does not look at the table.
AllowedAlways(from, to) == TRUE

\* transition() does not throw.
Allowed(from, to) == from = to \/ to \in TRANSITIONS[from]

createInitialStore == [state |-> "INIT", session |-> None, data |-> None]

\* A fetchJson call: a POST for a new session, or the status of a session.
\* Its present attempt is "sent" or has the server's answer.
PostCall == [kind |-> "post", session |-> None, answer |-> "sent", tries |-> 0]
StatusCall(s) == [kind |-> "status", session |-> s, answer |-> "sent", tries |-> 0]

\* Mutant: the store is changed but not saved.
StoreUnsaved(a, to) ==
  /\ app' = [a EXCEPT !.state = to]
  /\ UNCHANGED storage

\* The store in a new state, and its copy in localStorage: what transition and
\* hydrateDirect do.
Store(a, to) ==
  /\ app' = [a EXCEPT !.state = to]
  /\ storage' = app'

stopTimers == poll_timer' = FALSE /\ confirm_timer' = FALSE

-----------------------------------------------------------------------------
(* Clicks, loads, the countdown.                                           *)

\* Mutant: the timers of the old session live on.
createKeepingTimers(a, others) ==
  /\ Len(others) < MaxCalls
  /\ calls' = Append(others, PostCall)
  /\ Store([a EXCEPT !.session = None, !.data = None], "WAITING")
  /\ UNCHANGED <<poll_timer, confirm_timer>>

\* createPaymentSession up to its await: the old session and its data go, the
\* calls under way and the countdown stay.
createPaymentSession(a, others) ==
  /\ stopTimers
  /\ Len(others) < MaxCalls
  /\ calls' = Append(others, PostCall)
  /\ Store([a EXCEPT !.session = None, !.data = None], "WAITING")

\* The retry and new pass buttons show on EXPIRED and ERROR only.
Click ==
  /\ app.state \in {"EXPIRED", "ERROR"}
  /\ createPaymentSession(app, calls)
  /\ UNCHANGED <<life, lost_timers, counting, loads>>

\* The page is opened or reloaded: timers and calls are gone, and restore()
\* resumes what localStorage holds.
restore ==
  /\ loads < MaxLoads
  /\ loads' = loads + 1
  /\ lost_timers' = 0
  /\ \/ /\ storage = None
        /\ createPaymentSession(createInitialStore, << >>)
        /\ counting' = FALSE
     \/ /\ storage # None
        /\ confirm_timer' = FALSE
        /\ calls' = << >>
        /\ \/ /\ storage.state \in {"WAITING", "DETECTED"}
              /\ Store(storage, "EXPIRED")         \* "Recovered expired session"
              /\ poll_timer' = FALSE
              /\ counting' = FALSE
           \/ /\ storage.state \in {"WAITING", "DETECTED"}
              /\ Store(storage, storage.state)
              /\ poll_timer' = (storage.session # None)
              /\ counting' = TRUE
           \/ /\ storage.state \in {"CONFIRMED", "EXPIRED", "ERROR"}
              /\ Store(storage, storage.state)
              /\ poll_timer' = FALSE
              /\ counting' = (storage.state = "CONFIRMED")
  /\ UNCHANGED life

\* updateCountdown at zero
updateCountdown ==
  /\ counting
  /\ app.state \in {"WAITING", "DETECTED", "CONFIRMED"}
  /\ stopTimers
  /\ Store(app, "EXPIRED")
  /\ UNCHANGED <<life, calls, lost_timers, counting, loads>>

-----------------------------------------------------------------------------
(* Requests.                                                               *)

\* The poll timer fires: checkStatus up to its await.
checkStatus ==
  /\ poll_timer
  /\ poll_timer' = FALSE
  /\ IF app.session = None
     THEN UNCHANGED calls
     ELSE Len(calls) < MaxCalls /\ calls' = Append(calls, StatusCall(app.session))
  /\ UNCHANGED <<life, app, storage, confirm_timer, lost_timers, counting, loads>>

\* The server handles an attempt.  Sessions opened by attempts whose answer is
\* lost are among those that open on their own.
ServerAnswers(i) ==
  /\ calls[i].answer = "sent"
  /\ \/ /\ calls[i].kind = "post"
        /\ \E m \in Memos :
             /\ Open(m)
             /\ calls' = [calls EXCEPT ![i].answer = "opened", ![i].session = m]
     \/ /\ calls[i].kind = "status"
        /\ calls' = [calls EXCEPT ![i].answer = life[calls[i].session]]
        /\ UNCHANGED life
  /\ UNCHANGED <<app, storage, timers, counting, loads>>

\* An attempt times out, fails, or is answered with an error such as 404; the
\* store is saved and the request sent again, a POST too.
AttemptFails(i) ==
  /\ calls[i].tries < MaxRetries
  /\ LET again == IF calls[i].kind = "post" THEN PostCall ELSE StatusCall(calls[i].session)
     IN  calls' = [calls EXCEPT ![i] = [again EXCEPT !.tries = calls[i].tries + 1]]
  /\ storage' = app
  /\ UNCHANGED <<life, app, timers, counting, loads>>

\* So does the last attempt: the callers' catch asks for ERROR, which throws,
\* and changes nothing, where the table has no such transition.
CallThrows(i) ==
  /\ calls[i].tries = MaxRetries
  /\ calls' = RemoveAt(calls, i)
  /\ IF Allowed(app.state, "ERROR") THEN Store(app, "ERROR") ELSE UNCHANGED <<app, storage>>
  /\ UNCHANGED <<life, timers, counting, loads>>

\* Mutant: startCountdown is left to the poll.
PostReturnsUncounted(i) ==
  /\ calls[i].answer = "opened"
  /\ calls' = RemoveAt(calls, i)
  /\ Store([app EXCEPT !.session = calls[i].session, !.data = None], "WAITING")
  /\ poll_timer' = FALSE
  /\ confirm_timer' = FALSE
  /\ UNCHANGED <<life, lost_timers, counting, loads>>

\* createPaymentSession after its await: the new session is taken in whatever
\* state the page is by now; scheduleStatusPoll.
PostReturns(i) ==
  /\ calls[i].answer = "opened"
  /\ calls' = RemoveAt(calls, i)
  /\ Store([app EXCEPT !.session = calls[i].session, !.data = None], "WAITING")
  /\ poll_timer' = TRUE
  /\ confirm_timer' = FALSE
  /\ counting' = TRUE
  /\ UNCHANGED <<life, lost_timers, loads>>

\* handleStatus: the answer is taken for the page's session, whatever session
\* it was asked about and whatever state the page is in by now.
With(call) == [app EXCEPT !.data = [session |-> call.session, status |-> call.answer]]

\* Where EXPIRED is refused, checkStatus's catch asks for ERROR.
handleExpired(i) ==
  /\ calls[i].answer = "expired"
  /\ calls' = RemoveAt(calls, i)
  /\ Store(With(calls[i]), IF Allowed(app.state, "EXPIRED") THEN "EXPIRED" ELSE "ERROR")
  /\ UNCHANGED <<life, timers, counting, loads>>

handleConfirmed(i) ==
  /\ calls[i].answer = "confirmed"
  /\ calls' = RemoveAt(calls, i)
  /\ IF app.state = "WAITING"
     THEN Store(With(calls[i]), "DETECTED")
     ELSE app' = With(calls[i]) /\ UNCHANGED storage
  /\ confirm_timer' = TRUE
  /\ lost_timers' = IF confirm_timer THEN lost_timers + 1 ELSE lost_timers
  /\ UNCHANGED <<life, poll_timer, counting, loads>>

\* hydrateDirect goes back to WAITING from any state; scheduleStatusPoll.
handleWaiting(i) ==
  /\ calls[i].answer = "waiting"
  /\ calls' = RemoveAt(calls, i)
  /\ IF app.state # "WAITING"
     THEN Store(With(calls[i]), "WAITING")
     ELSE app' = With(calls[i]) /\ UNCHANGED storage
  /\ poll_timer' = (app.session # None)
  /\ confirm_timer' = FALSE
  /\ counting' = TRUE
  /\ UNCHANGED <<life, lost_timers, loads>>

\* A timer for CONFIRMED fires, the one stopTimers knows or a lost one.
ConfirmTimer ==
  /\ \/ /\ confirm_timer
        /\ confirm_timer' = FALSE
        /\ UNCHANGED lost_timers
     \/ /\ lost_timers > 0
        /\ lost_timers' = lost_timers - 1
        /\ UNCHANGED confirm_timer
  /\ IF Allowed(app.state, "CONFIRMED")
     THEN Store(app, "CONFIRMED") /\ counting' = TRUE
     ELSE UNCHANGED <<app, storage, counting>>
  /\ UNCHANGED <<life, calls, poll_timer, loads>>

-----------------------------------------------------------------------------
Init ==
  /\ LifeInit
  /\ app = createInitialStore
  /\ storage = None
  /\ calls = << >>
  /\ poll_timer = FALSE
  /\ confirm_timer = FALSE
  /\ lost_timers = 0
  /\ counting = FALSE
  /\ loads = 0

CallStep ==
  \E i \in DOMAIN calls :
    \/ ServerAnswers(i) \/ AttemptFails(i) \/ CallThrows(i) \/ PostReturns(i)
    \/ handleExpired(i) \/ handleConfirmed(i) \/ handleWaiting(i)

Next ==
  \/ LifeNext /\ UNCHANGED pageVars
  \/ restore \/ Click \/ updateCountdown \/ checkStatus \/ ConfirmTimer
  \/ CallStep

Spec == Init /\ [][Next]_allVars

\* The browser runs its timers, requests end, if only by their timeout, and
\* the countdown, which counts towards a fixed instant, gets there.
Fairness ==
  /\ WF_allVars(CallStep) /\ WF_allVars(updateCountdown)
  /\ WF_allVars(checkStatus) /\ WF_allVars(ConfirmTimer)

FairSpec == Spec /\ Fairness

-----------------------------------------------------------------------------
(* Properties.                                                             *)

CallType ==
  [kind : {"post", "status"}, session : Memos \union {None},
   answer : Answers \union {"sent", "opened"}, tries : 0 .. MaxRetries]

\* Types, and: no poll is scheduled while the page has no session.
TypeOK ==
  /\ life \in [Memos -> Answers \union {"never"}]
  /\ app \in StoreType /\ storage \in StoreType \union {None}
  /\ calls \in Seq(CallType)
  /\ poll_timer \in BOOLEAN /\ confirm_timer \in BOOLEAN /\ counting \in BOOLEAN
  /\ lost_timers \in Nat /\ loads \in Nat
  /\ poll_timer => app.session # None

\* This store shows a signed pass if it shows any, or will by its timer.
ShowsSigned(a) ==
  a.state \in {"DETECTED", "CONFIRMED"} =>
    /\ a.data # None
    /\ a.data.status = "confirmed"
    /\ life[a.data.session] \in {"confirmed", "not_found"}

\* A page on which a pass is shown shows one that the server has signed, after
\* any reload, late answer, lost timer or restart of the server.
PassShownIsConfirmed ==
  ShowsSigned(app) /\ (storage # None => ShowsSigned(storage))

\* A reload at any moment finds the page as it is: no handler changes state or
\* session without saving them.
SavedInStep ==
  loads > 0 => /\ storage # None
               /\ storage.state = app.state
               /\ storage.session = app.session

\* A page that waits is not forgotten: its countdown runs, or the POST that will
\* start it is under way, whatever other answers came in between.
WaitingIsTimed ==
  app.state \in {"WAITING", "DETECTED"} =>
    counting \/ \E i \in DOMAIN calls : calls[i].kind = "post"

\* The calls under way ask about sessions that exist, and their answers are
\* true of the server or were.
CallsKnown ==
  \A i \in DOMAIN calls :
    /\ calls[i].kind = "status" \/ calls[i].answer = "opened" =>
         calls[i].session \in Memos /\ life[calls[i].session] # "never"
    /\ calls[i].answer \in Answers => calls[i].kind = "status"
    /\ calls[i].answer = "confirmed" =>
         life[calls[i].session] \in {"confirmed", "not_found"}

SessionsKnown ==
  /\ app.session # None => life[app.session] # "never"
  /\ storage # None /\ storage.session # None => life[storage.session] # "never"

\* The inductive invariant.
PageInv ==
  /\ TypeOK
  /\ PassShownIsConfirmed
  /\ SavedInStep
  /\ CallsKnown
  /\ SessionsKnown

\* A page never waits forever: it comes to show a pass or to offer a retry.
PageComesToRest ==
  app.state \in {"WAITING", "DETECTED"} ~> app.state \in {"CONFIRMED", "EXPIRED", "ERROR"}

\* checkout.html:619, throw new Error("Illegal transition ..."): the timer that
\* shows the pass finds the page in a state that may move to CONFIRMED.  An
\* answer that overtakes the countdown sets the timer on an expired page.
TimerFindsDetected ==
  confirm_timer => Allowed(app.state, "CONFIRMED")

\* checkout.html:769, "The current payment session can no longer be used.": a
\* page told "expired" by the server is told so of its own session.  The
\* answer may be about the session a click has replaced.
ExpiredIsThisSession ==
  app.state = "EXPIRED" /\ app.data # None /\ app.data.status = "expired"
    => app.session = app.data.session
=============================================================================
