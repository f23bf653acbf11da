---------------------------- MODULE RecoveryPage ----------------------------
(***************************************************************************)
(* The React checkout (haske-ui) against the sessions of the server: the   *)
(* payment store, the session id in localStorage, and the two effects of   *)
(* useSessionRecovery, one that opens or recovers a session when the page  *)
(* is loaded and one that polls.                                           *)
(*                                                                         *)
(* One event loop, as in CheckoutPage, but of another design: the store    *)
(* takes whatever the server says, and answers that come too late are      *)
(* dropped by the cancelled flag of the effect that asked.  A store update *)
(* renders at once and reruns the poll effect when session or status have  *)
(* changed, so each action below includes that render.                     *)
(*                                                                         *)
(* localStorage is shared with the other tabs of the page, which come in   *)
(* as what they may do to it.                                              *)
(***************************************************************************)
EXTENDS SessionLife, Naturals

CONSTANTS
  None,      \* JavaScript's null
  MaxLoads   \* bound: page loads

VARIABLES
  strict,  \* a development build, where StrictMode runs each new effect twice
  alone,   \* no other tab shows the page
  store,   \* usePaymentStore
  stored,  \* localStorage[STORAGE_KEY], or None
  post,    \* createSessionPromise: "none", "sent", "failed" or the session opened
  asked,   \* statusRequestCache: session |-> "none", "sent", "failed" or the answer
  awaits,  \* what initialize or restartSession awaits: "nothing", "create", or the
           \* session it recovers
  poll,    \* the poll effect: "off", its "timer" runs, or it is "asking"
  loads    \* page loads so far

fixed == <<strict, alone>>
uiVars == <<strict, alone, store, stored, post, asked, awaits, poll, loads>>
allVars == <<life, uiVars>>

\* The server never says "detected".
Statuses == {"INIT", "WAITING", "CONFIRMED", "EXPIRED", "ERROR"}

\* accessData is the last answer applied; the pass comes with "confirmed".
StoreType ==
  [status : Statuses, sessionId : Memos \union {None}, accessData : Answers \union {None}]

ASSUME LoadsAssumption == MaxLoads \in Nat
ASSUME NamesAssumption ==
         /\ None \notin Memos /\ None \notin Answers
         /\ Memos \intersect {"none", "sent", "failed", "nothing", "create"} = {}

-----------------------------------------------------------------------------
(* The store.                                                              *)

initialState == [status |-> "INIT", sessionId |-> None, accessData |-> None]

\* Mutant: an unknown status is taken for the end of the flow.
mapStatusOptimist(answer) ==
  CASE answer = "expired" -> "EXPIRED"
    [] OTHER              -> "CONFIRMED"

mapStatus(answer) ==
  CASE answer = "confirmed" -> "CONFIRMED"
    [] answer = "expired"   -> "EXPIRED"
    [] OTHER                -> "WAITING"

setSession(m) == [status |-> "WAITING", sessionId |-> m, accessData |-> None]

applyStatus(m, answer) ==
  [status |-> mapStatus(answer), sessionId |-> m, accessData |-> answer]

setError == [store EXCEPT !.status = "ERROR"]

-----------------------------------------------------------------------------
(* The effects.                                                            *)

\* The mount effect: initializedRef outlives its runs, live is the opposite of
\* the cancelled flag of the run that called initialize.
Unmounted == [initialized |-> FALSE, live |-> FALSE]
CleanUp(mount) == [mount EXCEPT !.live = FALSE]

\* Mutant: every run initializes.
RunAlways(mount) == [initialized |-> TRUE, live |-> TRUE]

RunEffect(mount) ==
  IF mount.initialized THEN mount ELSE [initialized |-> TRUE, live |-> TRUE]

MountedLive ==
  LET once == RunEffect(Unmounted)
  IN  IF strict THEN RunEffect(CleanUp(once)).live ELSE once.live

\* Mutant: a page without a session is polled for too.
PollEffectUnguarded(s) == IF s.status \in {"CONFIRMED", "EXPIRED"} THEN "off" ELSE "timer"

\* Mutant: a page that shows its pass goes on polling.
PollEffectAfterPass(s) == IF s.sessionId = None \/ s.status = "EXPIRED" THEN "off" ELSE "timer"

PollEffect(s) ==
  IF s.sessionId = None \/ s.status \in {"CONFIRMED", "EXPIRED"} THEN "off" ELSE "timer"

\* The store becomes s.  The poll effect is cancelled and run again if what it
\* depends on has changed, else its loop goes on with what it left.
Render(s, left) ==
  /\ store' = s
  /\ poll' = IF s.sessionId = store.sessionId /\ s.status = store.status
             THEN left ELSE PollEffect(s)

NoRequests == [m \in Memos |-> "none"]

\* requestNewSession and requestPaymentStatus share a request under way.
requestNewSession == post' = IF post = "none" THEN "sent" ELSE post
requestPaymentStatus(m) ==
  asked' = IF asked[m] = "none" THEN [asked EXCEPT ![m] = "sent"] ELSE asked

\* The page is opened or reloaded: initialize up to its await.
initialize ==
  /\ loads < MaxLoads
  /\ loads' = loads + 1
  /\ store' = initialState
  /\ poll' = "off"
  /\ \/ /\ stored = None
        /\ post' = "sent"
        /\ asked' = NoRequests
        /\ awaits' = IF MountedLive THEN "create" ELSE "nothing"
     \/ /\ stored # None
        /\ post' = "none"
        /\ asked' = [NoRequests EXCEPT ![stored] = "sent"]
        /\ awaits' = IF MountedLive THEN stored ELSE "nothing"
  /\ UNCHANGED <<life, fixed, stored>>

\* The retry button shows on EXPIRED and ERROR: restartSession up to its await.
restartSession ==
  /\ store.status \in {"EXPIRED", "ERROR"}
  /\ stored' = None
  /\ Render(initialState, poll)
  /\ requestNewSession
  /\ awaits' = "create"
  /\ UNCHANGED <<life, fixed, asked, loads>>

pollTimer ==
  /\ poll = "timer"
  /\ poll' = "asking"
  /\ requestPaymentStatus(store.sessionId)
  /\ UNCHANGED <<life, fixed, store, stored, post, awaits, loads>>

-----------------------------------------------------------------------------
(* Requests.  A GET is retried, which leaves no trace: its answer is one of *)
(* some moment while it was under way.  A POST is not retried; a session it *)
(* opened before its answer was lost is one that opens on its own.          *)

createPayment ==
  /\ post = "sent"
  /\ \/ post' = "failed" /\ UNCHANGED life
     \/ \E m \in Memos : Open(m) /\ post' = m
  /\ UNCHANGED <<fixed, store, stored, asked, awaits, poll, loads>>

getPaymentStatus(m) ==
  /\ asked[m] = "sent"
  /\ asked' = [asked EXCEPT ![m] = life[m]]
  /\ UNCHANGED <<life, fixed, store, stored, post, awaits, poll, loads>>

\* All attempts have failed, with anything but a 404.
requestFails(m) ==
  /\ asked[m] = "sent"
  /\ asked' = [asked EXCEPT ![m] = "failed"]
  /\ UNCHANGED <<life, fixed, store, stored, post, awaits, poll, loads>>

-----------------------------------------------------------------------------
(* After the awaits.  finally clears the shared promise first.             *)

\* Mutant: the answered request stays in the cache.
StatusStaysCached(m) == asked[m] \notin {"none", "sent"} /\ UNCHANGED asked

PostDone == post \notin {"none", "sent"} /\ post' = "none"
StatusDone(m) ==
  /\ asked[m] \notin {"none", "sent"}
  /\ asked' = [asked EXCEPT ![m] = "none"]

\* createAndStoreSession and restartSession
SessionOpened ==
  /\ PostDone /\ post # "failed"
  /\ awaits = "create" /\ awaits' = "nothing"
  /\ stored' = post
  /\ Render(setSession(post), poll)
  /\ UNCHANGED <<life, fixed, asked, loads>>

SessionRefused ==
  /\ PostDone /\ post = "failed"
  /\ awaits = "create" /\ awaits' = "nothing"
  /\ Render(setError, poll)
  /\ UNCHANGED <<life, fixed, stored, asked, loads>>

\* recoverStoredSession
Recovered(m) ==
  /\ awaits = m /\ StatusDone(m)
  /\ asked[m] \notin {"failed", "not_found"}
  /\ awaits' = "nothing"
  /\ stored' = IF asked[m] = "expired" THEN None ELSE m
  /\ Render(applyStatus(m, asked[m]), poll)
  /\ UNCHANGED <<life, fixed, post, loads>>

\* initialize's catch: the stored id goes, whatever the error was; after a 404 a
\* new session is opened.
RecoverFails(m) ==
  /\ awaits = m /\ StatusDone(m)
  /\ stored' = None
  /\ \/ /\ asked[m] = "not_found"
        /\ requestNewSession
        /\ awaits' = "create"
        /\ UNCHANGED <<store, poll>>
     \/ /\ asked[m] = "failed"
        /\ Render(setError, poll)
        /\ awaits' = "nothing"
        /\ UNCHANGED post
  /\ UNCHANGED <<life, fixed, loads>>

\* Mutant: poll does not look at its cancelled flag.
PollsUncancelled(m) == awaits # m /\ store.sessionId # None

\* The poll effect that asked about m has not been cancelled.
Polls(m) == poll = "asking" /\ store.sessionId = m

Polled(m) ==
  /\ Polls(m) /\ StatusDone(m)
  /\ asked[m] \notin {"failed", "not_found"}
  /\ stored' = IF asked[m] = "expired" THEN None ELSE stored
  /\ Render(applyStatus(m, asked[m]), IF asked[m] = "expired" THEN "off" ELSE "timer")
  /\ UNCHANGED <<life, fixed, post, awaits, loads>>

\* "Stored session no longer exists": the loop ends, but a first ERROR reruns
\* the effect.
PollNotFound(m) ==
  /\ Polls(m) /\ StatusDone(m)
  /\ asked[m] = "not_found"
  /\ stored' = None
  /\ Render(setError, "off")
  /\ UNCHANGED <<life, fixed, post, awaits, loads>>

\* Mutant: a failed poll is the last one.
PollGivesUp(m) ==
  /\ Polls(m) /\ StatusDone(m)
  /\ asked[m] = "failed"
  /\ poll' = "off"
  /\ UNCHANGED <<life, fixed, store, stored, post, awaits, loads>>

\* Mutant: a poll that fails clears the stored session, as a load does.
PollForgets(m) ==
  /\ Polls(m) /\ StatusDone(m)
  /\ asked[m] = "failed"
  /\ stored' = None
  /\ Render(setError, "timer")
  /\ UNCHANGED <<life, fixed, post, awaits, loads>>

\* setRecoverableError: the status stays, the loop goes on.
PollFails(m) ==
  /\ Polls(m) /\ StatusDone(m)
  /\ asked[m] = "failed"
  /\ poll' = "timer"
  /\ UNCHANGED <<life, fixed, store, stored, post, awaits, loads>>

\* An answer nobody awaits: the effect that asked was cancelled.
Dropped ==
  /\ \/ PostDone /\ awaits # "create" /\ UNCHANGED asked
     \/ \E m \in Memos :
          StatusDone(m) /\ awaits # m /\ ~Polls(m) /\ UNCHANGED post
  /\ UNCHANGED <<life, fixed, store, stored, awaits, poll, loads>>

\* Another tab opens, recovers, drops or restarts a session.
OtherTab ==
  /\ ~alone
  /\ stored' \in {None} \union {m \in Memos : life[m] # "never"}
  /\ UNCHANGED <<life, fixed, store, post, asked, awaits, poll, loads>>

-----------------------------------------------------------------------------
Init ==
  /\ LifeInit
  /\ strict \in BOOLEAN /\ alone \in BOOLEAN
  /\ store = initialState
  /\ stored = None
  /\ post = "none"
  /\ asked = NoRequests
  /\ awaits = "nothing"
  /\ poll = "off"
  /\ loads = 0

Continue ==
  \/ SessionOpened \/ SessionRefused \/ Dropped
  \/ \E m \in Memos :
       Recovered(m) \/ RecoverFails(m) \/ Polled(m) \/ PollNotFound(m) \/ PollFails(m)

RequestEnds ==
  createPayment \/ \E m \in Memos : getPaymentStatus(m) \/ requestFails(m)

Next ==
  \/ LifeNext /\ UNCHANGED uiVars
  \/ initialize \/ restartSession \/ pollTimer \/ OtherTab
  \/ RequestEnds \/ Continue

Spec == Init /\ [][Next]_allVars

\* Requests end, if only by their timeout, the browser runs callbacks and
\* timers, and the requests about one session do not fail for ever.
Fairness ==
  /\ WF_allVars(RequestEnds) /\ WF_allVars(Continue) /\ WF_allVars(pollTimer)
  /\ \A m \in Memos : SF_allVars(getPaymentStatus(m))

FairSpec == Spec /\ Fairness

-----------------------------------------------------------------------------
(* Properties.                                                             *)

\* Types, and: only a page that has a session and does not know its outcome polls.
TypeOK ==
  /\ life \in [Memos -> Answers \union {"never"}]
  /\ strict \in BOOLEAN /\ alone \in BOOLEAN
  /\ store \in StoreType
  /\ stored \in Memos \union {None}
  /\ post \in Memos \union {"none", "sent", "failed"}
  /\ asked \in [Memos -> Answers \union {"none", "sent", "failed"}]
  /\ awaits \in Memos \union {"nothing", "create"}
  /\ poll \in {"off", "timer", "asking"}
  /\ loads \in Nat
  /\ poll # "off" => store.sessionId # None /\ store.status \notin {"CONFIRMED", "EXPIRED"}

\* The pass on the screen is one the server has signed, for the session on the
\* screen, after any restart, reload, failure or late answer.
PassShownIsSigned ==
  store.status = "CONFIRMED" =>
    /\ store.sessionId # None
    /\ store.accessData = "confirmed"
    /\ life[store.sessionId] \in {"confirmed", "not_found"}

\* A reload comes back to the session on the screen: while it waits or shows a
\* pass its id is in localStorage, and where the page offers a new session none
\* is.  No answer to a cancelled poll gets in between.  (Other tabs do.)
StoredIsShown == alone =>
  /\ store.status \in {"WAITING", "CONFIRMED"} => stored = store.sessionId
  /\ store.status \in {"EXPIRED", "ERROR"} => stored = None

\* A page that waits is never forgotten by its own callbacks: a poll is
\* scheduled or its request is under way, and so is what initialize awaits,
\* whatever other tabs do.
AlwaysAsking ==
  /\ store.status = "WAITING" =>
       poll = "timer" \/ (poll = "asking" /\ asked[store.sessionId] # "none")
  /\ store.status = "INIT" /\ loads > 0 /\ ~strict =>
       \/ awaits = "create" /\ post # "none"
       \/ awaits \in Memos /\ asked[awaits] # "none"

\* In a development build StrictMode cancels the run of the mount effect that
\* asked, and initializedRef stops the one that would ask again: whatever the
\* server answers, the page stays where it is.
StrictBuildHangs == strict => store.status = "INIT"

(* The inductive invariant.                                                *)

\* Requests are about sessions that exist, and their answers were true.
RequestsTrue ==
  \A m \in Memos :
    /\ asked[m] # "none" => life[m] # "never"
    /\ asked[m] = "confirmed" => life[m] \in {"confirmed", "not_found"}
    /\ asked[m] = "not_found" => life[m] = "not_found"

SessionsKnown ==
  /\ \A m \in {store.sessionId, stored, post} \intersect Memos : life[m] # "never"
  /\ store.status = "INIT" => store.sessionId = None

\* A page goes on polling for a session it was told is gone; it stays gone.
GoneStaysGone ==
  store.status = "ERROR" /\ store.sessionId # None =>
    /\ life[store.sessionId] = "not_found"
    /\ asked[store.sessionId] \in {"none", "sent", "failed", "not_found"}

\* What initialize and restartSession await is under way; they have the page
\* for themselves, and their session is the stored one.
AwaitsAgree ==
  /\ awaits # "nothing" => ~strict /\ store.status = "INIT"
  /\ awaits = "create" => post # "none" /\ (alone => stored = None)
  /\ awaits \in Memos => asked[awaits] # "none" /\ (alone => stored = awaits)

RecoveryInv ==
  /\ TypeOK
  /\ RequestsTrue
  /\ SessionsKnown
  /\ GoneStaysGone
  /\ AwaitsAgree
  /\ PassShownIsSigned
  /\ StoredIsShown
  /\ AlwaysAsking
  /\ StrictBuildHangs

-----------------------------------------------------------------------------
\* A page whose session is paid shows the pass, however many polls fail, unless
\* it is reloaded, the server forgets, or it was told "expired" before.
PaidPageShowsPass ==
  \A m \in Memos : \A l \in 0 .. MaxLoads :
    (/\ store.status = "WAITING" /\ store.sessionId = m
     /\ life[m] = "confirmed" /\ asked[m] # "expired" /\ loads = l)
      ~> \/ store.status = "CONFIRMED" /\ store.sessionId = m
         \/ life[m] = "not_found"
         \/ loads # l

\* While it waits for a session or shows its pass, the page forgets it only when
\* the server says that it is expired or unknown, however many requests fail.
\* Only the first request of a load may not fail: initialize forgets the session
\* whatever went wrong.
ForgottenOnAnswer ==
  [][alone /\ stored # None /\ stored' = None =>
       \/ asked[stored] \in {"expired", "not_found"}
       \/ awaits = stored /\ asked[stored] = "failed"]_allVars

\* A pass on the screen stays there until the page is reloaded: no late answer, no
\* restart of the server, no click and no other tab takes it off or changes it.
ShownPassStays ==
  [][store.status = "CONFIRMED" /\ loads' = loads => store' = store]_allVars
=============================================================================
