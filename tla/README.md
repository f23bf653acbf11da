# The HASKE / Lightning Pass checkout in TLA+

A buyer opens a payment session, pays on a ledger (Stellar; Lightning in the older server), gets a
signed access pass, and shows it at a door whose verifier is offline. This directory models that
path in TLA+, checks it with TLC on small instances, and proves its safety properties with TLAPS
for every value of the constants.

Contents: [the system](#the-system) · [modules](#modules) · [state and
actions](#from-code-to-model) · [runs](#runs) · [bounds](#bounds) · [fairness](#fairness) ·
[proofs](#proofs) · [what the code does not keep](#what-the-code-does-not-keep) ·
[assumptions](#modelling-assumptions) · [not modelled](#not-modelled) · [plan](#plan)

## The system

```
 buyer's browser                    api_server                              Stellar network
 web/checkout.html --POST-->  create_payment_request --insert--> sessions
 haske-ui          --GET--->  payment_status / access_token <--read-+
        |                                                           |  Horizon
        | shows QR, buyer pays ------------------------------------ | --> ledger
        |                     watcher: snapshot -> lookup -> issue -> mark_paid
        v                                  find_confirmed_payment <----+
 pass (JSON) ----------> verifier_cli at the door: public key and clock of its own

 lightning_node: create_invoice -> sessions, payment_index;  Breez events -> handle_payment tasks
 bin/mock.rs:    the same routes without a node
```

| component | state | operations | interacts with |
|---|---|---|---|
| session store and API (`api_server` routes, `payment_service.rs`, `state.rs`, `main.rs`) | the map of sessions, in memory; the signing key, configured or drawn at startup | open a session; read status; read pass; snapshot of unpaid sessions; mark paid | browser (HTTP), watcher (shared map under a lock) |
| watcher and pass issuing (`watcher_service.rs`, `access_service.rs`) | copies of the sessions of this round, the one it awaits Horizon for | tick and snapshot; lookup; issue; mark paid; skip a failure | store, adapter, signer |
| Stellar adapter (`stellar_adapter`, `payment_core`) | none | read one page of 200 payments, pick the newest match, parse it | Horizon (HTTP) |
| access tokens (`access_token`) | none | sign and verify, a JSON and a compact format | both servers, verifier |
| verifier (`verifier_cli`) | a public key, a clock | VALID or INVALID | the buyer only: it is offline |
| checkout page (`web/checkout.html`) | store (state, session, last answer), its copy in localStorage, poll timer, 850 ms timer, countdown | create, poll, retry, restore after reload, show the pass | API, with retries and timeouts |
| React checkout (`haske-ui`) | payment store, session id in localStorage, two effects with their cancelled flags, requests shared by all of them | recover or open a session on load, poll, restart | API; its own other tabs, through localStorage |
| Lightning server (`lightning_node`) | sessions and an index by payment hash under two locks; the node's invoices; how far `main` has come | connect, ask a faucet for funds, create invoice; event listener; one task per payment event; status | Breez node (callbacks), faucet (HTTP), browser |
| mock server (`lightning_node` `bin/mock.rs`) | sessions under one lock | create invoice; two status routes, each of which draws the token when it finds the invoice due | browser, in place of the Lightning server |

What is hard here, and what makes each part correct:

- **Stale copies across an await.** The watcher clones sessions, awaits Horizon once per copy, and
  then signs and stores by the copy; handlers write the map meanwhile. Correct means: a copy it
  acts on is still what the store holds, unpaid, and acted on once.
- **Wrong, late or repeated payments.** Failed ones, other assets, other recipients, two payments
  with one memo, records in any order, a page of limited size. Correct means: a pass names a
  payment that is its session's, and neither session nor payment is ever served twice, over
  restarts too.
- **Restarts** empty the store and, without a configured key, draw a new signing key. Correct means: nothing
  signed before is granted again, and with a stable key passes keep opening the door.
- **Expiry against everything else**: against a lookup under way, against the pass's own life,
  against two clocks, at the boundary second.
- **Two writes under two locks** in the Lightning server, read in the opposite order by tasks;
  events that come twice or before a handler is set; a startup that awaits a node and a faucet.
  Correct means: no payment falls between the writes, and what a client sees of an invoice settles
  once, with one token.
- **A page of callbacks**: answers that overtake clicks and countdowns, timers whose handles are
  lost, reloads between any two of them. Correct means: it shows a pass only if one was signed,
  loses nothing in a reload, and never waits forever. The React client has another design for the
  same hazards, cancelled effects and a shared request cache, with hazards of its own: an effect
  that runs twice, an answer that outlives the effect that asked, a loop nobody re-arms.
- **Liveness**: a paid session is settled although other lookups fail or come first. It is not when
  its payment has left the page of 200 or its own pass does not fit in a QR code: the code gives no
  pass then, and `PaidSessionSettles` names both.

Each of these is listed in `PROJECT.json` under "hazards" at the line where it bites, with the
properties that would catch it, or why there is none.

## Modules

| module | models |
|---|---|
| `StellarAdapter` | the adapter as functions of the ledger: page, match, newest hit, parse |
| `Checkout` | the server: handlers, store, watcher, signing, clock, network, restarts (EXTENDS StellarAdapter) |
| `PassPromise` | abstract: which passes may ever be granted. `Checkout` implements it (`KeepsPromise`) |
| `SessionLife` | abstract: what the status endpoint answers over time. `Checkout` implements it (`KeepsLife`), `CheckoutPage` and `RecoveryPage` are built on it |
| `CheckoutClaims` | what documents and screens say of the server and it does not keep |
| `AccessToken` | verification in both formats, as the verifier does it |
| `Gate` | `Checkout` composed with buyers who keep passes and an offline device at the door |
| `LightningPass` | the Lightning server, its startup and its node |
| `MockServer` | the mock backend |
| `InvoiceLife` | abstract: what the invoice routes answer over time. `LightningPass` and `MockServer` implement it (`KeepsInvoiceLife` in each) |
| `CheckoutPage` | the static checkout page as one event loop, against `SessionLife` |
| `RecoveryPage` | the React checkout, against `SessionLife` |
| `Shop` | `Gate` and `RecoveryPage` composed: the React checkout against the server itself |
| `MCCheckout`, `MCGate`, `MCLightning`, `MCMock`, `MCPage`, `MCRecovery`, `MCShop` | instances for TLC |
| `CheckoutProofs`, `GateProofs`, `LightningProofs`, `MockProofs`, `PageProofs`, `RecoveryProofs`, `ShopProofs` | theorems and proofs |
| `StaticShopProofs` | `Gate` and `CheckoutPage` composed by conjunction: the static page against the server itself, with its proofs |

The abstract modules are where the parts meet. A page is studied against `SessionLife`, at a
fraction of the states of the whole server, and that the server is a `SessionLife` is proved
(`LifeKept`). That the page then behaves the same in front of the server is not left to the
reader: `Shop` composes the two, `KeepsPage` says it, and `ShopKeepsPage` proves it. The static
page is composed in `StaticShopProofs` without a next-state relation of its own: a behaviour of the
whole is one of `GateSpec` and, with what the server answers for `life`, one of the page's `Spec`.
A request the server handles is then one step of both. The page's specification takes nothing from
the server by this: every step of the server is one of `SessionLife` (`LifeKept`), and each of
those is open to a page that stands still.
`InvoiceLife` is what makes the mock a stand-in: a client that relies on no more than the invoice's
life cannot tell the two servers apart.
`Gate`, which needs the server's ledger and keys, is composed with `Checkout` itself.

Properties that carry a mutant in `PROJECT.json` have the mutated operator beside the definition
it replaces, under a comment that starts with "Mutant"; no specification uses them.

## From code to model

Definitions keep the names of the source where they can; `PROJECT.json` "map" gives the lines of
each.

**Checkout.** `sessions` is `PaymentService.sessions`. `requests` and `issued` are history: every
session ever opened and every pass ever signed, which restarts do not erase; no guard reads them
except where a memo must be fresh and a nonce unused. `CreatePaymentRequest` stores the session
before it renders the QR, as the handler does, so a session whose QR cannot be rendered is stored
and never `Shown`. The watcher is `PollTick` (snapshot), then per copy `AskHorizon`, one of
`LookupFound`, `LookupEmpty`, `LookupFailed`, and `IssueAndMarkPaid` or `IssueFails`. Signing and
`mark_paid` are one step since nothing shared is read between them. The status is computed, not
stored (`StatusOf`), as in `to_status_response`.

**Gate.** `LoadPublicKey` gives the device the server's present key, `drift` is the difference of
the clocks, `Scan` is `verifier_cli`'s VALID. `admitted` is history.

**LightningPass.** `MakeInvoice`, `StoreSession` and `IndexAndDisclose` are the three parts of
`create_invoice` between which other tasks run; the clock is read between the first two, at any
instant since the node made the invoice (`ClockRead`), and QR codes are rendered before the store's
lock is taken; `OnEvent` is the Breez listener (a dropped event
when no handler is set, a spawned task otherwise), `ReadIndex` and `SettleSession` are the two
halves of `handle_payment`, which takes the second lock after releasing the first. `Serve` is the
last statement of `main`, `SetHandler` the one that comes before, and `Connect`,
`NewOnchainAddress`, `FaucetAnswers`, `BindFails` are the awaits before those, in the variable
`startup`. `GetInvoice` is what both status routes answer; they change nothing, so they are no
actions but the state function that `InvoiceLife` is about.

**MockServer.** `check_invoice` is both status routes, which are the same code twice. They change
the store, so what they answer cannot be a function of the state as above: `answered` is history,
the last answer about each invoice, and `InvoiceLife` is about that.

**CheckoutPage.** One action per callback, whole: the transition, its save to localStorage, and
the timers it sets or stops. `calls` holds the requests under way with their retries;
`ServerAnswers`, `AttemptFails`, `CallThrows` are `fetchJson`; `PostReturns`, `handleExpired`,
`handleConfirmed`, `handleWaiting` continue after its await, in whatever state the page has got
into by then. `lost_timers` counts 850 ms timers whose handle was overwritten, which `stopTimers`
cannot clear.

**RecoveryPage.** `store` is the zustand store, `post` and `asked` are `createSessionPromise` and
`statusRequestCache`, with the answers of requests that have ended and whose callbacks have not
run. `awaits` is where `initialize` or `restartSession` stands, `poll` where the poll effect does.
`Render` is a change of the store with what React does about it: the poll effect is cancelled and
run again if the session or the status has changed, and goes on otherwise. An answer nobody awaits
is `Dropped`; that is the `cancelled` flag. `MountedLive` computes from `RunEffect` and `CleanUp`
whether the run of the mount effect that asked is still live once the page is mounted: under
StrictMode it is not. `OtherTab` writes to localStorage whatever another tab may.

**Shop.** `UI` is `RecoveryPage` with `life` read off the server (`Answered`). `OthersStep` is a step
of `Gate` alone, `PageStep` one of the page alone, and the two requests are the steps they share:
`PageCreates` is `create_payment_request` and its answer, `PageAsks` is `get_payment_status` and
its answer. What crosses the line is the pass: a "confirmed" comes with it, so the buyer has it
then (`saved`).

## Runs

| run | asks | shows |
|---|---|---|
| `checkout` | safety of the server, both refinements | `PassBackedByPayment`, `OnePass`, `StoreShowsIssuedPass`, `SnapshotIsCurrent`, `PassIsFinal`, `ExpiredOutOfFlightIsFinal`; `RoundsProgress`; implements `PassPromise` and `SessionLife`; `IndInv` holds |
| `settle` | does a paid session settle? | `PaidSessionSettles`, with failing lookups, unissuable passes and other sessions in the way |
| `gate_stable` | door, configured key | `EntryIsPaid`; `DownloadedPassOpens` over restarts and key reloads, with clocks one second apart either way |
| `shop` | server, door and React checkout together, key drawn at startup | `PassOnScreenIsPaid`: from the ledger to the screen; `KeepsPage`: the page meets nothing in the shop that it does not meet against `SessionLife`; `ReloadDropsOldPasses` at the door; `ShopInv` holds |
| `lightning` | Lightning server | `NoPaymentLost`, `DisclosedIsReachable`, `SettledIsPaid`, `PassOpensWhilePayable`, `PaidInvoiceSettles`; `ServerStarts` unless the faucet never answers; implements `InvoiceLife`; `ServerInv` holds |
| `mock` | mock server | `AnswersKept`; implements `InvoiceLife` |
| `page` | checkout page | `PassShownIsConfirmed`, `SavedInStep`, `WaitingIsTimed`, `PageComesToRest`; `PageInv` holds |
| `recovery` | React checkout | `PassShownIsSigned`, `StoredIsShown`, `AlwaysAsking`, `ShownPassStays`, `PaidPageShowsPass`, `ForgottenOnAnswer`, and `StrictBuildHangs`; `RecoveryInv` holds |
| `claim_...` (four) | a statement of the repository | a counterexample, see [below](#what-the-code-does-not-keep) |

The type invariants are conjuncts of the inductive invariants the runs check (`IndInv`, `ServerInv`,
`PageInv`, `RecoveryInv`), and are not listed beside them. `MockInv` is `AnswersKept` with types.

Deadlock is checked in the runs of `Checkout`, `Gate` and `Shop`, where the watcher can always go on, and
of `MockServer`, which always answers. It is not in those of `LightningPass` and of the pages: a
server whose invoices are all settled has nothing to do, and neither has a page that shows its
pass.

Three properties of the React checkout state what the code does and a reader may not expect.
`ForgottenOnAnswer` allows one exception: when the first request of a load fails, for whatever
reason, `initialize` clears the stored session id (useSessionRecovery.js:154), so a reload while the
server is unreachable loses the session, paid or not. `StrictBuildHangs` says that a development
build never shows a session: the mount effect's first run is cancelled by StrictMode and
`initializedRef` makes the second return at once. And `PaidPageShowsPass` excludes a session that
the page was told is expired: the server settles one whose lookup was under way when it expired,
but the page has stopped asking.

## Bounds

| bound | value | why it is enough |
|---|---|---|
| sessions (`Memos`) | 2, interchangeable (symmetry) in the safety runs | one to settle and one to be confused with, in the snapshot, on the ledger, or replaced on the page |
| `MaxPayments` | 3 (`checkout`), else 2 | a right payment, a second right one, a near miss; more than a page holds |
| `Transfers` | right, failed, wrong asset, wrong recipient with wrong amount and type | one near miss per comparison that the mutants drop; `gate` and liveness runs use the right one only |
| `Window` | 2 (1 in `settle`) | smaller than the number of payments, so that a payment is pushed off the page |
| `RequestTtl`, `TokenTtl`, `MaxNow` | 1 to 3 | the instant before, at and after each expiry |
| `MaxNow`, `MaxPayments`, `MaxLoads` of `shop` | 1, 1, 2 | an expiry, a payment and a reload, each at any step of the others; what more of one kind can do is checked of each part alone |
| `MaxRestarts` | 1 | a restart at any step, with passes signed before and after it |
| `MaxDrift` | 1 (`gate_stable`), else 0 | a device ahead of and behind the server |
| `Hashes`, `Ids`, `MaxNotices` | 2 each | two invoices crossing in the two writes; an event repeated |
| `MaxRetries`, `MaxCalls`, `MaxLoads` of `page` | 1, 2, 2 | a retry; a request overtaken by the next one; a first load and a reload |
| `MaxLoads` of `recovery` | 3 | a load that opens, one that recovers or forgets, one after that |
| `Ids`, `Tokens`, `SETTLE_AFTER_SECS`, `MaxNow` of `mock` | 2, 2, 2, 5 | two invoices, a token that could be replaced by another; a second before, at and after the settling time |

The proofs use no bound except as a number: they hold for all values.

## Fairness

Safety properties need none. For the liveness properties:

- *Server* (`PaidSessionSettles`): weak fairness of `Watcher`, since `run_payment_watcher` is a
  spawned task whose loop has no exit and skips failures. Strong fairness of a successful lookup
  per session is an **assumption on Horizon**: it does not fail every time it is asked about the
  same session. That it answers at all is one too, as the HTTP client sets no timeout. Nothing is
  assumed of buyers, payments, the clock or restarts.
- *Lightning* (`PaidInvoiceSettles`): the node announces each payment at least once (an assumption
  on Breez), and tokio runs the tasks that were spawned for it. For `ServerStarts`: `main` runs,
  and the node answers what it is asked. Nothing is assumed of the faucet, whose client has no
  timeout: the property names its silence as the one thing that keeps a server from starting.
- *Page* (`PageComesToRest`): browser timers fire; a request ends, by its timeout if nothing else
  (`fetchJson` aborts); the countdown runs towards a fixed instant and so gets there. Nothing is
  assumed of the server, the buyer or reloads.
- *React checkout* (`PaidPageShowsPass`): timers and callbacks run; requests end, by their timeout;
  and, strongly fair, the status request about one session does not fail every time, as for
  Horizon above. Nothing is assumed of other tabs, clicks, reloads or the server.

## Proofs

All theorems hold for every value of the constants under the named `ASSUME`s of the modules:
counts are naturals, `None` is none of the values it stands apart from, `Window` is positive. TLC
evaluates them on every run. `StaticShopProofs` declares the page's constants beside the server's,
and its theorems have the page's assumptions as a hypothesis, `PageAssumptions`: the same ones.

| theorem | says | rests on |
|---|---|---|
| `TypeCorrect`, `Inductive` | `Spec => []TypeOK`, `[]IndInv` | `CheckoutProofs` |
| `SnapshotCurrent`, `Backed`, `OnePassEver`, `StoreShows` | the server's invariants | `IndInv` |
| `PassNeverReplaced`, `ExpiredStays` | its action properties | `IndInv` |
| `BooksBalance` (`CheckoutProofs`) | never more passes than payments received | `IndInv` |
| `RoundsGoOn`, `RoundsAreFinite`, `LookupReturns` | the watcher: each of its steps brings a round nearer to its end, a round is finite, a lookup has one result | `IndInv` |
| `Refinement`, `LifeKept` | it implements `PassPromise`, and `SessionLife` | `IndInv` |
| `EntryPaid`, `PassOpens`, `OldPassesDropped` | the door | `GateInv`, which contains `IndInv` |
| `EntriesBalance` | never more different passes at the door than payments received | `GateInv` |
| `RefusedStays` | a refused pass stays refused, but for a newer key | `GateInv`, `DeviceKeyKnown` |
| `ServerInvariant`, `TypeCorrect`, `DisclosedReachable`, `SettledPaid`, `PassOpens`, `NothingLost`, `OnePassPerPayment` | the Lightning server | `ServerInv` |
| `BooksBalance` (`LightningProofs`) | never more settled sessions than invoices paid | `ServerInv` |
| `LightningKeepsInvoiceLife` | it implements `InvoiceLife` | `ServerInv` |
| `MockInvariant`, `AnswersAreKept`, `MockKeepsInvoiceLife` | the mock, and that it implements `InvoiceLife` too | `MockInv` |
| `PageInvariant`, `TypeCorrect`, `ShownIsConfirmed`, `SavedAlways` | the static page | `PageInv` |
| `NeverForgotten` | the static page never waits without its countdown | `PageInv`, with which it is inductive |
| `RecoveryInvariant`, `TypeCorrect`, `ShownIsSigned`, `StoredShown`, `NeverIdle`, `StrictHangs`, `ForgottenOnly`, `ShownStays` | the React checkout | `RecoveryInv` |
| `ShopInductive`, `ScreenPaid`, `ScreenOpens`, `ScreenStays` | the whole: what is on the screen is paid for, opens the door, and stays | `ShopInv`, which contains `GateInv` and `RecoveryInv` |
| `ShopKeepsGate`, `ShopKeepsPage` | in the shop, server and door step as they do alone, and so does the page | `ShopInv` |
| `StaticPagePaid`, `StaticPageOpens` | the static page in front of server and door: what it shows is paid for and opens the door | `GateInv`, `PageInv` and `AnswersSigned` |

Why the invariants are what they are:

- **`IndInv`.** `OnePass` is not inductive: nothing in it says that the copy the watcher is about
  to settle was not settled already. `SnapshotIsCurrent` says that a copy in flight is the store's
  record and unpaid; it survives because handlers only add sessions under fresh ids and the
  watcher writes only the session it lets go of. `SettledOrUntouched` says that an unpaid session
  has no pass among all ever signed. `FoundPaysSession` carries the answer of the lookup across
  the step between finding and signing; it survives because the ledger only grows. That no payment
  buys two passes needs no part of its own: each pass names a payment with its session's memo, and
  sessions are served once. That sessions survive restarts only as history is why
  `OnePassPerSession` speaks of `issued` and not of the store.
- **`GateInv`** adds where passes and keys come from: everything downloaded was issued; with a
  configured key all keys are one, without one a pass with the present key belongs to a session of
  the present process.
- **`ServerInv`** adds to the properties: the handler is set before anything is served, what a
  call or task holds between its two steps is still what the store holds, the index never runs
  ahead of the store, a session outlives its invoice. `NoPaymentLost` needs two more facts: no two
  calls make the same invoice (`CallsApart`), else a second write to the index would lead the task
  of the first elsewhere; and a task that has read the index has read the session of its own hash,
  which is what it settles, also when the session has expired by then.
- **`PageInv`** adds `CallsKnown`: a "confirmed" that is still under way was true when it was
  given and can only have turned into "not_found" by a restart. Without it nothing is known of an
  answer when it arrives. `LifeGoesOn` proves the monotonicity from `SessionLife`.
- **`MockInv`** relates the store to what was last answered; the refinement reads each step off it.
- **`RecoveryInv`.** `StoredIsShown` depends on who awaits what: `AwaitsAgree` says that while
  `initialize` or `restartSession` awaits an answer the store is at INIT, so no poll runs beside
  them, and that the session they await is the stored one. `RequestsTrue` is the `CallsKnown` of
  this page. `GoneStaysGone` is needed because a page told that its session is gone goes on polling
  for it (the change to ERROR runs the effect again): only since the answer can never be another
  one does it not fall back to WAITING with nothing stored.

- **`ShopInv`** is the two inductive invariants, of `Gate` and of `RecoveryPage`, and one sentence
  about what passes between them, `AnswersSigned`: a page that was answered "confirmed", or shows a
  pass, has one that was signed for that very session. It survives because the signed history and
  the buyers' passes only grow. `PassOnScreenIsPaid` follows with `PassBackedByPayment`. Nothing is
  proved twice: `ShopProofs` instantiates the theorems about the page with the server for
  `SessionLife`.

- **The static page's whole** has the same third part, `AnswersSigned`, in its own words: a
  "confirmed" under way, taken in or saved is about a session with a signed pass. `CallsTraced` and
  `DataTraced` in `PageProofs` say where each answer and each store can come from, so that the proof
  has one case for each origin and none for each handler. `PageInv` then says that a page showing a
  pass was told "confirmed", and `PassBackedByPayment` that the pass was paid for. The theorems are
  about one page, whatever else the server is doing meanwhile for others.

The theorems that count do so without induction. Each pass has a payment among those received
(`ReceivedForPass`), and no two share one (`OnePass`), so that the map from passes to payments is an
injection into a finite set; the entries at the door and the settled invoices are counted likewise.
`RefusedStays` rests on two things that only move forward: the device's clock, and its key, which
is one the server has had and is replaced only by the server's present one (`DeviceKeyKnown`).

The liveness properties have safety halves, which are proved. For `PaidSessionSettles`:
`RoundsProgress` says that a round takes up exactly the sessions that wait, and that each step of
the watcher brings it nearer to its end without dropping any; rounds are finite, and a lookup that
is answered has one newest match or none. That leaves to fairness only that the watcher takes its
steps and that Horizon answers. For `PaidInvoiceSettles`: `NoPaymentLost`, which leaves that the
node announces the payment and that spawned tasks run. For the pages: `NeverForgotten` and
`NeverIdle`.

The counting theorems, `RefusedStays` and those about the static page's
whole are in no run of their own; the invariants they rest on are.

Only model-checked, with TLC: the liveness properties (fairness is beyond the provers), and of
course the claims.

## What the code does not keep

Four runs expect a violation, each of one sentence of the repository: three of what a page tells
its buyer or asserts, and one, for `claim_qr_payment`, of what an open issue requires. `PROJECT.json`
"findings" quotes them.

| run | sentence | what happens |
|---|---|---|
| `claim_pass_live` | "Ready for Entry" (AccessPass.jsx:56) | a pass's life is counted from the creation of the session: 300 s by default, while the session may be paid for 900 s |
| `claim_qr_payment` | matching is "not broken by ... `10` vs `10.0000000`" (docs/github_issues_backlog.md:209) | amounts are compared as strings; the default request asks for `10` |
| `claim_timer` | "Illegal transition" (checkout.html:619) | an answer that overtakes the countdown sets the 850 ms timer on an expired page; it throws and the pass is not shown |
| `claim_this_session` | "The current payment session can no longer be used." (checkout.html:769) | the answer about a replaced session expires the page of its successor |

## Modelling assumptions

- A record's position on the ledger stands for its transaction hash; Horizon lists records oldest
  to newest in that order. Its `memo` is where the code reads it, on the record.
- Memos, invoice ids and nonces, drawn from 62^12 and more, are never drawn twice. A memo cannot
  be used before its buyer was shown it.
- Amounts, assets, accounts and events are tokens: the code only compares them, assets without
  case (`Upper`). Asset issuers do not occur in the code.
- Signatures cannot be forged: a token is the triple of format, key and expiry.
- The clocks are integers without overflow; the server's only moves forward; a device's may differ
  from it, by a constant.
- A handler's work under one lock is one step. A clock read on the way to that lock is read in the
  same step where nothing but the wait for it lies between (`insert_session`, the mock's
  `create_invoice`). The Lightning server's payment happens before the
  invoice expires, by the node's own rule; its token always fits its QR.
- The static page is one tab; what other tabs may do to it is modelled for the React client only,
  whose properties say which of them hold alone. Sessions opened by attempts whose answer was lost are among those that open
  on their own in `SessionLife`.

## Not modelled

- The rendering of QR codes: only whether a text fits matters to the control.
- Of `lightning_node`: `pay_invoice`, which nothing calls. Of `bin/mock.rs`: a clock set back, the
  invoice's text, and its expiry, which is answered and decides nothing.
- Of `access_token`: the nonces and key pairs no program draws through it. Of `haske-ui`: the
  components, which show what the store holds and change nothing.
- Two tabs of `web/checkout.html` over one localStorage. `web/plan.html` presents a plan and has no state of the system.
- `vendor/ldk-node`: third-party code that no crate of the workspace uses.
- Removal of sessions: there is none, and the growth of the map is not a property of the model.

## Plan

Done, in this order: server and its proofs; door; Lightning server; session life and checkout
page; proofs of each; React checkout, mock server, invoice life and the Lightning server's startup,
with their proofs; the safety halves of the liveness properties; the shop, the composition of
server, door and React checkout, with its proofs; the books of both servers and of the door; the
static page in front of server and door.

What could be added, the most useful first:

1. **`InvoiceLife` as a client sees it**, with requests under way when a server restarts.
2. **Two tabs** of the static page, as `OtherTab` does for the React client.
