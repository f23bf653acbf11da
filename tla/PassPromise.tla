---------------------------- MODULE PassPromise ----------------------------
(***************************************************************************)
(* What the checkout server promises, whatever its polling, clock, paging  *)
(* and crashes do: a pass is granted only for a session somebody opened,   *)
(* at most once per session and at most once per payment, and only when    *)
(* the ledger holds a successful payment to the destination that carries   *)
(* the session's memo, amount and asset.                                   *)
(***************************************************************************)
EXTENDS Integers, Sequences

CONSTANTS Memos, NoMemo, Bodies, Transfers, Destination, Upper

VARIABLES
  ledger,   \* the network's payment records, oldest first
  wanted,   \* memo |-> what its session asked for; never forgotten
  granted   \* the passes: [memo, event_id, tx]

vars == <<ledger, wanted, granted>>

\* This record settles a session with this memo and request.
Pays(record, memo, body) ==
  /\ record.successful /\ record.type = "payment"
  /\ record.to = Destination
  /\ record.memo = memo
  /\ record.amount = body.amount
  /\ Upper[IF record.asset = "native" THEN "XLM" ELSE record.asset]
       = Upper[body.asset]

Init ==
  /\ ledger = << >>
  /\ wanted = << >>
  /\ granted = {}

Open(m, body) ==
  /\ m \notin DOMAIN wanted
  /\ wanted' = [x \in DOMAIN wanted \union {m} |->
                  IF x = m THEN body ELSE wanted[x]]
  /\ UNCHANGED <<ledger, granted>>

\* The network confirms some transfer, with any memo.
Settle(t, m) ==
  /\ ledger' = Append(ledger,
       [to |-> t.to, amount |-> t.amount, asset |-> t.asset,
        successful |-> t.successful, type |-> t.type, memo |-> m])
  /\ UNCHANGED <<wanted, granted>>

Grant(m, i) ==
  /\ m \in DOMAIN wanted
  /\ i \in DOMAIN ledger
  /\ Pays(ledger[i], m, wanted[m])
  /\ \A g \in granted : g.memo # m /\ g.tx # i
  /\ granted' = granted \union
       {[memo |-> m, event_id |-> wanted[m].event_id, tx |-> i]}
  /\ UNCHANGED <<ledger, wanted>>

Next ==
  \/ \E m \in Memos, body \in Bodies : Open(m, body)
  \/ \E t \in Transfers, m \in Memos \union {NoMemo} : Settle(t, m)
  \/ \E m \in Memos : \E i \in DOMAIN ledger : Grant(m, i)

Spec == Init /\ [][Next]_vars
=============================================================================
