--------------------------- MODULE StellarAdapter ---------------------------
(***************************************************************************)
(* The Stellar adapter as functions of the ledger: which payment record of *)
(* a Horizon page find_confirmed_payment returns, and what parse_payment   *)
(* keeps of it.  The ledger is a sequence of Horizon payment records,      *)
(* oldest first; a record's position stands for its transaction hash.      *)
(*                                                                         *)
(* Amounts, assets, accounts and memos are tokens: the code only compares  *)
(* them for equality, assets without regard to case (Upper).               *)
(***************************************************************************)
EXTENDS Integers, Sequences

CONSTANTS
  Memos,        \* strings generate_memo can return; a session's id is its memo
  NoMemo,       \* the memo of a transaction that carries none of Memos
  Transfers,    \* [to, amount, asset, successful, type]: what Horizon may list
  Destination,  \* the account that receives payments
  Upper,        \* asset name |-> its upper-case spelling
  Window        \* records in one Horizon page (200 in the code)

ASSUME MemoAssumption == NoMemo \notin Memos
ASSUME TransferAssumption == \A t \in Transfers : t.successful \in BOOLEAN
ASSUME WindowAssumption == Window \in Nat \ {0}

\* A payment record of Horizon: a transfer and the memo of its transaction.
PaymentRecord ==
  [to : {t.to : t \in Transfers}, amount : {t.amount : t \in Transfers},
   asset : {t.asset : t \in Transfers}, type : {t.type : t \in Transfers},
   successful : BOOLEAN, memo : Memos \union {NoMemo}]

\* The native asset is called XLM, any other goes by its asset code.
AssetName(asset) == IF asset = "native" THEN "XLM" ELSE asset

PaymentEvent ==
  [tx_hash : Nat \ {0}, destination_account : {t.to : t \in Transfers},
   amount : {t.amount : t \in Transfers},
   asset : {AssetName(t.asset) : t \in Transfers},
   memo : Memos \union {NoMemo}]

\* parse_payment of the i-th record.
parse_payment(ledger, i) ==
  [tx_hash |-> i,
   destination_account |-> ledger[i].to,
   amount |-> ledger[i].amount,
   asset |-> AssetName(ledger[i].asset),
   memo |-> ledger[i].memo]

\* Mutants of Matches: a comparison is forgotten.
MatchesUnsuccessful(record, memo, amount, asset) ==
  /\ record.type = "payment"
  /\ record.to = Destination
  /\ record.memo = memo
  /\ record.amount = amount
  /\ Upper[AssetName(record.asset)] = Upper[asset]

MatchesAnyMemo(record, memo, amount, asset) ==
  /\ record.successful
  /\ record.type = "payment"
  /\ record.to = Destination
  /\ record.amount = amount
  /\ Upper[AssetName(record.asset)] = Upper[asset]

\* The test a record passes in find_confirmed_payment.
Matches(record, memo, amount, asset) ==
  /\ record.successful
  /\ record.type = "payment"
  /\ record.to = Destination
  /\ record.memo = memo
  /\ record.amount = amount
  /\ Upper[AssetName(record.asset)] = Upper[asset]

\* payments_for_account: one page, newest first, that is the last Window
\* records.
Page(ledger) == {i \in DOMAIN ledger : i > Len(ledger) - Window}

\* The records of the page find_confirmed_payment may return.
Hits(ledger, rec) ==
  {i \in Page(ledger) :
     Matches(ledger[i], rec.session_id, rec.amount, rec.asset)}

\* It returns the first of the page: the newest.
IsNewestHit(ledger, rec, i) ==
  /\ i \in Hits(ledger, rec)
  /\ \A j \in Hits(ledger, rec) : j <= i
=============================================================================
