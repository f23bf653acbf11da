----------------------------- MODULE MCCheckout -----------------------------
(* Small instances of Checkout for TLC.                                    *)
EXTENDS CheckoutClaims, TLC

CONSTANTS m1, m2

MCMemos == {m1, m2}
OneMemo == {m1}
MemoSymmetry == Permutations(MCMemos)

\* One upper and one lower case request for the same event and price, as the
\* checkout page's XLM default and a hand-written client may send them.
MCBodies ==
  {[amount |-> "10.0000000", asset |-> "XLM", event_id |-> "gala"],
   [amount |-> "10.0000000", asset |-> "xlm", event_id |-> "demo"]}

\* What create_payment_request fills in for an empty body.
DefaultBodies == {[amount |-> "10", asset |-> "XLM", event_id |-> "demo-event"]}

\* A price whose wallet QR fits but whose event id overflows the pass QR, and
\* an amount that overflows even the wallet QR.
HugeBodies ==
  {[amount |-> "10.0000000", asset |-> "XLM", event_id |-> "gala"],
   [amount |-> "10.0000000", asset |-> "XLM", event_id |-> "very long"],
   [amount |-> "very long", asset |-> "XLM", event_id |-> "gala"]}

Transfer(to, amount, asset, ok, type) ==
  [to |-> to, amount |-> amount, asset |-> asset, successful |-> ok, type |-> type]

Good == Transfer("venue", "10.0000000", "native", TRUE, "payment")

\* The right payment and its near misses.
MCTransfers ==
  {Good,
   Transfer("venue", "10.0000000", "native", FALSE, "payment"),
   Transfer("venue", "10.0000000", "USDC", TRUE, "payment"),
   Transfer("other", "1.0000000", "native", TRUE, "path_payment")}

GoodOnly == {Good}

MCUpper == [a \in {"XLM", "xlm", "USDC"} |-> IF a = "xlm" THEN "XLM" ELSE a]
\* Horizon lists amounts with seven decimals.
MCListed == [a \in {"10", "10.0000000"} |-> "10.0000000"]
=============================================================================
