------------------------------- MODULE MCShop -------------------------------
(* Small instances of Shop for TLC.                                        *)
EXTENDS Shop

CONSTANTS m1, m2

MCMemos == {m1, m2}

MCBodies == {[amount |-> "10.0000000", asset |-> "XLM", event_id |-> "gala"]}

MCTransfers ==
  {[to |-> "venue", amount |-> "10.0000000", asset |-> "native",
    successful |-> TRUE, type |-> "payment"]}

MCUpper == [a \in {"XLM"} |-> a]
=============================================================================
