------------------------------- MODULE MCGate -------------------------------
(* Small instances of Gate for TLC.                                        *)
EXTENDS Gate, TLC

CONSTANTS m1, m2

MCMemos == {m1, m2}
MemoSymmetry == Permutations(MCMemos)

MCBodies == {[amount |-> "10.0000000", asset |-> "XLM", event_id |-> "gala"]}

MCTransfers ==
  {[to |-> "venue", amount |-> "10.0000000", asset |-> "native",
    successful |-> TRUE, type |-> "payment"]}

MCUpper == [a \in {"XLM"} |-> a]
=============================================================================
