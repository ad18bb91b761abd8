------------------------------- MODULE MCLedger -------------------------------
(***************************************************************************)
(* Instances of the ledger for TLC: the markets, intents and connector      *)
(* events that its configurations choose from.                              *)
(***************************************************************************)
EXTENDS LedgerReads, TLC

Market(sym, side, qty) ==
    [sym |-> sym, side |-> side, kind |-> "MARKET", qty |-> qty, price |-> 1]
Limit(sym, side, qty, price) ==
    [sym |-> sym, side |-> side, kind |-> "LIMIT", qty |-> qty, price |-> price]
Flat(price) == [low |-> price, high |-> price, close |-> price]

\* A paper account: a long is opened while a second order reduces it, rests at
\* a limit, or buys in another market out of the same balance.
PaperIntents ==
    [c1 |-> {Market("btc", "BUY", 3)},
     c2 |-> {Market("btc", "SELL", 2), Limit("btc", "SELL", 1, 2), Market("eth", "BUY", 2)}]

SingleIntent == [c1 |-> {Market("btc", "BUY", 1)}]

\* The paper adapter always acknowledges; a connector's answer may be a refusal,
\* none at all, or an acknowledgment without a name.
PaperReceipts == {[status |-> "ACKNOWLEDGED", named |-> TRUE]}
ConnectorReceipts ==
    PaperReceipts \cup {[status |-> "ACKNOWLEDGED", named |-> FALSE],
                        [status |-> "REJECTED", named |-> TRUE],
                        [status |-> "UNKNOWN", named |-> FALSE]}

\* No order can meet the first candle; the market may rise in the third.
RisingCandles == [m \in 1..MaxMinute |-> IF m # 3 THEN {Flat(1)} ELSE {Flat(1), Flat(2)}]
FlatCandles == [m \in 1..MaxMinute |-> {Flat(1)}]

\* A connector account: an order is filled in parts, by reports that may
\* arrive late, twice or with a stale sequence.
ConnectorIntents == [c1 |-> {Market("btc", "BUY", 3)}, c2 |-> {Market("btc", "SELL", 3)}]
FillIdSymmetry == Permutations(ExternalFillIds)
ConnectorEvents == {[qty |-> 1, price |-> 2, fee |-> 3], [qty |-> 2, price |-> 1, fee |-> 0],
                    [qty |-> 3, price |-> 2, fee |-> 1]}
===============================================================================
