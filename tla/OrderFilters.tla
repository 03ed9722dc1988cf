---------------------------- MODULE OrderFilters ----------------------------
(***************************************************************************)
(* What keeps an order of the engine back, and what becomes of its size:   *)
(* the equity curve that the cycle asks, the checks of _execute_trade      *)
(* before the gates, risk parity, stop and target.                         *)
(*                                                                         *)
(* Money is in whole units, lots in hundredths, distances of prices in     *)
(* units of 0.00001.  A book is a function of the symbols in it, as is     *)
(* risk.open_positions.                                                    *)
(***************************************************************************)
EXTENDS Integers, Sequences, SequencesExt

(* WATCHLIST and XAUUSD, which some settings name.                         *)
Dollar == {"EURUSD", "GBPUSD", "USDCHF", "AUDUSD", "NZDUSD", "USDCAD"}
Yen == {"EURJPY", "GBPJPY", "USDJPY"}
Watched == Dollar \cup Yen \cup {"EURGBP"}

(* CORRELATIONS.  NZDUSD is in two lists and has none of its own.          *)
Correlated ==
    [s \in Watched |->
        CASE s = "EURUSD" -> {"GBPUSD", "AUDUSD", "NZDUSD"}
          [] s = "GBPUSD" -> {"EURUSD", "AUDUSD"}
          [] s = "AUDUSD" -> {"NZDUSD", "EURUSD"}
          [] s \in {"USDJPY", "USDCHF", "USDCAD"} -> {"USDJPY", "USDCHF", "USDCAD"} \ {s}
          [] s = "EURJPY" -> {"GBPJPY"}
          [] s = "GBPJPY" -> {"EURJPY"}
          [] OTHER -> {}]

(* check_correlation looks into the list of the new symbol, _execute_trade *)
(* into those of the open ones.                                            *)
FewOfItsOwn(s, open) == Cardinality(Correlated[s] \cap open) < 2
FewNameIt(s, open) == Cardinality({t \in open : s \in Correlated[t]}) < 2

InHours(s, hour) ==
    \/ hour \in 7..21
    \/ hour \in 0..6 /\ s \in {"USDJPY", "AUDUSD", "NZDUSD", "XAUUSD"}

(* Half of the balance, as lots of a hundred thousand whatever they cost.  *)
Exposed(book) == MapThenSumSet(LAMBDA s : book[s].size, DOMAIN book)
HasExposure(book, balance) == 2000 * Exposed(book) < balance

(* Drawdown in per cent.                                                   *)
NotPaused(drawdown) == drawdown < 15

(* _check_spread.  A point is 0.00001, or 0.001 of a price in yen; ten of  *)
(* them are called a pip, but multiplied and not divided by.               *)
Point(s) == IF s \in Yen THEN 100 ELSE 1
MostTenths(s) ==
    IF s \in Yen THEN 15 ELSE IF s \in {"GBPUSD", "EURGBP"} THEN 25 ELSE 20
SpreadAccepted(s, spread) ==
    CASE spread.kind = "none" -> FALSE
      [] spread.kind = "raised" -> TRUE
      [] spread.kind = "points" -> spread.n * Point(s) <= 1000 * MostTenths(s)

(* _check_portfolio_heat: what the stops would lose in lots of a hundred   *)
(* thousand, whatever the currency, against 15% of the balance.            *)
StopDistance(p) == IF p.entry > p.sl THEN p.entry - p.sl ELSE p.sl - p.entry
AtRisk(book) ==
    MapThenSumSet(LAMBDA s : book[s].size * StopDistance(book[s]),
                  {s \in DOMAIN book : book[s].sl > 0})
Cool(book, balance) == balance <= 0 \/ AtRisk(book) < 15 * balance

(* The checks of _execute_trade, in their order.                           *)
LetsThrough(s, hour, spread, book, account) ==
    /\ InHours(s, hour)
    /\ FewNameIt(s, DOMAIN book)
    /\ HasExposure(book, account.balance)
    /\ NotPaused(account.drawdown)
    /\ SpreadAccepted(s, spread)
    /\ Cool(book, account.balance)

----------------------------------------------------------------------------
(* _update_equity_curve: a cycle is paused while the equity is below its   *)
(* average over the last n of those cycles that got this far.              *)
LastOf(curve, n) == SubSeq(curve, IF Len(curve) > n THEN Len(curve) - n + 1 ELSE 1, Len(curve))
Extended(curve, equity, n) == LastOf(Append(curve, equity), 2 * n)
Average(curve, n) ==    \* n times the average
    FoldSeq(LAMBDA e, sum : e + sum, 0, LastOf(curve, n))
OnCurve(curve, n) == Len(curve) < n \/ n * curve[Len(curve)] >= Average(curve, n)

----------------------------------------------------------------------------
(* calculate_sl_tp: v3_symbol_configs, in tenths of an ATR.                *)
StopTenths(s) == IF s \in {"USDCAD", "NZDUSD"} THEN 20 ELSE 15
TargetTenths(s) == IF s = "NZDUSD" THEN 50 ELSE IF s = "XAUUSD" THEN 30 ELSE 40
StopAndTarget(s, action, price, atr) ==
    LET stop == (StopTenths(s) * atr) \div 10
        target == (TargetTenths(s) * atr) \div 10
    IN  IF action = "BUY" THEN [sl |-> price - stop, tp |-> price + target]
        ELSE [sl |-> price + stop, tp |-> price - target]

(* RiskParity: weights by the inverse of volatilities, both in thousandths,*)
(* and lots for half a per cent of the equity, at a price in thousandths.  *)
Volatility(measured) == IF measured < 50 THEN 50 ELSE measured
Weights(measured) ==
    LET inverse == [s \in DOMAIN measured |-> 1000000 \div Volatility(measured[s])]
        sum == MapThenSumSet(LAMBDA s : inverse[s], DOMAIN measured)
    IN  [s \in DOMAIN measured |-> (1000 * inverse[s]) \div sum]

(* The cycle weighs anew every four hours, if it has charts of two symbols.*)
Rebalanced(weights, measured, due) ==
    IF due /\ Cardinality(DOMAIN measured) >= 2 THEN Weights(measured) ELSE weights

ToNearest(n, d) == (2 * n + d - 1) \div (2 * d)
ParityLots(weight, equity, price) ==
    LET risked == (equity * weight) \div 50000
    IN  ToNearest(Min({Max({risked, 4 * price}), equity}), 4 * price)

(* Seven parts of the engine's own size, at least 0.01, and three of it.   *)
Blend(own, parity) == ToNearest((7 * own) + (3 * parity), 10)

(* The engine's MT5 client has no get_candles: what needs it raises, and   *)
(* the exception is swallowed.  _get_regime_adjustment, in per cent,       *)
(* _check_hedging and _recalculate_sl.                                     *)
RegimeAdjustment == 100
HedgesAfter(s, book) == {}
RecalculatedStop(position) == position.sl
=============================================================================
