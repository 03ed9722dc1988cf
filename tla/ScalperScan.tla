----------------------------- MODULE ScalperScan ----------------------------
(***************************************************************************)
(* What the multi-timeframe scalper makes of its charts: the direction of  *)
(* a timeframe, the groups of three that agree, and the size and stops of  *)
(* the order (apps/legendary/mtf_cascading_scalper.py).  When and whether  *)
(* it orders is in TradingEngine, how it moves stops in PositionManagement.*)
(*                                                                         *)
(* Prices are in points of the symbol, lots in hundredths.  A chart is     *)
(* read once and has its bars and the value of _compute_macd.              *)
(***************************************************************************)
EXTENDS PriceAction

(* _fetch_ohlcv: a symbol or a timeframe that the terminal does not know   *)
(* has no bars, and fewer than 60 make no chart.                           *)
NoChart == [bars |-> << >>, macd |-> 0]
Fetched(rates) == IF Len(rates.bars) < 60 THEN NoChart ELSE rates

SumOfCloses(bars, n) == MapThenSumSet(LAMBDA i : bars[i].close, Window(Len(bars), n))

(* _compute_rsi gives 50 to a chart that has not lost anything in 14 bars. *)
NotOverbought(bars) == Losses(bars) = 0 \/ RsiBelow(bars, 70)

(* The four points of _compute_signal_details.                             *)
BullScore(chart) ==
    LET bars == chart.bars
        points == <<NotOverbought(bars),
                    20 * Now(bars).close > SumOfCloses(bars, 20),
                    5 * SumOfCloses(bars, 20) > 2 * SumOfCloses(bars, 50),
                    chart.macd > 0>>
    IN  Cardinality({i \in DOMAIN points : points[i]})

Direction(chart) ==
    IF chart = NoChart THEN "HOLD"
    ELSE IF BullScore(chart) >= 3 THEN "BUY"
    ELSE IF BullScore(chart) <= 1 THEN "SELL" ELSE "HOLD"

----------------------------------------------------------------------------
(* scalper_groups and scalper_prefer_groups.                               *)
Timeframes == <<"M1", "M5", "M15", "M30", "H1", "H4", "D1", "W1", "MN1">>
Groups == 1..7
TimeframesOf(g) == {Timeframes[i] : i \in g..(g + 2)}
Order == <<3, 4, 5, 1, 2, 6, 7>>

(* _check_alignment; directions is a function of the timeframes.           *)
AlignedTo(directions, g) ==
    {a \in {"BUY", "SELL"} : \A t \in TimeframesOf(g) : directions[t] = a}

(* scan_and_execute asks the groups in this order until an order is filled.*)
Attempts(directions) ==
    LET aligned == SelectSeq(Order, LAMBDA g : AlignedTo(directions, g) # {})
    IN  [i \in DOMAIN aligned |->
            [group |-> aligned[i],
             action |-> CHOOSE a \in {"BUY", "SELL"} : a \in AlignedTo(directions, aligned[i])]]

(* _get_current_price, _calculate_sl_tp: eight pips against twelve.        *)
Price(tick, action) == IF action = "BUY" THEN tick.ask ELSE tick.bid
ScalpStop(price, action) == IF action = "BUY" THEN price - 80 ELSE price + 80
ScalpTarget(price, action) == IF action = "BUY" THEN price + 120 ELSE price - 120

(* _select_scalper_lot_size.  A half is rounded down: 1.5 times 0.01 is a  *)
(* little less than 0.015.                                                 *)
Tier(g) == IF g >= 5 THEN 15 ELSE IF g <= 2 THEN 7 ELSE 10
SessionTenths(hour) ==
    IF hour \in 13..16 THEN 12 ELSE IF hour < 7 \/ hour > 21 THEN 6 ELSE 10
StreakHundredths(history) ==
    LET recent == {i \in DOMAIN history : i > Len(history) - 5}
        wins == Cardinality({i \in recent : history[i] > 0})
    IN  IF Len(history) < 3 THEN 100
        ELSE IF wins >= 4 THEN 115 ELSE IF wins <= 1 THEN 80 ELSE 100
Volatile == {"USDJPY", "EURJPY", "GBPJPY", "AUDJPY", "XAUUSD"}

HalfDown(n, d) == (2 * n + d - 1) \div (2 * d)

ScalpLots(base, most, g, hour, history, symbol, info) ==
    LET scaled == base * Tier(g) * SessionTenths(hour) * StreakHundredths(history)
                    * (IF symbol \in Volatile THEN 7 ELSE 10)
        bounded == Max({100000, Min({scaled, 100000 * most})})
        lots == Max({HalfDown(bounded, 100000), info.min})
    IN  HalfDown(lots, info.step) * info.step

(* scan_all_symbols: every group that agrees, of the symbols that have a   *)
(* price, but for those that the engine has blocked and those of which a   *)
(* scalp is open.  Nothing is ordered.                                     *)
Candidates(symbols, blocked, scalped, ticks, directions, lots) ==
    LET scanned == (symbols \cap DOMAIN ticks) \ (blocked \cup scalped)
        aligned == {c \in scanned \X Groups \X {"BUY", "SELL"} :
                        c[3] \in AlignedTo(directions[c[1]], c[2])}
    IN  {[symbol |-> c[1], group |-> c[2], action |-> c[3],
          entry |-> Price(ticks[c[1]], c[3]), size |-> lots[c[1]][c[2]],
          sl |-> ScalpStop(Price(ticks[c[1]], c[3]), c[3]),
          tp |-> ScalpTarget(Price(ticks[c[1]], c[3]), c[3])] : c \in aligned}
=============================================================================
