----------------------------- MODULE QuantumAI -----------------------------
(***************************************************************************)
(* apps/ml/quantum_ai.py: twelve factors of a chart of M15, weighted, and  *)
(* the memory and the perceptron that quantum_ai_strategy.py asks besides. *)
(*                                                                         *)
(* Scores are in thousandths, rounded down.  What rests on exponential     *)
(* averages, deviations or a hyperbolic tangent is a number of the         *)
(* reading; the rest is computed from the bars.                            *)
(***************************************************************************)
EXTENDS PriceAction

Bound(low, n, high) == Max({low, Min({n, high})})

(* Only adapt_weights changes the weights, or writes the file they could   *)
(* be loaded from, and nothing but its tests calls it.                     *)
Weights ==
    [trend |-> 150, momentum |-> 100, volatility |-> 80, volume |-> 120,
     sr |-> 100, pattern |-> 80, time |-> 70, gold |-> 50, quantum |-> 100,
     neural |-> 50, seasonal |-> 50, market_memory |-> 50]

(* A price that has crossed the fastest average only is in no trend.       *)
ScoreTrend(price, r) ==
    CASE price > r.ema21 /\ r.ema21 > r.ema50 ->
             IF price > r.ema9 /\ r.ema9 > r.ema21 THEN 1000 ELSE 600
      [] price < r.ema21 /\ r.ema21 < r.ema50 ->
             IF price < r.ema9 /\ r.ema9 < r.ema21 THEN -1000 ELSE -600
      [] OTHER -> 0

ScoreMomentum(r) == (20 * (r.rsi - 50) + Bound(-1000, r.macd, 1000)) \div 2

(* The width of the bands, in ten-thousandths of the average.              *)
ScoreVolatility(r) == IF r.width < 200 THEN 300 ELSE IF r.width > 600 THEN -300 ELSE 0

(* Against the average over the last 20 bars.  A loud bar that does not    *)
(* move speaks for a fall.                                                 *)
ScoreVolume(bars) ==
    LET n == Len(bars)
        way == IF bars[n].close > bars[n - 1].close THEN 1 ELSE -1
    IN  IF High(bars, n) THEN 800 * way
        ELSE IF 50 * bars[n].volume > 3 * Volume(bars, n) THEN 400 * way
        ELSE 0

ScoreSupportResistance(bars) ==
    LET top == Highest(bars, Tail20(bars))
        bottom == Lowest(bars, Tail20(bars))
        above == 5 * (Now(bars).close - bottom)
    IN  CASE above < top - bottom -> 600
          [] above > 4 * (top - bottom) -> -600
          [] OTHER -> 0

Flag(holds) == IF holds THEN 1 ELSE 0

ScorePattern(bars) ==
    LET bar == Now(bars)
        before == bars[Len(bars) - 1]
        lower == Min({bar.open, bar.close}) - bar.low
        upper == bar.high - Max({bar.open, bar.close})
        engulfsUp == /\ Falls(before) /\ Rises(bar)
                     /\ bar.close > before.open /\ bar.open < before.close
        engulfsDown == /\ Rises(before) /\ Falls(bar)
                       /\ bar.close < before.open /\ bar.open > before.close
        hammer == lower > 2 * Body(bar) /\ upper < Body(bar)
        star == upper > 2 * Body(bar) /\ lower < Body(bar)
    IN  500 * (Flag(engulfsUp) - Flag(engulfsDown)) + 300 * (Flag(hammer) - Flag(star))

(* The hours of New York that are also London's count as London.           *)
ScoreTime(hour) ==
    CASE hour \in 7..16 -> 200 [] hour \in 17..21 -> 300
      [] hour \in 0..6 -> -100 [] OTHER -> 0

(* Ten-thousandths of the price.                                           *)
ScoreGold(r) ==
    CASE ~r.gold -> 0 [] r.gold /\ r.range > 50 -> 400
      [] r.gold /\ r.range < 10 -> -200 [] OTHER -> 0

(* How far the price has come in 20 bars, and half of how often it turned: *)
(* that part buys in a falling market too.                                 *)
ScoreQuantum(bars) ==
    LET closes == [k \in 1..20 |-> bars[Len(bars) - 20 + k].close]
        Turn(k) == LET Way(j) == Flag(closes[j + 1] > closes[j]) - Flag(closes[j + 1] < closes[j])
                   IN  Distance(Way(k), Way(k + 1))
        turns == MapThenSumSet(Turn, 1..18)
        flat == \A k \in 1..20 : closes[k] = closes[1]
        moved == (10000 * (closes[20] - closes[1])) \div closes[1]
    IN  IF flat THEN 0 ELSE Bound(-1000, moved + (500 * turns) \div 36, 1000)

(* Monday is day 0.                                                        *)
ScoreSeasonal(day, hour) ==
    CASE day = 0 /\ hour \in 7..10 -> 300 [] day = 4 /\ hour >= 18 -> -400
      [] day = 2 -> 100 [] OTHER -> 0

(* The likeness of the last five closes to the best of five earlier ones,  *)
(* each relative to its first, in hundred-thousandths: almost one, in      *)
(* every market.                                                           *)
ScoreMarketMemory(bars) ==
    LET n == Len(bars)
        Change(i, k) == (100000 * (bars[i + k].close - bars[i].close)) \div bars[i].close
        Unlike(i) == MapThenSumSet(LAMBDA k : Distance(Change(i, k), Change(n - 4, k)), 0..4) \div 5
        best == Min({100000} \cup {Unlike(i) : i \in (n - 9)..(n - 5)})
    IN  1000 - best \div 50

Factors(bars, r) ==
    [trend |-> ScoreTrend(Now(bars).close, r), momentum |-> ScoreMomentum(r),
     volatility |-> ScoreVolatility(r), volume |-> ScoreVolume(bars),
     sr |-> ScoreSupportResistance(bars), pattern |-> ScorePattern(bars),
     time |-> ScoreTime(r.hour), gold |-> ScoreGold(r),
     quantum |-> ScoreQuantum(bars), neural |-> r.neural,
     seasonal |-> ScoreSeasonal(r.day, r.hour),
     market_memory |-> ScoreMarketMemory(bars)]

(* In millionths: the weights are thousandths that add up to one.          *)
QuantumScore(bars, r) ==
    LET f == Factors(bars, r)
    IN  Bound(-1000000, MapThenSumSet(LAMBDA k : f[k] * Weights[k], DOMAIN Weights), 1000000)

QuantumAction(score) ==
    IF score > 150000 THEN "BUY" ELSE IF score < -150000 THEN "SELL" ELSE "HOLD"
QuantumConfidence(score) == Min({(3 * Distance(score, 0)) \div 2000, 1000})

----------------------------------------------------------------------------
(* MarketMemory.recall: every pattern of this symbol, or of none, that is  *)
(* alike is recalled with the same prediction: the outcome most patterns   *)
(* alike had, of any symbol, where a win is preferred to a loss and a loss *)
(* to nothing.  So the three best recalls agree with each other.           *)
Wins(alike) ==
    LET Count(outcome) == Cardinality({m \in alike : m.outcome = outcome})
    IN  /\ Count("win") > 0
        /\ Count("win") >= Count("loss") /\ Count("win") >= Count("breakeven")

MemoryBoost(memory, symbol) ==
    LET alike == {m \in memory : m.similar}
    IN  CASE ~\E m \in alike : m.symbol \in {symbol, "any"} -> 0
          [] Wins(alike) -> 100
          [] OTHER -> -100

(* predict, of a perceptron that has been trained.                         *)
PerceptronAgrees(probability, action) ==
    \/ probability = "untrained"
    \/ action = IF probability >= 500 THEN "BUY" ELSE "SELL"
=============================================================================
