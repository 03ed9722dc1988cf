---------------------------- MODULE PriceAction ----------------------------
(***************************************************************************)
(* What the scalping strategies see in a chart: apps/scalping/indicators   *)
(* and the volume spread analysis of apps/volume/vsa.py.                   *)
(*                                                                         *)
(* A chart is a sequence of bars, the last of which is the current one.    *)
(* Prices are in units of 0.00001, ten of them a pip; the bars of          *)
(* fetch_candles carry their hour in the index.  Averages over n bars are  *)
(* compared through sums, so that no division is needed.                   *)
(***************************************************************************)
EXTENDS Integers, Sequences, FiniteSets, FiniteSetsExt, SequencesExt

Distance(a, b) == IF a > b THEN a - b ELSE b - a
Now(bars) == bars[Len(bars)]
Body(bar) == Distance(bar.close, bar.open)
Spread(bar) == bar.high - bar.low
Rises(bar) == bar.close > bar.open
Falls(bar) == bar.close < bar.open

(* The last n bars up to bar i.                                             *)
Window(i, n) == (i - n + 1)..i
Tail20(bars) == Window(Len(bars), 20)
Highest(bars, indices) == Max({bars[i].high : i \in indices})
Lowest(bars, indices) == Min({bars[i].low : i \in indices})

(* Of the things found in a chart, the last n; the first and the last.     *)
Latest(found, n) ==
    {e \in found : Cardinality({f \in found : f.index > e.index}) < n}
Oldest(found) == CHOOSE e \in found : \A f \in found : e.index <= f.index
Newest(found) == CHOOSE e \in found : \A f \in found : e.index >= f.index

Touches(e, price) == e.bottom <= price /\ price <= e.top
Near(e, price, units) == Distance(2 * price, e.top + e.bottom) < 2 * units

----------------------------------------------------------------------------
(* find_fvgs: three bars of which the outer two do not overlap.            *)
Gap(type, top, bottom, i) ==
    [type |-> type, top |-> top, bottom |-> bottom, index |-> i]

Gaps(bars) ==
    {Gap("bullish", bars[i].low, bars[i - 2].high, i) :
         i \in {j \in 3..Len(bars) : bars[j - 2].high < bars[j].low}}
    \cup {Gap("bearish", bars[i - 2].low, bars[i].high, i) :
              i \in {j \in 3..Len(bars) : bars[j - 2].low > bars[j].high}}

IsNearGap(price, gaps) == \E g \in Latest(gaps, 5) : Near(g, price, 50)

(* find_order_blocks and find_supply_demand_zones: a bar against which the *)
(* next one moves, with a body of more than one and a half times the       *)
(* average of up to five bars before it, unless none of them moved.        *)
Impulse(bars, i) ==
    LET before == {j \in Window(i - 1, 5) : j >= 1}
        sum == MapThenSumSet(LAMBDA j : Body(bars[j]), before)
    IN  sum # 0 /\ 2 * Cardinality(before) * Body(bars[i + 1]) > 3 * sum

Zones(bars) ==
    {[type |-> IF Falls(bars[i]) THEN "demand" ELSE "supply",
      top |-> bars[i].high, bottom |-> bars[i].low, index |-> i] :
         i \in {j \in (Len(bars) - 19)..(Len(bars) - 1) :
                    /\ Len(bars) >= 22
                    /\ Impulse(bars, j)
                    /\ \/ Falls(bars[j]) /\ Rises(bars[j + 1])
                       \/ Rises(bars[j]) /\ Falls(bars[j + 1])}}

(* is_rejection_candle: only a long wick counts, on either side.           *)
IsRejection(bar) == 10 * Body(bar) < 3 * Spread(bar)

----------------------------------------------------------------------------
(* find_swing_points: a high above, or a low below, the n on each side.    *)
Peak(type, price, i) == [type |-> type, price |-> price, index |-> i]

Swings(bars, n) ==
    LET Neighbours(i) == ((i - n)..(i + n)) \ {i}
        inside == (n + 1)..(Len(bars) - n)
    IN  {Peak("high", bars[i].high, i) :
             i \in {j \in inside : \A k \in Neighbours(j) : bars[j].high > bars[k].high}}
        \cup {Peak("low", bars[i].low, i) :
             i \in {j \in inside : \A k \in Neighbours(j) : bars[j].low < bars[k].low}}

NoBreak == [type |-> "none", strong |-> FALSE]

(* get_latest_bos of detect_bos: of the bars that close beyond an earlier  *)
(* swing, the last, and of its swings the last; a bar that closes beyond a *)
(* high and a low counts as bullish.  detect_bos looks from the last bar   *)
(* back and keeps each level once, which cannot lose the first find.  A    *)
(* break of more than a thousandth of the level is strong; the code rounds *)
(* to six digits first.                                                    *)
LatestBreak(bars, n) ==
    LET swings == Swings(bars, n)
        Above(i) == {s \in swings : s.type = "high" /\ s.index < i /\ bars[i].close > s.price}
        Below(i) == {s \in swings : s.type = "low" /\ s.index < i /\ bars[i].close < s.price}
        breaks == {i \in (Max({n, 10}) + 2)..Len(bars) : Above(i) \cup Below(i) # {}}
        last == Max(breaks)
        up == Above(last) # {}
        level == Newest(IF up THEN Above(last) ELSE Below(last)).price
    IN  IF Cardinality(swings) < 2 \/ breaks = {} THEN NoBreak
        ELSE [type |-> IF up THEN "bullish" ELSE "bearish",
              strong |-> 1000 * Distance(bars[last].close, level) > level]

(* find_liquidity_sweeps: a wick more than two pips beyond an earlier      *)
(* swing and a close on its near side; the bar before did not close beyond *)
(* the level, or did not get two pips beyond it.                           *)
SweepsLow(bars, i, s) ==
    /\ s.type = "low" /\ s.index < i - 1
    /\ bars[i].low < s.price - 20 /\ bars[i].close > s.price
    /\ bars[i - 1].close > s.price \/ bars[i - 1].low > s.price - 20

SweepsHigh(bars, i, s) ==
    /\ s.type = "high" /\ s.index < i - 1
    /\ bars[i].high > s.price + 20 /\ bars[i].close < s.price
    /\ bars[i - 1].close < s.price \/ bars[i - 1].high < s.price + 20

(* is_liquidity_sweep_active: the last sweep is one of the last five bars  *)
(* and goes against the stops of the other side.  A bar that sweeps both   *)
(* sides counts as bullish.                                                *)
SweepActive(bars, action) ==
    LET swings == Swings(bars, 3)
        Low(i) == \E s \in swings : SweepsLow(bars, i, s)
        High(i) == \E s \in swings : SweepsHigh(bars, i, s)
        swept == {i \in 21..Len(bars) : Low(i) \/ High(i)}
    IN  /\ Len(bars) >= 23
        /\ swept # {}
        /\ Max(swept) >= Len(bars) - 4
        /\ IF action = "BUY" THEN Low(Max(swept)) ELSE ~Low(Max(swept))

----------------------------------------------------------------------------
(* generate_renko: the directions of the bricks.  A move of exactly one    *)
(* brick makes none yet.                                                   *)
AddBricks(chart, bar, size) ==
    LET count == (Distance(bar.close, chart.last) - 1) \div size
        way == IF bar.close > chart.last THEN 1 ELSE -1
    IN  IF bar.close = chart.last THEN chart
        ELSE [last |-> chart.last + way * count * size,
              bricks |-> chart.bricks \o [k \in 1..count |-> way]]

Renko(bars, size) ==
    FoldLeft(LAMBDA chart, bar : AddBricks(chart, bar, size),
             [last |-> bars[1].close, bricks |-> << >>], bars)

(* RSI over simple averages of 14 changes.  When neither gains nor losses  *)
(* are there the code has a NaN, which is neither above nor below.         *)
Gains(bars) ==
    MapThenSumSet(LAMBDA i : Max({0, bars[i].close - bars[i - 1].close}), Window(Len(bars), 14))
Losses(bars) ==
    MapThenSumSet(LAMBDA i : Max({0, bars[i - 1].close - bars[i].close}), Window(Len(bars), 14))
RsiAbove(bars, k) == (100 - k) * Gains(bars) > k * Losses(bars)
RsiBelow(bars, k) == (100 - k) * Gains(bars) < k * Losses(bars)

----------------------------------------------------------------------------
(* VSADetector: spread and volume of bar i against their averages over the *)
(* 20 bars that end with it, and where in the bar it closes.               *)
Narrow(bars, i) == 40 * Spread(bars[i]) < MapThenSumSet(LAMBDA j : Spread(bars[j]), Window(i, 20))
Wide(bars, i) == 40 * Spread(bars[i]) > 3 * MapThenSumSet(LAMBDA j : Spread(bars[j]), Window(i, 20))

Volume(bars, i) == MapThenSumSet(LAMBDA j : bars[j].volume, Window(i, 20))
High(bars, i) == 40 * bars[i].volume > 3 * Volume(bars, i)
VeryHigh(bars, i) == 10 * bars[i].volume > Volume(bars, i)
Low(bars, i) == 200 * bars[i].volume < 7 * Volume(bars, i) \/ Volume(bars, i) = 0

AtTop(bar) == 10 * (bar.close - bar.low) > 7 * Spread(bar)
AtBottom(bar) == 10 * (bar.close - bar.low) < 3 * Spread(bar)

Tests(bars, i) ==
    \E j \in Window(i - 1, 20) :
        \/ 10 * Distance(bars[i].low, bars[j].low) < 3 * Spread(bars[i])
        \/ 10 * Distance(bars[i].high, bars[j].high) < 3 * Spread(bars[i])

(* _classify_candle, and the first table of _pattern_to_signal that has    *)
(* the pattern: stopping volume and tests, which are in both, buy.         *)
PatternAction(bars, i) ==
    LET top == AtTop(bars[i])
        bottom == AtBottom(bars[i])
        stopping == High(bars, i) /\ ~Wide(bars, i) /\ (top \/ bottom)
        test == High(bars, i) /\ Narrow(bars, i) /\ Tests(bars, i)
        noDemand == Narrow(bars, i) /\ Low(bars, i) /\ top
        noSupply == Narrow(bars, i) /\ Low(bars, i) /\ bottom
        climax == VeryHigh(bars, i) /\ Wide(bars, i)
        effort == High(bars, i) /\ Wide(bars, i) /\ ~VeryHigh(bars, i)
        accumulation == effort /\ top
        distribution == effort /\ bottom
    IN  IF stopping \/ test \/ noSupply \/ (climax /\ bottom) \/ accumulation THEN "BUY"
        ELSE IF noDemand \/ (climax /\ top) \/ distribution THEN "SELL"
        ELSE "NEUTRAL"

(* confirm_entry: some bar of the last five.                               *)
VolumeConfirms(bars, action) ==
    /\ Len(bars) >= 25
    /\ \E i \in Window(Len(bars), 5) : PatternAction(bars, i) = action
=============================================================================
