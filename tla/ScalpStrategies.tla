-------------------------- MODULE ScalpStrategies --------------------------
(***************************************************************************)
(* The twelve strategies of apps/scalping/strategies: from what a symbol   *)
(* looks like to no signal, a signal, or an exception.                     *)
(*                                                                         *)
(* A view holds the bars of H1, M15 and H4, each NoData unless the         *)
(* terminal had 60 of them, and readings: the signs of the difference of   *)
(* the two averages at the last six bars (turns), the slower one, the ADX, *)
(* the averages of H4, and those of QuantumAI.  There are no bars of M1    *)
(* and M5: fetch_candles has neither in its table and gives those of H1.   *)
(***************************************************************************)
EXTENDS QuantumAI

CONSTANT NoData

NoSignal == [kind |-> "none"]
Raises == [kind |-> "raises"]
Signal(action, confidence) ==
    [kind |-> "signal", action |-> action, confidence |-> confidence]

Has(v, charts) == \A chart \in charts : v[chart] # NoData
SignalIf(holds, action, confidence) == IF holds THEN Signal(action, confidence) ELSE NoSignal
ForZone(zone) == IF zone.type \in {"demand", "bullish"} THEN "BUY" ELSE "SELL"
With(bar, action) == IF action = "BUY" THEN Rises(bar) ELSE Falls(bar)
InSession(hour) == hour \in 7..21

(* The last bar covers more than half of the range of 14.                  *)
Expansion(bars, tenths) ==
    LET range == Highest(bars, Window(Len(bars), 14)) - Lowest(bars, Window(Len(bars), 14))
    IN  10 * Spread(Now(bars)) > tenths * range

Chiaroscuro(v) ==
    LET zones == Zones(v.m15)
        action == ForZone(Newest(zones))
        momentum == IF action = "BUY" THEN RsiAbove(v.h1, 60) ELSE RsiBelow(v.h1, 40)
        confidence == 500 + 200 * Flag(IsNearGap(Now(v.h1).close, Gaps(v.h1)))
                      + 150 * Flag(Expansion(v.h1, 7)) + 100 * Flag(momentum)
    IN  IF ~Has(v, {"h1", "m15"}) \/ ~Expansion(v.h1, 5) \/ zones = {}
        THEN NoSignal
        ELSE SignalIf(InSession(v.hour) /\ confidence >= 600, action, confidence)

(* The width of the bands is a whole series, and asking whether a series   *)
(* is large raises an exception: nothing after it is ever reached.         *)
LondonNYOverlap(v) ==
    IF Has(v, {"h1"}) /\ v.hour \in 13..17 THEN Raises ELSE NoSignal

(* All five conditions are required, and one of them is that the price is  *)
(* low, so the strategy only buys.  A round price is less than five pips   *)
(* above a multiple of fifty.                                              *)
FivePointChecklist(v) ==
    LET bars == v.h1
        bar == Now(bars)
        before == Window(Len(bars) - 1, 10)
        impulse == 10 * Body(bar) > 6 * Spread(bar)
        discount == 2 * bar.close < Highest(bars, Tail20(bars)) + Lowest(bars, Tail20(bars))
        round == bar.close % 500 < 50
        sweep == bar.low < Lowest(bars, before) \/ bar.high > Highest(bars, before)
    IN  SignalIf(Has(v, {"h1"}) /\ impulse /\ discount /\ round /\ sweep
                     /\ InSession(v.hour), "BUY", 1000)

TurnsUp(turns, k) == turns[k] > 0 /\ turns[k - 1] <= 0
TurnsDown(turns, k) == turns[k] < 0 /\ turns[k - 1] >= 0

(* An RSI or ADX that cannot be computed is no objection, or zero.         *)
AutoLot(v) ==
    LET up == TurnsUp(v.turns, 6) /\ ~RsiBelow(v.h1, 50)
        down == TurnsDown(v.turns, 6) /\ ~RsiAbove(v.h1, 50)
    IN  SignalIf(Has(v, {"h1"}) /\ (up \/ down) /\ v.adx >= 25,
                 IF up THEN "BUY" ELSE "SELL", Min({600 + 3 * v.adx, 1000}))

(* Five bricks of ten pips in one direction.                               *)
RenkoTrend(v) ==
    LET bricks == Renko(v.h1, 100).bricks
        n == Len(bricks)
        All(way) == \A k \in Window(n, 5) : bricks[k] = way
        up == All(1) /\ ~RsiBelow(v.h1, 50)
        down == All(-1) /\ ~RsiAbove(v.h1, 50)
    IN  SignalIf(Has(v, {"h1"}) /\ n >= 10 /\ (up \/ down),
                 IF up THEN "BUY" ELSE "SELL", 600)

(* The first of the last three zones that the price is in.                 *)
Sniper(v) ==
    LET zones == {z \in Latest(Zones(v.h1), 3) : Touches(z, Now(v.h1).close)}
    IN  IF ~Has(v, {"h1"}) \/ zones = {} THEN NoSignal
        ELSE SignalIf(IsRejection(Now(v.h1)), ForZone(Oldest(zones)), 800)

(* The first of the four turns before the last bar decides.                *)
EMAPullback(v) ==
    LET turned == {k \in 2..5 : TurnsUp(v.turns, k) \/ TurnsDown(v.turns, k)}
        action == IF TurnsUp(v.turns, Min(turned)) THEN "BUY" ELSE "SELL"
        bar == Now(v.h1)
    IN  IF ~Has(v, {"h1"}) \/ turned = {} THEN NoSignal
        ELSE SignalIf(Distance(bar.close, v.slow) <= 50 /\ With(bar, action), action, 650)

(* The hour of the open, and the bars of the last 96 that belong to Asia.  *)
SessionBreakout(v) ==
    LET bar == Now(v.h1)
        asia == {i \in Window(Len(v.m15), 96) : i >= 1 /\ v.m15[i].hour < 8}
        above == bar.close - Highest(v.m15, asia)
        below == Lowest(v.m15, asia) - bar.close
        loud == 200 * bar.volume > 13 * Volume(v.h1, Len(v.h1))
    IN  IF ~Has(v, {"h1", "m15"}) \/ v.hour \notin {8, 13} \/ Cardinality(asia) < 5
        THEN NoSignal
        ELSE SignalIf((above > 0 \/ below > 0) /\ loud, IF above > 0 THEN "BUY" ELSE "SELL",
                      650 + 150 * Flag(above > 100 \/ below > 100))

(* A move of ten pips over ten bars of what is taken for M1, whatever its  *)
(* cause.                                                                  *)
NewsFade(v) ==
    LET move == Now(v.h1).close - v.h1[Len(v.h1) - 9].open
        spent == IF move > 0 THEN ~RsiBelow(v.h1, 70) ELSE ~RsiAbove(v.h1, 30)
    IN  SignalIf(Has(v, {"h1"}) /\ Distance(move, 0) >= 100 /\ spent,
                 IF move > 0 THEN "SELL" ELSE "BUY", 550)

(* The first of the last three gaps of H4 within 20 pips.                  *)
FVGConfluence(v) ==
    LET bar == Now(v.h1)
        gaps == {g \in Latest(Gaps(v.h4), 3) : Near(g, bar.close, 200)}
        action == ForZone(Oldest(gaps))
    IN  IF ~Has(v, {"h1", "h4"}) \/ gaps = {} THEN NoSignal
        ELSE SignalIf(With(bar, action), action, 650)

(* _get_h4_trend                                                           *)
H4Trend(v) ==
    LET price == Now(v.h4).close
    IN  CASE price > v.ema20 /\ v.ema20 > v.ema50 -> "BUY"
          [] price < v.ema20 /\ v.ema20 < v.ema50 -> "SELL"
          [] OTHER -> "none"

(* A strong break adds to the confidence whichever way it went.            *)
SmartMachine(v) ==
    LET trend == H4Trend(v)
        Close(found) == \E e \in Latest(found, 5) :
                            ForZone(e) = trend /\ Near(e, Now(v.m15).close, 200)
        nearZone == Close(Zones(v.m15))
        nearGap == Close(Gaps(v.m15))
        break == LatestBreak(v.m15, 3)
        confirms == break.type = IF trend = "BUY" THEN "bullish" ELSE "bearish"
        confidence == 400 + 150 * (Flag(nearZone) + Flag(nearGap)
                                   + Flag(SweepActive(v.m15, trend)) + Flag(confirms))
                      + 50 * Flag(break.strong)
    IN  IF ~Has(v, {"h4", "m15"}) \/ trend = "none" THEN NoSignal
        ELSE SignalIf((nearZone \/ nearGap) /\ confidence >= 600, trend, Min({confidence, 1000}))

(* The perceptron's module defines a class on a base class of torch, so    *)
(* that without torch its import fails, once analyze needs it.  The bonus  *)
(* for volume and perceptron is due to every signal that gets that far.    *)
Quantum(v, symbol) ==
    LET score == QuantumScore(v.m15, v.reading)
        action == QuantumAction(score)
        confidence == Bound(0, QuantumConfidence(score) + 150
                               + MemoryBoost(v.memory, symbol), 1000)
    IN  IF ~v.torch THEN Raises
        ELSE IF ~Has(v, {"h4", "m15"}) \/ action = "HOLD" THEN NoSignal
        ELSE SignalIf(/\ Distance(score, 0) >= 300000
                      /\ VolumeConfirms(v.m15, action)
                      /\ PerceptronAgrees(v.perceptron, action)
                      /\ confidence >= 600, action, confidence)

(* ALL_STRATEGIES, in order.                                               *)
AllStrategies ==
    << "chiaroscuro", "london_ny_overlap", "checklist_5point", "autolot_20pip",
       "renko_20pip", "sniper", "ema_pullback", "session_breakout", "news_fade",
       "fvg_confluence", "smart_machine_ea", "quantum_ai" >>

Analyze(strategy, v, symbol) ==
    CASE strategy = "chiaroscuro" -> Chiaroscuro(v)
      [] strategy = "london_ny_overlap" -> LondonNYOverlap(v)
      [] strategy = "checklist_5point" -> FivePointChecklist(v)
      [] strategy = "autolot_20pip" -> AutoLot(v)
      [] strategy = "renko_20pip" -> RenkoTrend(v)
      [] strategy = "sniper" -> Sniper(v)
      [] strategy = "ema_pullback" -> EMAPullback(v)
      [] strategy = "session_breakout" -> SessionBreakout(v)
      [] strategy = "news_fade" -> NewsFade(v)
      [] strategy = "fvg_confluence" -> FVGConfluence(v)
      [] strategy = "smart_machine_ea" -> SmartMachine(v)
      [] strategy = "quantum_ai" -> Quantum(v, symbol)

(* validate_signal: every signal of the two strategies that have one has   *)
(* passed the same tests in analyze.                                       *)
Validate(strategy, signal) ==
    strategy \in {"smart_machine_ea", "quantum_ai"} => signal.confidence >= 600

(* _calculate_scalping_lots, in hundredths of a lot: half a per cent of    *)
(* the balance over what one lot loses at the stop, within the limits of   *)
(* the symbol, to the nearest step of it and to the even one of two.       *)
Nearest(n, d) ==
    n \div d + Flag(2 * (n % d) > d \/ (2 * (n % d) = d /\ (n \div d) % 2 = 1))

Lots(balance, loss, info) ==
    IF info = NoData \/ loss = 0 THEN 1
    ELSE CASE balance < 2 * loss * info.min -> info.step * Nearest(info.min, info.step)
           [] balance > 2 * loss * info.max -> info.step * Nearest(info.max, info.step)
           [] OTHER -> info.step * Nearest(balance, 2 * loss * info.step)
=============================================================================
