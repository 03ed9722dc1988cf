----------------------------- MODULE MCScalping -----------------------------
(***************************************************************************)
(* Scalping for TLC.  The charts are walks whose steps come from a small   *)
(* congruence: they rise, fall or go nowhere, and now and then a bar is    *)
(* ten times as large or loud.  Averages and oscillators are computed from *)
(* the bars, in hundredths of a unit, or read off a small range.           *)
(***************************************************************************)
EXTENDS Scalping, ScalpStrategies, ScalperScan, TLC

Step(i, seed, drift) ==
    LET small == ((i * i * seed + 7 * i) % 61) - 30 + drift
    IN  IF (i * seed) % 23 = 5 THEN 10 * small ELSE small
Wick(i, seed) == (i * (seed + 3)) % 37
Loudness(i, seed) == IF (i * seed + 2) % 11 = 3 THEN 2500 ELSE 300 + ((i * seed * 7) % 90)

NextBar(bars, i, seed, drift, perHour) ==
    LET open == IF i = 1 THEN 150000 ELSE bars[i - 1].close
        close == open + Step(i, seed, drift)
    IN  [open |-> open, close |-> close,
         high |-> Max({open, close}) + Wick(i, seed),
         low |-> Min({open, close}) - Wick(i + 5, seed),
         volume |-> Loudness(i, seed), hour |-> (i \div perHour) % 24]

Walk(n, seed, drift, perHour) ==
    FoldLeft(LAMBDA bars, i : Append(bars, NextBar(bars, i, seed, drift, perHour)),
             << >>, [i \in 1..n |-> i])

(* Exponential averages of the closes, in hundredths.                      *)
Ewm(bars, span) ==
    LET Move(avg, i) == avg[i - 1] + ((2 * (100 * bars[i].close - avg[i - 1])) \div (span + 1))
        Extend(avg, i) == Append(avg, IF i = 1 THEN 100 * bars[1].close ELSE Move(avg, i))
    IN  FoldLeft(Extend, << >>, [i \in 1..Len(bars) |-> i])

Turns(bars) ==
    LET fast == Ewm(bars, 10)
        slow == Ewm(bars, 20)
        Sign(d) == IF d > 0 THEN 1 ELSE IF d < 0 THEN -1 ELSE 0
    IN  [k \in 1..6 |-> Sign(fast[Len(bars) - 6 + k] - slow[Len(bars) - 6 + k])]
LastOf(avg) == avg[Len(avg)] \div 100

(* A bar that falls through the low of the chart, to just above a round    *)
(* price.                                                                  *)
Plunge(bars) ==
    LET open == Now(bars).close
        close == 500 * (open \div 500) - 480
    IN  Append(Tail(bars), [open |-> open, close |-> close, high |-> open + 5,
                            low |-> close - 10, volume |-> 2500, hour |-> Now(bars).hour])

Reading(m15, seed, drift, hour) ==
    [ema9 |-> LastOf(Ewm(m15, 9)), ema21 |-> LastOf(Ewm(m15, 21)),
     ema50 |-> LastOf(Ewm(m15, 50)), rsi |-> 50 + 2 * drift, macd |-> 125 * drift,
     width |-> 400, neural |-> 100 * drift, gold |-> FALSE, range |-> 20,
     hour |-> hour, day |-> seed % 5]

Remembered == [similar |-> TRUE, symbol |-> "any", outcome |-> "win"]

View(h1, seed, drift, hour) ==
    LET m15 == Walk(60, seed + 1, drift, 4)
        h4 == Walk(60, seed + 2, drift, 1)
    IN  [h1 |-> h1, m15 |-> m15, h4 |-> h4, hour |-> hour,
         turns |-> Turns(h1), slow |-> LastOf(Ewm(h1, 20)), adx |-> 20 + (seed % 3) * 5,
         ema20 |-> LastOf(Ewm(h4, 20)), ema50 |-> LastOf(Ewm(h4, 50)),
         memory |-> IF seed % 2 = 0 THEN {} ELSE {Remembered},
         perceptron |-> "untrained", torch |-> TRUE,
         reading |-> Reading(m15, seed, drift, hour)]
Look(seed, drift, hour) == View(Walk(60, seed, drift, 1), seed, drift, hour)

Looks ==
    {Look(2, 0, 8), Look(4, -8, 13), Look(5, 0, 13), Look(6, -8, 13), Look(12, 0, 8),
     Look(20, 0, 8), Look(22, 8, 8), View(Plunge(Walk(60, 1, -8, 1)), 1, -8, 8)}
Charts == {v.m15 : v \in Looks}

(* What each strategy says to these views.                                 *)
Says == [s \in ToSet(AllStrategies) |-> {Analyze(s, v, "EURUSD") : v \in Looks}]

Answer(s, said) ==
    IF said.kind = "signal"
    THEN [kind |-> "signal", action |-> said.action, valid |-> Validate(s, said)]
    ELSE said

MCStrategies == {"london_ny_overlap", "quantum_ai"}
MCLoadable == SelectSeq(AllStrategies, LAMBDA s : s \in MCStrategies)
MCGate == "mtf_cascading_scalper"
MCDefault == [k \in MCStrategies \cup {MCGate} |-> k \in {"quantum_ai", MCGate}]
MCChanges == {<<"quantum_ai", FALSE>>, <<"london_ny_overlap", TRUE>>}
MCSymbols == <<"EURUSD", "GBPUSD">>
MCAnswers ==
    [s \in MCStrategies |->
        LET answers == {Answer(s, said) : said \in Says[s]}
        IN  {<<a, b>> : a, b \in answers}]

----------------------------------------------------------------------------
(* What is checked of the strategies, once, before the runs.               *)

(* Every strategy has a market to trade in, except the one that can only   *)
(* fail, and that does so in its session.                                  *)
ASSUME OverlapOnlyRaises ==
    \A s \in ToSet(AllStrategies) :
        LET kinds == {said.kind : said \in Says[s]}
        IN  IF s = "london_ny_overlap" THEN kinds = {"none", "raises"}
            ELSE kinds = {"none", "signal"}

(* A signal that analyze gives is never one that validate_signal refuses.  *)
ASSUME ValidationIdle ==
    \A s \in ToSet(AllStrategies) : \A said \in Says[s] :
        said.kind = "signal" => Validate(s, said)

(* Two highs, or two lows, are never within n bars of each other.          *)
ASSUME SwingsApart ==
    \A bars \in Charts, n \in {3, 5} : \A s, t \in Swings(bars, n) :
        s.type = t.type /\ s # t => Distance(s.index, t.index) > n

(* detect_bos as it is written: from the last bar back, the newest swing   *)
(* that the bar breaks on either side, unless its level was broken; then   *)
(* the first event of the last bar there is.                               *)
Events(bars, n) ==
    LET broken(type, i) ==
            {s \in Swings(bars, n) :
                 /\ s.type = type /\ s.index < i
                 /\ IF type = "high" THEN bars[i].close > s.price ELSE bars[i].close < s.price}
        Add(events, e) ==
            IF \E f \in ToSet(events) : f.type = e.type /\ f.level = e.level THEN events
            ELSE Append(events, e)
        At(type, i) ==
            IF broken(type, i) = {} THEN << >>
            ELSE <<[type |-> type, level |-> Newest(broken(type, i)).price, index |-> i]>>
        first == Max({n, 10}) + 2
        found == [k \in first..Len(bars) |-> At("high", k) \o At("low", k)]
    IN  FoldLeft(Add, << >>, FlattenSeq([k \in 1..(Len(bars) - first + 1) |-> found[Len(bars) + 1 - k]]))

ASSUME LatestBreakIsFirstEvent ==
    \A bars \in {SubSeq(chart, 21, 60) : chart \in Charts} :
        LET events == Events(bars, 3)
            newest == Max({e.index : e \in ToSet(events)})
            first == events[Min({k \in DOMAIN events : events[k].index = newest})]
            break == LatestBreak(bars, 3)
        IN  IF events = << >> THEN break = NoBreak
            ELSE break.type = IF first.type = "high" THEN "bullish" ELSE "bearish"

(* The bricks stay within one of the price.                                *)
ASSUME BricksFollow ==
    \A v \in Looks : Distance(Renko(v.h1, 100).last, Now(v.h1).close) <= 100

(* A position risks half a per cent, give or take half a step, unless the  *)
(* smallest one is more.                                                   *)
Contract == [min |-> 1, max |-> 50, step |-> 1]
ASSUME RiskBounded ==
    \A balance \in {0, 5, 40, 99, 100, 101, 1000, 100000}, loss \in 1..12 :
        LET lots == Lots(balance, loss, Contract)
        IN  /\ Contract.min <= lots /\ lots <= Contract.max
            /\ lots > Contract.min => 2 * loss * lots <= balance + loss * Contract.step

(* The score leans to buying: of a market and its mirror image, the rise   *)
(* scores higher than the fall scores lower.                               *)
Mirror(bars) ==
    [k \in DOMAIN bars |->
        [bars[k] EXCEPT !.open = 300000 - @, !.close = 300000 - @,
                        !.high = 300000 - bars[k].low, !.low = 300000 - bars[k].high]]
Mirrored(r) ==
    [r EXCEPT !.ema9 = 300000 - @, !.ema21 = 300000 - @, !.ema50 = 300000 - @,
              !.rsi = 100 - @, !.macd = -@, !.neural = -@]
ASSUME ScoreLeansUp ==
    \A v \in Looks :
        QuantumScore(v.m15, v.reading) + QuantumScore(Mirror(v.m15), Mirrored(v.reading)) > 0
----------------------------------------------------------------------------
(* What is checked of the multi-timeframe scalper, once, before the runs.  *)
ScalperCharts ==
    {Fetched([bars |-> bars, macd |-> macd]) : bars \in Charts \cup {<< >>}, macd \in {-5, 5}}
Opposite(chart) == [bars |-> Mirror(chart.bars), macd |-> -chart.macd]

(* The direction leans to buying: what is sold would be bought in the      *)
(* mirror, but not all that is bought would be sold there, for a chart     *)
(* that has not lost, or is merely not overbought, scores for the rise.    *)
ASSUME DirectionLeansUp ==
    /\ \A c \in ScalperCharts :
           Direction(c) = "SELL" => Direction(Opposite(c)) = "BUY"
    /\ \E c \in ScalperCharts :
           Direction(c) = "BUY" /\ Direction(Opposite(c)) # "SELL"

(* The directions that change at most twice from the fastest to the        *)
(* slowest timeframe.                                                      *)
Changing ==
    {[t \in ToSet(Timeframes) |->
        LET i == CHOOSE k \in DOMAIN Timeframes : Timeframes[k] = t
        IN  IF i <= c[1] THEN d[1] ELSE IF i <= c[2] THEN d[2] ELSE d[3]] :
        c \in {<<i, j>> : i, j \in 0..9}, d \in [1..3 -> {"BUY", "SELL", "HOLD"}]}

(* Groups that share a timeframe never disagree, but a cycle that fails to *)
(* buy in one group may well sell in another.                              *)
ASSUME OppositeGroupsApart ==
    /\ \A directions \in Changing :
           LET attempts == Attempts(directions)
           IN  \A i, j \in DOMAIN attempts :
                   attempts[i].action # attempts[j].action
                       => Distance(attempts[i].group, attempts[j].group) >= 3
    /\ \E directions \in Changing :
           Cardinality({a.action : a \in ToSet(Attempts(directions))}) = 2

(* The dashboard shows what the scalper would order: every attempt on a    *)
(* symbol is one of the candidates for it, between a stop and a target on  *)
(* the right sides of the price, and of a symbol that is blocked, has a    *)
(* scalp or no price there is none.                                        *)
MCTick == [ask |-> 110012, bid |-> 110000]
ASSUME CandidatesAreAttempts ==
    \A directions \in Changing :
        LET shown == Candidates({"EURUSD", "GBPUSD", "USDCHF", "USDCAD"},
                                {"GBPUSD"}, {"USDCHF"},
                                [s \in {"EURUSD", "GBPUSD", "USDCHF"} |-> MCTick],
                                [s \in {"EURUSD"} |-> directions],
                                [s \in {"EURUSD"} |-> [g \in Groups |-> g]])
        IN  /\ {[group |-> c.group, action |-> c.action] : c \in shown}
                    = ToSet(Attempts(directions))
            /\ \A c \in shown :
                   LET lost == IF c.action = "BUY" THEN c.entry - c.sl ELSE c.sl - c.entry
                       won == IF c.action = "BUY" THEN c.tp - c.entry ELSE c.entry - c.tp
                   IN  0 < lost /\ 2 * won = 3 * lost

(* Whatever the tier, the hour, the streak and the symbol, the base of 0.01*)
(* becomes 0.01 or 0.02: two only of slow charts of calm symbols, in the   *)
(* overlap of London and New York or, on a hot streak, in the day.         *)
Streaks == UNION {[1..k -> {-1, 1}] : k \in {0, 2, 3, 6}}
ASSUME OneOrTwo ==
    \A g \in Groups, hour \in 0..23, history \in Streaks, symbol \in {"EURUSD", "EURJPY"} :
        LET lots == ScalpLots(1, 50, g, hour, history, symbol, [min |-> 1, step |-> 1])
            streak == StreakHundredths(history)
            double == /\ g >= 5 /\ symbol \notin Volatile
                      /\ \/ hour \in 13..16 /\ streak >= 100
                         \/ hour \in 7..21 /\ streak > 100
        IN  lots = IF double THEN 2 ELSE 1
=============================================================================
