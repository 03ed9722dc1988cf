------------------------------ MODULE Analysts ------------------------------
(***************************************************************************)
(* The voters of Consensus: the twelve analysts of apps/analysts, which    *)
(* _run_analyst_consensus asks one after the other, and the five agents of *)
(* apps/legendary.  Each makes a vote of a reading: of candles, ticks and  *)
(* the account of the terminal, or of series fetched from the internet.    *)
(* The engine gives no analyst a language model.                           *)
(*                                                                         *)
(* Averages, indicators and changes appear as the numbers of a reading,    *)
(* with the unit in which the code's thresholds are whole numbers.  A      *)
(* reading that could not be made is NoData.  Confidences are in           *)
(* thousandths, rounded down.  Where the code adds binary fractions up to  *)
(* just a threshold, it may decide otherwise than this module.             *)
(***************************************************************************)
EXTENDS Consensus, Sequences

CONSTANTS
    NoData,
    Installed   \* whether all packages are there that the analysts import

ASSUME NoDataAssumption == NoData \notin Int
ASSUME InstalledAssumption == Installed \in BOOLEAN

Says(signal, confidence, cap) ==
    [signal |-> signal,
     confidence |-> IF confidence > cap THEN cap ELSE confidence]

Holds(confidence) == Says("HOLD", confidence, 1000)
Silent == Holds(0)

Side(n) == IF n > 0 THEN "BUY" ELSE IF n < 0 THEN "SELL" ELSE "HOLD"
Larger(a, b) == IF a > b THEN a ELSE b
One(holds) == IF holds THEN 1 ELSE 0
Above(n, limit) == One(n # NoData /\ n > limit)
Below(n, limit) == One(n # NoData /\ n < limit)

Voice(buys, sells, confidence) ==
    IF buys THEN Says("BUY", confidence, 1000)
    ELSE IF sells THEN Says("SELL", confidence, 1000) ELSE Holds(500)

----------------------------------------------------------------------------
(* Analysts of the terminal's data.                                        *)

(* A trend is two points, every other pattern one; without a majority the  *)
(* price decides against its average of 20.                                *)
TechnicalVote(r) ==
    LET bull == 2 * One(r.price > r.sma20 /\ r.sma20 > r.sma50)
                + One(r.rsi < 30) + One(r.macd > 0 /\ r.before <= 0)
                + One(r.bottoming)
        bear == 2 * One(r.price < r.sma20 /\ r.sma20 < r.sma50)
                + One(r.rsi > 70) + One(r.macd < 0 /\ r.before >= 0)
                + One(r.topping)
    IN  IF r = NoData THEN Silent
        ELSE IF bull # bear
        THEN Says(Side(bull - bear), 550 + 100 * Larger(bull, bear), 850)
        ELSE Voice(r.price > r.sma20, r.price < r.sma20, 520)

MarketVote(r) ==
    LET voices == << Voice(r.rsi < 30, r.rsi > 70, 700),
                     Voice(r.macd > r.line, r.macd < r.line, 650),
                     Voice(r.price < r.lower, r.price > r.upper, 700) >>
        For(a) == {i \in DOMAIN voices : voices[i].signal = a}
        winner == Side(Cardinality(For("BUY")) - Cardinality(For("SELL")))
        sum == Total([i \in For(winner) |-> voices[i].confidence])
    IN  IF r = NoData THEN Silent
        ELSE IF winner = "HOLD" THEN Holds(500)
        ELSE Says(winner, sum \div Cardinality(For(winner)), 1000)

(* Volumes of ticks or of candles that rose and fell.  _evaluate_flow also *)
(* weighs how far the microprice is from the middle of a spread it puts    *)
(* around that same microprice: nothing.                                   *)
OrderFlowVote(r) ==
    LET rose == Larger(100, r.rose)
        fell == Larger(100, r.fell)
        lean == rose - fell
        strength == Magnitude(lean)
        volume == rose + fell
    IN  IF r = NoData THEN Silent
        ELSE IF 70 * strength > 8 * volume
        THEN Says(Side(lean), 600 + (560 * strength) \div volume, 850)
        ELSE IF 50 * strength > volume THEN Says(Side(lean), 550, 550)
        ELSE Holds(500)

(* Hundredths of a Sharpe ratio, ten-thousandths of the balance lost and   *)
(* of a position at risk, per cent of correlation.                         *)
SharpePoints(n) ==
    CASE n > 200 -> 300 [] n \in 101..200 -> 200 [] n \in 1..100 -> 100
      [] n < -100 -> -300 [] n \in -100..-1 -> -150 [] OTHER -> 0
DrawdownPoints(n) ==
    CASE n < 200 -> 300 [] n \in 200..499 -> 200 [] n \in 500..999 -> 100
      [] n > 1500 -> -200 [] n \in 1001..1500 -> -100 [] OTHER -> 0
VaRPoints(n) ==
    CASE n < 100 -> 200 [] n \in 100..199 -> 100
      [] n > 400 -> -200 [] n \in 301..400 -> -100 [] OTHER -> 0
CorrelationPoints(n) == IF n > 80 THEN -150 ELSE IF n < 30 THEN 100 ELSE 0

(* The correlation is the open volume, in hundredths of five lots.         *)
RiskScore(r) ==
    SharpePoints(r.sharpe)
    + DrawdownPoints((10000 * Larger(0, r.balance - r.equity)) \div r.balance)
    + VaRPoints(r.var)
    + CorrelationPoints(IF r.lots = 0 THEN 50
                        ELSE Between(0, r.lots \div 5, 100))

(* An account in good health buys, one under stress sells, any symbol.     *)
RiskVote(r) ==
    LET score == RiskScore(r)
        clear == IF Magnitude(score) > 200 THEN Magnitude(score) ELSE 0
    IN  IF r = NoData THEN Silent
        ELSE Voice(score > 50, score < -50,
                   Between(0, 550 + (3 * clear) \div 10, 800))

(* A position above ten lots, or more lots than half the equity.           *)
ComplianceVote(r) ==
    IF r = NoData THEN Silent
    ELSE IF r.largest > 1000 \/ r.lots > 50 * r.equity
    THEN Says("SELL", 850, 850) ELSE Holds(650)

(* Thousandths; the composite is in hundred-thousandths.  A calm market    *)
(* has a cointegration score of one, so that of a market that does not     *)
(* move is to buy.                                                         *)
QuantVote(r) ==
    LET composite == 30 * r.arb + 20 * r.reversion + 25 * r.cointegration
                     + 25 * r.momentum
        trend == Side(r.momentum) = Side(r.arb)
                     /\ Magnitude(r.momentum) > 150 /\ Magnitude(r.arb) > 50
        Scaled(base, n) == base + (3 * Magnitude(n)) \div 10
    IN  IF r = NoData THEN Silent
        ELSE IF trend THEN Says(Side(r.momentum), Scaled(600, r.momentum), 850)
        ELSE IF Magnitude(r.reversion) > 150
        THEN Says(Side(r.reversion), Scaled(550, r.reversion), 800)
        ELSE IF Magnitude(composite) > 15000
        THEN Says(Side(composite), 500 + Magnitude(composite) \div 200, 850)
        ELSE Voice(r.arb > 200, r.arb < -200, 550)

----------------------------------------------------------------------------
(* Analysts of the internet.  A pair is a record of two currencies.        *)

OfDollar(pair) == "USD" \in {pair.base, pair.quote}

(* Words that are good and bad news in a headline, whoever they are about. *)
HeadlineScore(h) ==
    IF h.bull + h.bear = 0 THEN 0
    ELSE (1000 * (h.bull - h.bear)) \div (h.bull + h.bear)

(* The headlines about one of the pair's currencies, or the first twenty.  *)
Pool(headlines, pair) ==
    LET relevant == SelectSeq(headlines, LAMBDA h :
                                  h.about \cap {pair.base, pair.quote} # {})
    IN  IF relevant # <<>> THEN relevant
        ELSE SubSeq(headlines, 1, Between(0, Len(headlines), 20))

NewsVote(headlines, pair) ==
    LET pool == Pool(headlines, pair)
        sum == Total([i \in DOMAIN pool |-> HeadlineScore(pool[i])])
        score == sum \div Len(pool)
    IN  IF headlines = <<>> THEN Silent
        ELSE IF Magnitude(score) > 50
        THEN Says(Side(score), 400 + (2 * Magnitude(score)) \div 5, 850)
        ELSE Holds(450)

(* What a series says: greed or a rising dollar, fear or a falling one.    *)
Feels(lean, confidence) == [lean |-> lean, confidence |-> confidence]
OfVix(n) ==
    CASE n > 30 -> Feels(-1, 800) [] n \in 26..30 -> Feels(-1, 600)
      [] n < 15 -> Feels(1, 700) [] OTHER -> Feels(0, 500)
OfFearAndGreed(n) ==
    CASE n < 25 -> Feels(-1, 700) [] n \in 25..39 -> Feels(-1, 500)
      [] n > 75 -> Feels(1, 700) [] n \in 61..75 -> Feels(1, 500)
      [] OTHER -> Feels(0, 500)
OfDollarWeek(n) ==
    IF Magnitude(n) > 50 THEN Feels(Sign(n), 600) ELSE Feels(0, 400)

(* Greed and a rising dollar count alike, and whether the dollar is bought *)
(* or sold with the pair makes no difference.                              *)
SentimentVote(r, pair) ==
    LET Mood(n, Of(_)) == IF n = NoData THEN <<>> ELSE <<Of(n)>>
        moods == Mood(r.vix, OfVix) \o Mood(r.greed, OfFearAndGreed)
                     \o Mood(r.week, OfDollarWeek)
        lean == Total([i \in DOMAIN moods |-> moods[i].lean])
        mean == Total([i \in DOMAIN moods |-> moods[i].confidence])
                    \div Len(moods)
    IN  IF moods = <<>> THEN Silent
        ELSE IF lean = 0 THEN Holds(450)
        ELSE IF OfDollar(pair) THEN Says(Side(lean), mean + 100, 850)
        ELSE Says(Side(-lean), mean, 750)

(* Currencies for which the macro analyst has no series of their own.      *)
American(currency) ==
    currency \notin {"EUR", "GBP", "JPY", "CHF", "AUD", "CAD", "NZD"}

(* Tenths of the dollar index and of the oil price, hundredths of a per    *)
(* cent between yields of ten and of two years.  More bull than bear       *)
(* points buy the pair, anything else sells it, equal ones too.            *)
MacroVote(r, pair) ==
    LET dxy == r.dxy
        spread == IF American(pair.base) THEN r.spread ELSE NoData
        oil == IF "CAD" \in {pair.base, pair.quote} THEN r.oil ELSE NoData
        vix == IF American(pair.base) THEN r.vix ELSE NoData
        bull == Above(dxy, 1030) + Above(spread, 50) + Above(oil, 700)
                + Below(vix, 15)
        bear == Below(dxy, 1020) + Below(spread, 0) + Below(oil, 650)
                + Above(vix, 30)
    IN  IF {dxy, spread, oil, vix} = {NoData} /\ ~r.others THEN Silent
        ELSE IF bull + bear = 0 THEN Holds(400)
        ELSE Says(IF bull > bear THEN "BUY" ELSE "SELL",
                  500 + (300 * Magnitude(bull - bear)) \div (bull + bear), 850)

(* Fear is to buy the pairs of the dollar and to sell the others, on       *)
(* whichever side of the pair the dollar is.                               *)
HavenVote(pair, bull, bear, weight, cap, tie) ==
    LET Share(n) == 500 + (weight * n) \div (bull + bear)
        fear == IF OfDollar(pair) THEN "BUY" ELSE "SELL"
    IN  CASE bull + bear = 0 -> Holds(400)
          [] bear > bull -> Says(fear, Share(bear), cap)
          [] bull > bear -> Says(Other(fear), Share(bull), cap)
          [] OTHER -> Holds(tie)

(* Volumes of puts and calls of the funds that have options, and their     *)
(* mean implied volatility in per cent.                                    *)
OptionsVote(r, pair) ==
    LET calls == Larger(1, r.calls)
        bear == One(r.puts > calls) + One(10 * r.puts > 9 * calls)
                + One(r.iv > 35) + One(2 * r.puts > 3 * r.calls)
        bull == One(10 * r.puts < 7 * calls) + One(10 * r.puts < 8 * calls)
                + One(r.iv < 15) + One(2 * r.calls > 3 * r.puts)
    IN  IF r = NoData THEN Silent
        ELSE HavenVote(pair, bull, bear, 300, 800, 450)

(* Per cent.  Who knows the price of Bitcoin only is told that Bitcoin     *)
(* dominates, which no change of the price outweighs.                      *)
OnChainVote(r, pair) ==
    LET share == IF r.dominance = NoData /\ r.priced THEN 55 ELSE r.dominance
        bear == Above(share, 48) + Above(share, 52) + Below(r.change, -1)
        bull == Below(share, 46) + Below(share, 43) + Above(r.change, 1)
    IN  HavenVote(pair, bull, bear, 250, 750, 400)

----------------------------------------------------------------------------
(* The analyst of fundamentals goes through the series one by one.  Each   *)
(* may turn the signal; the confidence only grows.                         *)

Pair(base, quote) == [base |-> base, quote |-> quote]
YenPairs == {Pair("EUR", "JPY"), Pair("GBP", "JPY"), Pair("USD", "JPY")}
Covered ==
    YenPairs \cup {Pair(c, "USD") : c \in {"EUR", "GBP", "AUD", "NZD"}}
             \cup {Pair("USD", "CHF"), Pair("USD", "CAD"), Pair("EUR", "GBP")}

Firmer(v, signal, more) == Says(signal, v.confidence + more, 700)

(* Hundredths of a per cent.  A rising dollar is sold: of USDJPY it sells  *)
(* the first currency, of EURUSD it buys the other one.                    *)
AfterDollar(v, change, pair) ==
    LET side == Side(IF pair.base = "USD" THEN -change ELSE change)
    IN  IF change = NoData \/ Magnitude(change) <= 15 THEN v
        ELSE Firmer(v, side, 200)

(* The yield is above four per cent or below.                              *)
AfterYield(v, above, pair) ==
    LET side == Side(IF pair.base = "USD" THEN above ELSE -above)
    IN  IF above = NoData \/ above = 0 \/ pair = Pair("EUR", "GBP") THEN v
        ELSE Firmer(v, IF v.signal = "HOLD" THEN side ELSE v.signal, 120)

AfterGold(v, change, pair) ==
    IF change # NoData /\ Magnitude(change) > 50 /\ pair = Pair("USD", "CHF")
    THEN Firmer(v, Side(-change), 150) ELSE v

(* Oil for USDCAD, copper for AUDUSD, the Nikkei for pairs of the yen.     *)
AfterOwn(v, change, pair) ==
    LET pairs == YenPairs \cup {Pair("AUD", "USD"), Pair("USD", "CAD")}
        side == Side(IF pair = Pair("AUD", "USD") THEN change ELSE -change)
        turned == IF Magnitude(change) > 50 THEN side ELSE v.signal
    IN  IF change = NoData \/ pair \notin pairs THEN v
        ELSE Firmer(v, turned, 120)

FundamentalsVote(r, pair) ==
    LET dollar == AfterDollar(Silent, r.dollar, pair)
        gold == AfterGold(AfterYield(dollar, r.yield, pair), r.gold, pair)
        vote == AfterOwn(gold, r.own, pair)
        nothing == {r[series] : series \in DOMAIN r} = {NoData}
    IN  IF pair \notin Covered \/ nothing THEN Silent
        ELSE IF vote.confidence = 0 THEN Holds(150) ELSE vote

----------------------------------------------------------------------------
(* The legends, of the candles.  All percentages are in hundredths.        *)

(* How far both slopes go the same way, up to a hundred per cent.          *)
Reflexivity(r) ==
    IF Sign(r.slope20) * Sign(r.slope50) = 1
    THEN Between(0, Magnitude(r.slope20) + Magnitude(r.slope50), 10000) ELSE 0

SorosVote(r) ==
    LET trend == Side(r.slope20)
        clear == Reflexivity(r) \div 20
    IN  IF Reflexivity(r) > 5000 /\ r.squeeze
        THEN Says(trend, 500 + clear, 900)
        ELSE IF Magnitude(r.deviation) > 300
        THEN Says(Side(-r.deviation), 400 + Magnitude(r.deviation), 800)
        ELSE IF Reflexivity(r) > 3000 THEN Says(trend, 400 + clear, 800)
        ELSE Holds(300)

(* The margin is that of the average of 50 over the price.  The moat is a  *)
(* hundred less the volatility: next to a hundred for most currencies.     *)
BuffettVote(r) ==
    IF r.margin > 500 THEN Says("BUY", 500 + r.margin \div 2, 850)
    ELSE IF r.margin < -500 THEN Says("SELL", 400 + (-r.margin) \div 2, 750)
    ELSE IF r.moat > 7000 THEN Says("BUY", 400 + r.moat \div 50, 1000)
    ELSE Holds(300)

(* Upside over downside, in hundredths; none if there is no downside.      *)
RiskReward(r) == IF r.downside > 1 THEN (100 * r.upside) \div r.downside ELSE 0

DruckenmillerVote(r) ==
    LET reward == RiskReward(r)
    IN  IF reward > 200 /\ r.roc5 > 0 THEN Says("BUY", 500 + 2 * reward, 900)
        ELSE IF reward < 50 /\ r.roc5 < 0
        THEN Says("SELL", 500 + Between(0, 20000 \div (reward + 1), 400), 850)
        ELSE IF r.range > 80 /\ r.roc20 > 200 THEN Says("BUY", 600, 600)
        ELSE IF r.range < 20 /\ r.roc20 < -200 THEN Says("SELL", 600, 600)
        ELSE Holds(300)

TudorJonesVote(r) ==
    IF r.macd > 0 /\ r.before <= 0 /\ r.rsi < 65
    THEN Says("BUY", 500 + 10 * (65 - r.rsi), 850)
    ELSE IF r.macd < 0 /\ r.before >= 0 /\ r.rsi > 35
    THEN Says("SELL", 500 + 10 * (r.rsi - 35), 850)
    ELSE IF r.rsi < 30 THEN Says("BUY", 650, 650)
    ELSE IF r.rsi > 70 THEN Says("SELL", 650, 650) ELSE Holds(300)

(* The price is reasonable within five per cent of its average of 50.      *)
LynchVote(r) ==
    LET reasonable == Magnitude(r.excess) < 500
        growth == One(r.roc10 > 0) + One(r.roc30 > 0)
    IN  IF r.roc30 > 200 /\ reasonable THEN Says("BUY", 500 + r.roc30, 800)
        ELSE IF r.roc30 < -200 /\ ~reasonable
        THEN Says("SELL", 500 - r.roc30, 750)
        ELSE IF growth = 2 THEN Says("BUY", 600, 600)
        ELSE IF growth = 0 THEN Says("SELL", 500, 500) ELSE Holds(300)

----------------------------------------------------------------------------
(* The polls.                                                              *)

(* apps/analysts/__init__.py imports them all: where one package is        *)
(* missing no analyst can be imported, those included that do without it,  *)
(* and none is counted.                                                    *)
AnalystVotes(m, pair) ==
    IF ~Installed THEN <<>> ELSE
    [fundamentals |-> FundamentalsVote(m.fundamentals, pair),
     quant |-> QuantVote(m.quant), market |-> MarketVote(m.market),
     risk |-> RiskVote(m.risk), technical |-> TechnicalVote(m.technical),
     compliance |-> ComplianceVote(m.compliance),
     orderFlow |-> OrderFlowVote(m.orderFlow),
     news |-> NewsVote(m.news, pair),
     sentiment |-> SentimentVote(m.sentiment, pair),
     macro |-> MacroVote(m.macro, pair),
     options |-> OptionsVote(m.options, pair),
     onChain |-> OnChainVote(m.onChain, pair)]

LegendVotes(r) ==
    [soros |-> SorosVote(r.soros), buffett |-> BuffettVote(r.buffett),
     druckenmiller |-> DruckenmillerVote(r.druckenmiller),
     tudorJones |-> TudorJonesVote(r.tudorJones), lynch |-> LynchVote(r.lynch)]

Poll(votes) ==
    [signal \in Actions \cup {"HOLD"} |->
        Cardinality({v \in DOMAIN votes : votes[v].signal = signal})]

(* Those who vote for a with a confidence above 0.6.                       *)
Sure(votes, a) ==
    Cardinality({v \in DOMAIN votes :
                     votes[v].signal = a /\ votes[v].confidence > 600})

(* A look of Consensus, where the points are those of every timeframe.     *)
LookAt(points, m, legends, pair) ==
    LET votes == AnalystVotes(m, pair)
    IN  [early |-> points, loud |-> TRUE, late |-> 0,
         scores |-> [t \in Timeframes |-> points],
         analysts |-> Poll(votes),
         strong |-> Sure(votes, IF points > 0 THEN "SELL" ELSE "BUY"),
         legends |-> Poll(LegendVotes(legends))]
============================================================================
