----------------------------- MODULE MCLearning -----------------------------
(***************************************************************************)
(* Learning for TLC.  The looks are of USDJPY on a market in which every   *)
(* timeframe agrees, and are what Analysts makes of the readings.  The     *)
(* first two are of a trend up that has run far: four of five legends warn *)
(* against the signal to buy, and so do eight of twelve analysts, three of *)
(* them sure, which makes it stronger; a fourth sure one, the market more  *)
(* afraid, blocks it.  The third is of a trend down without the internet.  *)
(***************************************************************************)
EXTENDS Learning, Analysts, Advice, TLC

MCWeight == [t \in Timeframes |-> 25]
MCModels == [Situations -> {300, 700}]
MCPnLs == {-1, 0, 2}
MCRuleScores == {-3, 0}

Risen(vix, greed) == [
    technical |-> [price |-> 1500, sma20 |-> 1470, sma50 |-> 1415, rsi |-> 60,
                   macd |-> 5, before |-> 6,
                   bottoming |-> FALSE, topping |-> FALSE],
    market |-> [rsi |-> 60, macd |-> 5, line |-> 6,
                price |-> 1500, lower |-> 1430, upper |-> 1510],
    quant |-> [arb |-> 300, reversion |-> -100, cointegration |-> 200,
               momentum |-> 200],
    risk |-> [sharpe |-> 250, balance |-> 10000, equity |-> 9700, var |-> 30,
              lots |-> 100],
    compliance |-> [largest |-> 50, lots |-> 100, equity |-> 9700],
    orderFlow |-> [rose |-> 480, fell |-> 520],
    news |-> << [bull |-> 1, bear |-> 2, about |-> {"USD"}],
                [bull |-> 4, bear |-> 0, about |-> {"EUR"}] >>,
    sentiment |-> [vix |-> vix, greed |-> greed, week |-> 0],
    macro |-> [dxy |-> 1015, spread |-> 60, oil |-> NoData, vix |-> vix,
               others |-> TRUE],
    options |-> [puts |-> 6, calls |-> 10, iv |-> 20],
    onChain |-> [priced |-> TRUE, dominance |-> 42, change |-> 2],
    fundamentals |-> [dollar |-> 20, yield |-> -1, gold |-> 0, own |-> 60] ]

Fallen == [
    technical |-> [price |-> 1440, sma20 |-> 1450, sma50 |-> 1460, rsi |-> 40,
                   macd |-> -5, before |-> -4,
                   bottoming |-> FALSE, topping |-> FALSE],
    market |-> [rsi |-> 40, macd |-> -5, line |-> -4,
                price |-> 1440, lower |-> 1430, upper |-> 1470],
    quant |-> [arb |-> -40, reversion |-> 200, cointegration |-> 600,
               momentum |-> -50],
    risk |-> [sharpe |-> -50, balance |-> 10000, equity |-> 10000, var |-> 30,
              lots |-> 0],
    compliance |-> [largest |-> 0, lots |-> 0, equity |-> 10000],
    orderFlow |-> [rose |-> 300, fell |-> 700],
    news |-> <<>>,
    sentiment |-> [vix |-> NoData, greed |-> NoData, week |-> NoData],
    macro |-> [dxy |-> NoData, spread |-> NoData, oil |-> NoData,
               vix |-> NoData, others |-> FALSE],
    options |-> NoData,
    onChain |-> [priced |-> FALSE, dominance |-> NoData, change |-> NoData],
    fundamentals |-> [dollar |-> NoData, yield |-> NoData, gold |-> NoData,
                      own |-> NoData] ]

LegendsOfRisen == [
    soros |-> [slope20 |-> 200, slope50 |-> 300, squeeze |-> FALSE,
               deviation |-> 350],
    buffett |-> [margin |-> -600, moat |-> 9800],
    druckenmiller |-> [upside |-> 20, downside |-> 400, roc5 |-> -10,
                       roc20 |-> 300, range |-> 95],
    tudorJones |-> [macd |-> -1, before |-> 1, rsi |-> 60],
    lynch |-> [roc10 |-> -5, roc30 |-> 400, excess |-> 600] ]

LegendsOfFallen == [
    soros |-> [slope20 |-> -200, slope50 |-> -300, squeeze |-> FALSE,
               deviation |-> -100],
    buffett |-> [margin |-> 140, moat |-> 9800],
    druckenmiller |-> [upside |-> 300, downside |-> 30, roc5 |-> -50,
                       roc20 |-> -250, range |-> 9],
    tudorJones |-> [macd |-> -2, before |-> -1, rsi |-> 40],
    lynch |-> [roc10 |-> -50, roc30 |-> -150, excess |-> -140] ]

USDJPY == Pair("USD", "JPY")

MCLooks == {
    LookAt(3, Risen(22, 30), LegendsOfRisen, USDJPY),
    LookAt(3, Risen(28, 20), LegendsOfRisen, USDJPY),
    LookAt(-4, Fallen, LegendsOfFallen, USDJPY) }

Symmetry == Permutations(Symbols)

(* Once the gates have raised there are two results at most, which is what *)
(* a model needs.                                                          *)
FewAfterRaising == raised => nresults <= RetrainAt

----------------------------------------------------------------------------
(* What is checked of the advice of the API server, once, before the run.  *)
MCAnswers == {Vote(s, c) : s \in {"BUY", "SELL", "HOLD"}, c \in {400, 900}} \cup Silences
MCPanels == [1..4 -> MCAnswers]
MCPredictions == {Nobody, [kind |-> "raised"]}
                 \cup {[kind |-> "up", up |-> p] : p \in 480..520}
MCArguments == {Nobody, [kind |-> "raised"]}
               \cup {[kind |-> "said", confidence |-> c] : c \in {0, 500, 700, 1000}}

(* Analysts that fail do not turn BUY into SELL unless they are more than  *)
(* half: then it may be one that is left to advise.                        *)
Without(panel, failed) ==
    [i \in DOMAIN panel |-> IF i \in failed THEN [kind |-> "late"] ELSE panel[i]]
ASSUME HalfNeverReverses ==
    \A panel \in MCPanels, failed \in SUBSET (1..4) :
        \/ Cardinality(failed) > 2
        \/ {Counted(panel).action, Counted(Without(panel, failed)).action} # Actions

(* A debate changes how sure the advice is, never what it is.              *)
ASSUME DebateKeepsAction ==
    \A panel \in MCPanels, bull \in MCArguments, bear \in MCArguments :
        LET counted == Counted(panel)
            result == Evaluate(panel, bull, bear)
        IN  /\ result.action = counted.action
            /\ counted.action = "HOLD" => result = counted
            /\ result.confidence \in 0..1000

(* The gates are passed by any agreement, to sell or to do nothing too,    *)
(* once the model expects the price to rise.                               *)
ASSUME GatesIgnoreDirection ==
    \A panel \in MCPanels, prediction \in MCPredictions :
        LET result == Counted(panel)
        IN  TradeAllowed(result, prediction) <=>
                /\ Agrees(result)
                /\ prediction.kind = "up" /\ prediction.up > 510

(* The engine asks the same gates of the direction it trades in.           *)
ASSUME EngineAsksDirection ==
    \A p \in 1..999, a \in Actions :
        LET edge == IF a = "BUY" THEN p - 500 ELSE 500 - p
            prediction == [kind |-> "up", up |-> p]
            passes == MLGate(prediction, 500, a) /\ EdgeGate(500 + edge, 500)
        IN  /\ a = "BUY" => (passes <=> p > 510)
            /\ a = "SELL" => (passes <=> p < 490)
============================================================================
