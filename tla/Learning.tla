------------------------------ MODULE Learning ------------------------------
(***************************************************************************)
(* How signals become orders and how their results come back: the machine  *)
(* learning model that ranks signals (ml_rank) and gates orders            *)
(* (ConsensusGates), the profile and the size of an order, and the trade   *)
(* results that size, profile and the next model are made of.              *)
(*                                                                         *)
(* A model says how probable a rising price is in each situation, in       *)
(* thousandths.  The same file is read by two predictors, each when it is  *)
(* first needed, and written by _maybe_retrain_ml, not in one step: a      *)
(* crash in between leaves a file that nobody can read.                    *)
(*                                                                         *)
(* Sessions, spreads, exposure, correlations, calendar and sentiment only  *)
(* keep a signal or an order back: an action that is not taken.            *)
(***************************************************************************)
EXTENDS Consensus, Sequences

CONSTANTS
    Symbols, NoPosition,
    Looks,          \* looks at the market, see Consensus
    Situations,     \* what the ten features of the model tell apart
    Models,         \* trained models, probabilities by situation
    NoFile, Torn,   \* no model file, one that cannot be read
    Untrained,      \* a predictor without a model
    NotLoaded,      \* ml_rank has no predictor, or the engine has no gates
    PnLs,
    RuleScores,     \* rule scores of the market in _select_strategy_profile
    MaxConcurrent,  \* max_concurrent_trades
    KellyMin, KellyWindow, Keep,    \* results Kelly needs, uses; results kept
    ProfileMin,     \* trades per profile before performance counts
    RetrainAt, Diversity, MaxSamples,   \* ml_retrain_interval, ml_min_diversity,
                                        \* ml_max_training_data
    BaseLots,       \* lots of a sure signal, in thousandths
    SymbolMax,      \* MAX_LOTS_PER_SYMBOL, in thousandths
    MaxResults, MaxOrders, MaxRestarts, MaxRetrains     \* bounds

Profiles == {"aggressive", "neutral", "conservative"}
Owners == {"engine", "scalper", "found"}

ASSUME NamesAssumption ==
    /\ NoPosition \notin [action : Actions, profile : Profiles, owner : Owners]
    /\ Models \subseteq [Situations -> 0..1000]
    /\ {NoFile, Torn, Untrained, NotLoaded} \cap Models = {}
    /\ NoFile # Torn /\ Untrained # NotLoaded
ASSUME LooksAssumption ==
    \A look \in Looks :
        /\ look.early \in Int /\ look.loud \in BOOLEAN /\ look.late \in Int
        /\ look.strong \in Nat
        /\ look.analysts \in [{"BUY", "SELL", "HOLD"} -> Nat]
        /\ look.legends \in [{"BUY", "SELL", "HOLD"} -> Nat]
ASSUME ResultsAssumption == PnLs \subseteq Int /\ RuleScores \subseteq Int
ASSUME LearningAssumption ==
    /\ MaxConcurrent \in Nat /\ BaseLots \in Nat /\ SymbolMax \in Nat
    /\ KellyMin \in Nat \ {0} /\ KellyWindow \in Nat \ {0} /\ Keep \in Nat \ {0}
    /\ KellyWindow <= Keep
    /\ ProfileMin \in Nat \ {0} /\ RetrainAt \in Nat \ {0} /\ Diversity \in Nat
    /\ MaxSamples \in Nat \ {0}
ASSUME LimitsAssumption ==
    MaxResults \in Nat /\ MaxOrders \in Nat /\ MaxRestarts \in Nat /\ MaxRetrains \in Nat

VARIABLES
    pc,             \* "manage", "save", "analyze" or "execute"
    file,           \* xgboost_model.pkl
    gate,           \* the model of consensus_gates
    ranker,         \* the model of ml_rank._predictor
    samples,        \* _ml_training_data
    fitted,         \* the model that is being saved
    retrained,      \* whether this cycle has trained
    results,        \* _trade_results
    streak,         \* consecutive wins, or losses below zero
    performance,    \* _profile_performance
    position,       \* the registry, by symbol
    signals,        \* of this cycle
    nresults, orders, restarts, retrains,   \* counters of the bounded events
    shipped, torn,  \* history: whether there was a file to begin with, how
    raised          \* often a crash left half of one, and whether an order
                    \* went out because the gates raised an exception

ml == <<file, gate, ranker, samples, fitted, retrained, retrains>>
books == <<results, streak, performance, nresults>>
history == <<shipped, torn, raised>>
vars == <<pc, ml, books, position, signals, orders, restarts, history>>

Recent(s, n) == SubSeq(s, IF Len(s) > n THEN Len(s) - n + 1 ELSE 1, Len(s))
WinsIn(s) == {i \in DOMAIN s : s[i] > 0}
WinsOf(s) == Cardinality(WinsIn(s))
SumOver(s, S) ==
    LET sum[n \in 0..Len(s)] ==
            IF n = 0 THEN 0 ELSE sum[n - 1] + (IF n \in S THEN s[n] ELSE 0)
    IN  sum[Len(s)]

(* MLPredictor(): the file as it is now; Torn raises instead.              *)
Loaded == IF file = NoFile THEN Untrained ELSE file
GateOf(f) == IF f = Torn THEN NotLoaded ELSE IF f = NoFile THEN Untrained ELSE f

Probability(model, x) == IF model \in {Untrained, NotLoaded} THEN 500 ELSE model[x]

Init ==
    /\ pc = "manage"
    /\ file \in Models \cup {NoFile} /\ gate = GateOf(file)
    /\ ranker = NotLoaded
    /\ samples = <<>> /\ fitted = NotLoaded /\ retrained = FALSE
    /\ results = <<>> /\ streak = 0
    /\ performance = [p \in Profiles |-> [trades |-> 0, wins |-> 0, total |-> 0]]
    /\ position = [s \in Symbols |-> NoPosition]
    /\ signals = {}
    /\ nresults = 0 /\ orders = 0 /\ restarts = 0 /\ retrains = 0
    /\ shipped = (file # NoFile) /\ torn = 0 /\ raised = FALSE

Open == {s \in Symbols : position[s] # NoPosition}

----------------------------------------------------------------------------
(* Sizes.                                                                  *)

AvgWin == [aggressive |-> 20000, neutral |-> 17500, conservative |-> 15075]
AvgLoss == [aggressive |-> 5000, neutral |-> 7500, conservative |-> 9950]

(* Mutant: the average loss without abs().                                 *)
LostBelowZero(rs) == SumOver(rs, DOMAIN rs \ WinsIn(rs))

LostIn(rs) == -SumOver(rs, DOMAIN rs \ WinsIn(rs))

(* The Kelly fraction over max_kelly, in percent: of the recent results    *)
(* if there are wins and losses among them, else of the profile.           *)
KellyOf(recent) ==
    LET won == SumOver(recent, WinsIn(recent))
        lost == LostIn(recent)
        wins == WinsOf(recent)
    IN  IF lost = 0
        THEN (250 * (5 * wins - 2 * Len(recent))) \div (3 * Len(recent))
        ELSE (250 * wins * (won - lost)) \div (won * Len(recent))

KellyOfProfile(profile) ==
    (250 * (55 * AvgWin[profile] - 45 * AvgLoss[profile])) \div (100 * AvgWin[profile])

KellyScale(rs, profile) ==
    LET recent == Recent(rs, KellyWindow)
        measured == /\ Len(rs) >= KellyMin
                    /\ WinsIn(recent) # {} /\ DOMAIN recent \ WinsIn(recent) # {}
    IN  Between(50, IF measured THEN KellyOf(recent) ELSE KellyOfProfile(profile), 150)

StreakScale(n) ==
    CASE n >= 5 -> 130 [] n \in 3..4 -> 115
      [] n <= -3 -> 50 [] n = -2 -> 70 [] OTHER -> 100

Rounded(n) == ((n + 5) \div 10) * 10
AtLeastMin(n) == IF n < 10 THEN 10 ELSE n

Sessions == {70, 100, 110, 120}     \* _get_session_multiplier

(* calculate_position_size, which halves the risk after three losses, and  *)
(* the factors that _execute_trade puts on top of it and of its limit.     *)
(* Drawdown, volatility and the share of risk parity do not depend on the  *)
(* last result by itself and are left out.                                 *)
Lots(rs, n, confidence, profile, session) ==
    LET risk == IF n <= -3 THEN BaseLots \div 2 ELSE BaseLots
        sized == Between(0, (risk * Between(500, confidence, 1000)) \div 1000, SymbolMax)
        scale == KellyScale(rs, profile) * session * StreakScale(n)
    IN  AtLeastMin(Rounded((Rounded(AtLeastMin(sized)) * scale) \div 1000000))

----------------------------------------------------------------------------
(* Profiles.                                                               *)

DefaultProfile == "aggressive"      \* symbol_default_profiles of most pairs

Rule(score) ==
    CASE score > 1 -> "aggressive" [] score < -1 -> "conservative" [] OTHER -> "neutral"


(* The last five results, once there are three.                            *)
Momentum ==
    IF Len(results) < 3 THEN 0
    ELSE CASE WinsOf(Recent(results, 5)) >= 4 -> 1
           [] WinsOf(Recent(results, 5)) <= 1 -> -1
           [] OTHER -> 0

Better(p, q) == p.wins * q.trades * 20 > q.wins * p.trades * 20 + p.trades * q.trades
Richer(p, q) == p.total * q.trades * 10 > q.total * p.trades * 12

PerformanceBias ==
    LET a == performance["aggressive"]
        c == performance["conservative"]
    IN  IF a.trades < ProfileMin \/ c.trades < ProfileMin THEN 0
        ELSE (IF Better(a, c) THEN 1 ELSE IF Better(c, a) THEN -1 ELSE 0)
             + (IF Richer(a, c) THEN 1 ELSE IF Richer(c, a) THEN -1 ELSE 0)

(* A signal's own confidence is one of the factors; the language model may *)
(* pick any profile where the rules are not sure.                          *)
SelectsProfile(market, confidence, profile) ==
    LET rules == market + Momentum
                    + (IF confidence > 700 THEN 1 ELSE IF confidence < 400 THEN -1 ELSE 0)
        score == rules + PerformanceBias
        choice == IF PerformanceBias = 0 /\ score = 0 THEN DefaultProfile ELSE Rule(score)
    IN  profile = choice \/ (Magnitude(score) <= 2 /\ profile \in Profiles)

----------------------------------------------------------------------------
(* Signals and orders.                                                     *)

(* ml_rank's boost of a confidence.                                        *)
Boosted(confidence, a, p) ==
    CASE a = "BUY" /\ p > 650 -> Between(0, confidence + (p - 500) \div 5, 1000)
      [] a = "SELL" /\ p < 350 -> Between(0, confidence + (500 - p) \div 5, 1000)
      [] OTHER -> confidence

(* The predictor ml_rank makes if it has none; an exception leaves it so.  *)
(* Mutant: it makes one for each signal.                                   *)
RanksAnew == IF file = Torn THEN NotLoaded ELSE Loaded

Ranks == IF ranker # NotLoaded THEN ranker ELSE RanksAnew

(* _analyze_symbol, for a look that leaves a signal; sentiment or calendar *)
(* may still hold it back.                                                 *)
Analyzes(s, look, a, x) ==
    /\ pc = "analyze"
    /\ \A g \in signals : g.symbol # s
    /\ SignalsFor(look, a)
    /\ ranker' = Ranks
    /\ signals' \in {signals,
           signals \cup {[symbol |-> s, action |-> a, situation |-> x,
                          confidence |-> Boosted(Adjusted(look, a), a,
                                                 Probability(ranker', x))]}}
    /\ UNCHANGED <<pc, file, gate, samples, fitted, retrained, retrains, books,
                   position, orders, restarts, history>>

EndsAnalysis ==
    /\ pc = "analyze"
    /\ pc' = "execute"
    /\ UNCHANGED <<ml, books, position, signals, orders, restarts, history>>

(* Gate 1: the model does not expect the opposite.                         *)
ModelAgrees(g) ==
    LET p == Probability(gate, g.situation)
    IN  IF g.action = "BUY" THEN p >= 500 ELSE p <= 500

(* Gate 5: it expects the signal.  A probability of zero counts as a half. *)
HasEdge(g) ==
    LET p == Probability(gate, g.situation)
        edge == IF p = 0 THEN 0 ELSE IF g.action = "BUY" THEN p - 500 ELSE 500 - p
    IN  edge > 10

(* Mutant: the edge is not asked for.                                      *)
GatesWithoutEdge(g) ==
    /\ gate = NotLoaded \/ ModelAgrees(g)
    /\ UNCHANGED raised

(* The gates of _execute_trade that ask the model; without gates nothing is*)
(* asked.  Behind the first one an import and three more may raise, which  *)
(* blocks nothing: the order goes out.                                     *)
GatesPass(g) ==
    \/ gate = NotLoaded /\ UNCHANGED raised
    \/ /\ gate # NotLoaded /\ ModelAgrees(g)
       /\ \/ HasEdge(g) /\ UNCHANGED raised
          \/ raised' = TRUE

(* The best signal is executed first; any may fail to become an order.     *)
Executes(g, market, profile) ==
    /\ pc = "execute"
    /\ g \in signals /\ \A h \in signals : h.confidence <= g.confidence
    /\ signals' = signals \ {g}
    /\ orders < MaxOrders
    /\ g.symbol \notin Open /\ Cardinality(Open) < MaxConcurrent
    /\ SelectsProfile(market, g.confidence, profile)
    /\ GatesPass(g)
    /\ orders' = orders + 1
    /\ position' = [position EXCEPT ![g.symbol] =
           [action |-> g.action, profile |-> profile, owner |-> "engine"]]
    /\ UNCHANGED <<pc, ml, books, restarts, shipped, torn>>

Skips(g) ==
    /\ pc = "execute"
    /\ g \in signals /\ \A h \in signals : h.confidence <= g.confidence
    /\ signals' = signals \ {g}
    /\ UNCHANGED <<pc, ml, books, position, orders, restarts, history>>

(* A cycle may also be over once it has managed its positions.             *)
EndsCycle ==
    /\ pc = "manage" \/ (pc = "execute" /\ signals = {})
    /\ pc' = "manage" /\ retrained' = FALSE
    /\ UNCHANGED <<file, gate, ranker, samples, fitted, retrains, books, position,
                   signals, orders, restarts, history>>

----------------------------------------------------------------------------
(* Results.                                                                *)

NewStreak(pnl) ==
    CASE pnl > 0 -> (IF streak > 0 THEN streak + 1 ELSE 1)
      [] pnl < 0 -> (IF streak < 0 THEN streak - 1 ELSE -1)
      [] OTHER -> streak

Counts == nresults < MaxResults /\ nresults' = nresults + 1

(* Mutant: the list of results is never cut.                               *)
ForKellyForEver(pnl) == results' = Append(results, pnl)

ForKelly(pnl) == results' = Recent(Append(results, pnl), Keep)

(* _sync_scalp_results, for a scalp with a result.                         *)
ScalpResult(pnl) ==
    /\ pc = "manage"
    /\ pnl # 0
    /\ Counts
    /\ ForKelly(pnl)
    /\ streak' = NewStreak(pnl)
    /\ UNCHANGED <<pc, ml, performance, position, signals, orders, restarts, history>>

(* The broker closed a position.  If it was no scalp its result makes no   *)
(* difference to Kelly, and never one to the profiles or to the model.     *)
Reconciled(s, pnl) ==
    /\ pc = "manage"
    /\ s \in Open
    /\ Counts
    /\ IF position[s].owner = "scalper" THEN ForKelly(pnl) ELSE UNCHANGED results
    /\ streak' = NewStreak(pnl)
    /\ position' = [position EXCEPT ![s] = NoPosition]
    /\ UNCHANGED <<pc, ml, performance, signals, orders, restarts, history>>

Label(pnl) == IF pnl > 0 THEN 1 ELSE 0

(* _record_trade_for_ml.  Three of the features are taken again, at exit.  *)
Sampled(s, pnl, x) ==
    IF position[s].owner = "engine"
    THEN Recent(Append(samples, [situation |-> x, action |-> position[s].action,
                                 label |-> Label(pnl)]), MaxSamples)
    ELSE samples

LabelsOf(data, l) == {i \in DOMAIN data : data[i].label = l}

MayRetrain(data) ==
    /\ Len(data) >= RetrainAt /\ ~retrained /\ retrains < MaxRetrains
    /\ \A l \in {0, 1} : Cardinality(LabelsOf(data, l)) >= Diversity

(* _close_trade.  Training may fail, which changes nothing.                *)
ClosesTrade(s, pnl, x) ==
    /\ pc = "manage"
    /\ s \in Open
    /\ Counts
    /\ ForKelly(pnl)
    /\ streak' = NewStreak(pnl)
    /\ performance' = [performance EXCEPT ![position[s].profile] =
           [trades |-> @.trades + 1, total |-> @.total + pnl,
            wins |-> @.wins + Label(pnl)]]
    /\ samples' = Sampled(s, pnl, x)
    /\ position' = [position EXCEPT ![s] = NoPosition]
    /\ \/ UNCHANGED <<pc, file, fitted, retrains>>
       \/ /\ position[s].owner = "engine" /\ MayRetrain(samples')
          /\ fitted' \in Models
          /\ retrains' = retrains + 1
          /\ file' = Torn
          /\ pc' = "save"
    /\ UNCHANGED <<gate, ranker, retrained, signals, orders, restarts, history>>

(* The rest of PredictionModel.save; the predictors keep what they have.   *)
Saves ==
    /\ pc = "save"
    /\ file' = fitted /\ fitted' = NotLoaded
    /\ retrained' = TRUE
    /\ pc' = "manage"
    /\ UNCHANGED <<gate, ranker, samples, retrains, books, position, signals, orders,
                   restarts, history>>

(* The exception is caught, and the file is left as it is.                 *)
SaveFails ==
    /\ pc = "save"
    /\ fitted' = NotLoaded
    /\ torn' = torn + 1
    /\ pc' = "manage"
    /\ UNCHANGED <<file, gate, ranker, samples, retrained, retrains, books, position,
                   signals, orders, restarts, shipped, raised>>

StartsAnalysis ==
    /\ pc = "manage"
    /\ pc' = "analyze"
    /\ UNCHANGED <<ml, books, position, signals, orders, restarts, history>>

(* A position of the scalper or of somebody else enters the registry.      *)
Registers(s, a, owner) ==
    /\ pc = "manage"
    /\ s \notin Open
    /\ owner # "engine"
    /\ orders < MaxOrders
    /\ orders' = orders + 1
    /\ position' = [position EXCEPT ![s] =
           [action |-> a, profile |-> "conservative", owner |-> owner]]
    /\ UNCHANGED <<pc, ml, books, signals, restarts, history>>

(* An entry made by start(): no indicators, and the profile of last resort.*)
Found(p) == [p EXCEPT !.profile = "conservative", !.owner = "found"]

(* A new process: memory is gone, the gates read the file.                 *)
Restart ==
    /\ restarts < MaxRestarts
    /\ restarts' = restarts + 1
    /\ torn' = IF pc = "save" THEN torn + 1 ELSE torn
    /\ pc' = "manage"
    /\ gate' = GateOf(file) /\ ranker' = NotLoaded
    /\ samples' = <<>> /\ fitted' = NotLoaded /\ retrained' = FALSE
    /\ results' = <<>> /\ streak' = 0
    /\ performance' = [p \in Profiles |-> [trades |-> 0, wins |-> 0, total |-> 0]]
    /\ position' = [s \in Symbols |->
           IF s \in Open THEN Found(position[s]) ELSE NoPosition]
    /\ signals' = {}
    /\ UNCHANGED <<file, retrains, nresults, orders, shipped, raised>>

----------------------------------------------------------------------------

Next ==
    \/ \E s \in Symbols, look \in Looks, a \in Actions, x \in Situations :
           Analyzes(s, look, a, x)
    \/ StartsAnalysis \/ EndsAnalysis \/ EndsCycle
    \/ \E g \in signals, market \in RuleScores, profile \in Profiles :
           Executes(g, market, profile)
    \/ \E g \in signals : Skips(g)
    \/ \E pnl \in PnLs :
           \/ ScalpResult(pnl)
           \/ \E s \in Symbols : Reconciled(s, pnl)
           \/ \E s \in Symbols, x \in Situations : ClosesTrade(s, pnl, x)
    \/ \E s \in Symbols, a \in Actions, owner \in Owners : Registers(s, a, owner)
    \/ Saves \/ SaveFails
    \/ Restart

Spec == Init /\ [][Next]_vars

----------------------------------------------------------------------------
(* Properties.                                                             *)

Positions == [action : Actions, profile : Profiles, owner : Owners]
Signals == [symbol : Symbols, action : Actions, situation : Situations, confidence : 0..1000]
Samples == [situation : Situations, action : Actions, label : {0, 1}]

(* Every variable keeps its type; confidence stays between 0 and 1, and    *)
(* memories keep within their length.                                      *)
TypeOK ==
    /\ pc \in {"manage", "save", "analyze", "execute"}
    /\ file \in Models \cup {NoFile, Torn}
    /\ gate \in Models \cup {Untrained, NotLoaded}
    /\ ranker \in Models \cup {Untrained, NotLoaded}
    /\ samples \in Seq(Samples) /\ Len(samples) <= MaxSamples
    /\ fitted \in Models \cup {NotLoaded} /\ retrained \in BOOLEAN
    /\ results \in Seq(Int) /\ Len(results) <= Keep /\ streak \in Int
    /\ performance \in [Profiles -> [trades : Nat, wins : Nat, total : Int]]
    /\ position \in [Symbols -> Positions \cup {NoPosition}]
    /\ signals \subseteq Signals
    /\ nresults \in Nat /\ orders \in Nat /\ restarts \in Nat /\ retrains \in Nat
    /\ shipped \in BOOLEAN /\ torn \in Nat /\ raised \in BOOLEAN

(* Two predictors read one file that changes under them, the gates' when   *)
(* the engine starts and ml_rank's with the first signal.  They never hold *)
(* different models, because nothing can be learnt before the first signal *)
(* and only the engine's own orders are learnt from; and an engine runs    *)
(* without gates only where a save was interrupted before.                 *)
OneModelDecides ==
    /\ ranker # NotLoaded => gate \in {ranker, NotLoaded}
    /\ gate = NotLoaded => torn > 0

(* An engine that is started without a model never gets one: a predictor   *)
(* without a model says one half, which is no edge, so that no order       *)
(* passes the gates and there is no trade to learn from - until they raise *)
(* an exception, which lets an order through and is the one way out.       *)
ColdStaysCold ==
    ~shipped /\ ~raised => /\ file = NoFile /\ samples = <<>>
                           /\ \A s \in Open : position[s].owner # "engine"

(* Whether Kelly goes by the results or by the profile.                    *)
Measured(rs) ==
    /\ Len(rs) >= KellyMin
    /\ \E i, j \in DOMAIN Recent(rs, KellyWindow) :
           Recent(rs, KellyWindow)[i] > 0 /\ Recent(rs, KellyWindow)[j] <= 0

(* The result that leaves Kelly's window when another one is added.        *)
Forgotten(rs) == IF Len(rs) < KellyWindow THEN 0 ELSE Recent(rs, KellyWindow)[1]

(* After a loss the next order is no larger than it would have been, by    *)
(* any profile, at any hour and confidence - but where Kelly's window is   *)
(* exchanged for the table or the table for the window, has had no loss    *)
(* but trades that broke even, or forgets a loss.                          *)
LossMakesNoBigger ==
    [][nresults' > nresults /\ streak' < 0 /\ streak' # streak
         => \/ Measured(results) # Measured(results')
            \/ Measured(results) /\ \A i \in DOMAIN Recent(results, KellyWindow) :
                   Recent(results, KellyWindow)[i] >= 0
            \/ Forgotten(results) < 0
            \/ \A profile \in Profiles, session \in Sessions, confidence \in {500, 1000} :
                   Lots(results', streak', confidence, profile, session)
                       <= Lots(results, streak, confidence, profile, session)]_vars

(* "Generate labels (1 = price went up after 1 candle)", train_real.py:143,*)
(* of the data that the same model file is otherwise made from; ml_rank    *)
(* and the gates read its answer as the probability of a rising price.     *)
LabelsSayUp ==
    [][Len(samples') > Len(samples)
         => LET new == samples'[Len(samples')]
                pnl == results'[Len(results')]
            IN  pnl # 0 => (new.label = 1 <=> (new.action = "BUY") = (pnl > 0))]_vars
============================================================================
