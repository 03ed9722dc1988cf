--------------------------- MODULE Learning_proofs ---------------------------
(***************************************************************************)
(* Theorems about Learning, for all looks, models, results, windows and    *)
(* bounds: its type invariant, that the two predictors never hold          *)
(* different models, and that an engine without a model never learns one,  *)
(* unless an exception in the gates lets an order through.                 *)
(***************************************************************************)
EXTENDS Learning, SequenceTheorems, FiniteSetTheorems, WellFoundedInduction, TLAPS

Thousandths == 0..1000
EngineOwned(s) == position[s] # NoPosition /\ position[s].owner = "engine"
Answers == Models \cup {Untrained, NotLoaded}

(* What is being saved is a model.                                         *)
SavesModel == pc = "save" => fitted \in Models

(* As long as ml_rank has not looked for the file, no signal has been      *)
(* found, no order sent and nothing learnt: the file is the one the gates  *)
(* were made of.  From then on both hold the same.                         *)
OneFile ==
    gate # NotLoaded =>
        IF ranker = NotLoaded
        THEN /\ gate = GateOf(file)
             /\ signals = {} /\ pc # "save"
             /\ \A s \in Symbols : ~EngineOwned(s)
        ELSE ranker = gate

(* Half a file is the remains of a save, or one under way.                 *)
TornIsPaidFor ==
    /\ gate = NotLoaded => torn > 0
    /\ file = Torn => torn > 0 \/ pc = "save"

(* Without a model no order passes the gates, unless they raise.           *)
Cold ==
    ~shipped /\ ~raised => /\ file = NoFile /\ gate = Untrained /\ pc # "save"
                           /\ samples = <<>>
                           /\ \A s \in Symbols : ~EngineOwned(s)

IInv == TypeOK /\ SavesModel /\ OneFile /\ TornIsPaidFor /\ Cold

----------------------------------------------------------------------------
(* Helpers.                                                                *)

LEMMA BetweenIn ==
    ASSUME NEW n \in Int
    PROVE  Between(0, n, 1000) \in Thousandths
  BY DEF Between, Thousandths

LEMMA ConfidenceIn ==
    ASSUME NEW score \in Int
    PROVE  Confidence(score) \in Thousandths
  <1>1. Magnitude(score) * 100 \in Int
    BY DEF Magnitude
  <1> DEFINE m == Magnitude(score) * 100
  <1>2. 0 \in Thousandths
    BY DEF Thousandths
  <1>3. Between(0, m, 1000) \in Thousandths
    <2> HIDE DEF m
    <2> QED
      BY <1>1, BetweenIn DEF m
  <1>4. Confidence(score) \in {0, Between(0, m, 1000)}
    BY DEF Confidence
  <1> HIDE DEF m
  <1> QED
    BY <1>2, <1>3, <1>4

LEMMA ModifiersIn ==
    ASSUME NEW poll
    PROVE  /\ AnalystModifier(poll) \in Int
           /\ LegendModifier(poll) \in Int
  BY DEF AnalystModifier, LegendModifier

LEMMA SharesIn ==
    ASSUME NEW n \in Thousandths
    PROVE  (n * 7) \div 10 \in Thousandths /\ (n * 3) \div 4 \in Thousandths
  BY DEF Thousandths

LEMMA AdjustedIn ==
    ASSUME NEW look \in Looks, NEW a \in Actions
    PROVE  Adjusted(look, a) \in Thousandths
  <1> DEFINE moved == Between(0, Confidence(Score(look))
                                 + AnalystModifier(look.analysts)
                                 + LegendModifier(look.legends), 1000)
             warned == IF Opposed(look, a) /\ look.strong = 3
                       THEN (moved * 7) \div 10 ELSE moved
  <1>1. Score(look) \in Int
    BY LooksAssumption DEF Score, Sign
  <1>2. moved \in Thousandths
    <2>1. Confidence(Score(look)) \in Int
      <3>1. Confidence(Score(look)) \in Thousandths
        BY <1>1, ConfidenceIn, Zenon
      <3> QED
        BY <3>1 DEF Thousandths
    <2>2. /\ AnalystModifier(look.analysts) \in Int
          /\ LegendModifier(look.legends) \in Int
      BY ModifiersIn
    <2>3. Confidence(Score(look)) + AnalystModifier(look.analysts)
              + LegendModifier(look.legends) \in Int
      BY <2>1, <2>2
    <2> QED
      BY <2>3, BetweenIn
  <1>3. warned \in Thousandths
    <2> HIDE DEF moved
    <2> QED
      BY <1>2, SharesIn
  <1>4. Adjusted(look, a) = IF LegendsFor(look.legends, Other(a))
                                 /\ look.legends[Other(a)] >= 4
                            THEN (warned * 3) \div 4 ELSE warned
    BY DEF Adjusted
  <1> HIDE DEF warned
  <1> QED
    BY <1>3, <1>4, SharesIn

LEMMA ProbabilityIn ==
    ASSUME NEW model \in Answers, NEW x \in Situations
    PROVE  Probability(model, x) \in Thousandths
  BY NamesAssumption DEF Probability, Thousandths, Answers

LEMMA BoostedIn ==
    \A c, p \in Thousandths : \A a : Boosted(c, a, p) \in Thousandths
  <1> SUFFICES ASSUME NEW c \in Thousandths, NEW p \in Thousandths, NEW a
               PROVE  Boosted(c, a, p) \in Thousandths
    OBVIOUS
  <1>1. c + (p - 500) \div 5 \in Int /\ c + (500 - p) \div 5 \in Int
    BY DEF Thousandths
  <1> QED
    BY <1>1, BetweenIn DEF Boosted

LEMMA RecentIn ==
    ASSUME NEW S, NEW s \in Seq(S), NEW n \in Nat \ {0}
    PROVE  Recent(s, n) \in Seq(S) /\ Len(Recent(s, n)) <= n
  <1> DEFINE m == IF Len(s) > n THEN Len(s) - n + 1 ELSE 1
  <1>1. Len(s) \in Nat
    OBVIOUS
  <1>2. m \in 1..Len(s) + 1
    BY <1>1
  <1>3. /\ SubSeq(s, m, Len(s)) \in Seq(S)
        /\ Len(SubSeq(s, m, Len(s))) =
               IF m <= Len(s) THEN Len(s) - m + 1 ELSE 0
    BY <1>1, <1>2, SubSeqProperties
  <1> QED
    BY <1>1, <1>2, <1>3 DEF Recent

LEMMA AppendedIn ==
    ASSUME NEW S, NEW s \in Seq(S), NEW x \in S, NEW n \in Nat \ {0}
    PROVE  /\ Recent(Append(s, x), n) \in Seq(S)
           /\ Len(Recent(Append(s, x), n)) <= n
  BY RecentIn, AppendProperties

(* The models that predictors are made of.                                 *)
LEMMA GateIn ==
    ASSUME file \in Models \cup {NoFile, Torn}
    PROVE  /\ GateOf(file) \in Answers
           /\ GateOf(file) = NotLoaded <=> file = Torn
           /\ file # Torn => Loaded = GateOf(file)
  BY NamesAssumption DEF GateOf, Loaded, Answers

LEMMA RanksIn ==
    ASSUME TypeOK
    PROVE  /\ Ranks \in Answers
           /\ ranker # NotLoaded => Ranks = ranker
           /\ ranker = NotLoaded /\ file # Torn
                  => Ranks = GateOf(file) /\ Ranks # NotLoaded
  <1>1. file \in Models \cup {NoFile, Torn} /\ ranker \in Answers
    BY DEF TypeOK, Answers
  <1>2. file # Torn => Loaded \in Answers /\ Loaded # NotLoaded
    BY <1>1, GateIn
  <1>3. NotLoaded \in Answers
    BY DEF Answers
  <1>4. CASE ranker # NotLoaded
    BY <1>1, <1>4 DEF Ranks, RanksAnew
  <1>5. CASE ranker = NotLoaded /\ file = Torn
    BY <1>3, <1>5 DEF Ranks, RanksAnew
  <1>6. CASE ranker = NotLoaded /\ file # Torn
    <2>1. Ranks = Loaded
      BY <1>6 DEF Ranks, RanksAnew
    <2>2. Loaded = GateOf(file)
      BY <1>1, <1>6, GateIn
    <2> QED
      BY <1>2, <1>6, <2>1, <2>2
  <1> QED
    BY <1>4, <1>5, <1>6

----------------------------------------------------------------------------
(* The initial states.                                                     *)

LEMMA InitIInv == Init => IInv
  <1> SUFFICES ASSUME Init PROVE IInv
    OBVIOUS
  <1>1. gate \in Answers /\ gate # NotLoaded /\ file # Torn
        /\ gate = GateOf(file)
    <2>1. file \in Models \cup {NoFile} /\ gate = GateOf(file)
      BY DEF Init
    <2>2. file # Torn
      BY <2>1, NamesAssumption
    <2> QED
      BY <2>1, <2>2, GateIn
  <1>2. TypeOK
    <2>1. <<>> \in Seq(Samples) /\ <<>> \in Seq(Int) /\ Len(<<>>) = 0
      OBVIOUS
    <2>2. Len(samples) <= MaxSamples /\ Len(results) <= Keep
      BY <2>1, LearningAssumption DEF Init
    <2>3. performance \in [Profiles -> [trades : Nat, wins : Nat, total : Int]]
      BY DEF Init
    <2>4. position \in [Symbols -> Positions \cup {NoPosition}]
      BY DEF Init
    <2>5. /\ pc \in {"manage", "save", "analyze", "execute"}
          /\ file \in Models \cup {NoFile, Torn}
          /\ gate \in Models \cup {Untrained, NotLoaded}
          /\ ranker \in Models \cup {Untrained, NotLoaded}
      BY <1>1 DEF Init, Answers
    <2>6. /\ fitted \in Models \cup {NotLoaded} /\ retrained \in BOOLEAN
          /\ streak \in Int /\ signals \subseteq Signals
      <3>1. fitted = NotLoaded /\ streak = 0 /\ signals = {}
        BY DEF Init
      <3>2. retrained \in BOOLEAN
        BY DEF Init
      <3> QED
        BY <3>1, <3>2
    <2>7. /\ nresults \in Nat /\ orders \in Nat /\ restarts \in Nat
          /\ retrains \in Nat /\ shipped \in BOOLEAN /\ torn \in Nat
          /\ raised \in BOOLEAN
      BY DEF Init
    <2>8. samples \in Seq(Samples) /\ results \in Seq(Int)
      BY <2>1 DEF Init
    <2> QED
      BY <2>2, <2>3, <2>4, <2>5, <2>6, <2>7, <2>8 DEF TypeOK
  <1>3. \A s \in Symbols : ~EngineOwned(s)
    BY DEF Init, EngineOwned
  <1>4. SavesModel /\ OneFile /\ TornIsPaidFor
    BY <1>1, <1>3 DEF Init, SavesModel, OneFile, TornIsPaidFor
  <1>5. Cold
    <2>1. /\ shipped = (file # NoFile) /\ gate = GateOf(file)
          /\ pc = "manage" /\ samples = <<>>
      BY DEF Init
    <2>2. NoFile # Torn
      BY NamesAssumption
    <2>3. file = NoFile => gate = Untrained
      BY <2>1, <2>2 DEF GateOf
    <2> QED
      BY <1>3, <2>1, <2>3 DEF Cold
  <1> QED
    BY <1>2, <1>4, <1>5 DEF IInv

----------------------------------------------------------------------------
(* The steps.                                                              *)

LEMMA AnalyzesStep ==
    ASSUME IInv, NEW s \in Symbols, NEW look \in Looks, NEW a \in Actions,
           NEW x \in Situations, Analyzes(s, look, a, x)
    PROVE  IInv'
  <1> DEFINE p == Probability(Ranks, x)
             g == [symbol |-> s, action |-> a, situation |-> x,
                   confidence |-> Boosted(Adjusted(look, a), a, p)]
  <1>1. /\ ranker' = Ranks /\ Ranks \in Answers
        /\ ranker # NotLoaded => Ranks = ranker
        /\ ranker = NotLoaded /\ file # Torn
               => Ranks = GateOf(file) /\ Ranks # NotLoaded
    BY RanksIn DEF Analyzes, IInv
  <1>2. signals' \in {signals, signals \cup {g}}
    BY <1>1 DEF Analyzes
  <1>3. p \in Thousandths
    BY <1>1, ProbabilityIn
  <1>4. g \in Signals
    <2>1. Adjusted(look, a) \in Thousandths
      BY AdjustedIn
    <2>2. Boosted(Adjusted(look, a), a, p) \in Thousandths
      <3> HIDE DEF p, g
      <3> QED
        BY <1>3, <2>1, BoostedIn
    <2> HIDE DEF p
    <2> QED
      BY <2>2 DEF Signals, Thousandths
  <1> HIDE DEF g
  <1>5. UNCHANGED <<pc, file, gate, samples, fitted, retrained, retrains, books,
                    position, orders, restarts, history>>
    BY DEF Analyzes
  <1>6. TypeOK'
    BY <1>1, <1>2, <1>4, <1>5 DEF IInv, TypeOK, books, history, Answers
  <1>7. SavesModel' /\ TornIsPaidFor' /\ Cold'
    BY <1>5 DEF IInv, SavesModel, TornIsPaidFor, Cold, EngineOwned, history
  <1>8. OneFile'
    <2>1. gate # NotLoaded /\ ranker = NotLoaded => file # Torn
      <3>1. file \in Models \cup {NoFile, Torn}
        BY DEF IInv, TypeOK
      <3> QED
        BY <3>1, GateIn DEF IInv, OneFile
    <2> QED
      BY <1>1, <1>5, <2>1 DEF IInv, OneFile
  <1> QED
    BY <1>6, <1>7, <1>8 DEF IInv

(* Steps that leave models, registry and signals alone, or drop signals.   *)
LEMMA QuietStep ==
    ASSUME IInv, pc # "save",
           pc' \in {"manage", "analyze", "execute"}, retrained' \in BOOLEAN,
           signals' \subseteq signals,
           UNCHANGED <<file, gate, ranker, samples, fitted, retrains, books,
                       position, orders, restarts, history>>
    PROVE  IInv'
  <1>1. TypeOK'
    BY DEF IInv, TypeOK, books, history
  <1>2. SavesModel'
    BY DEF IInv, SavesModel
  <1>3. OneFile'
    BY DEF IInv, OneFile, EngineOwned, GateOf
  <1>4. TornIsPaidFor'
    BY DEF IInv, TornIsPaidFor, history
  <1>5. Cold'
    BY DEF IInv, Cold, EngineOwned, history
  <1> QED
    BY <1>1, <1>2, <1>3, <1>4, <1>5 DEF IInv
----------------------------------------------------------------------------
(* Results.                                                                *)

(* What a result does to the books.                                        *)
LEMMA BooksTyped ==
    ASSUME TypeOK, NEW pnl \in PnLs, Counts, streak' = NewStreak(pnl),
           ForKelly(pnl) \/ UNCHANGED results
    PROVE  /\ results' \in Seq(Int) /\ Len(results') <= Keep
           /\ streak' \in Int /\ nresults' \in Nat
  <1>1. /\ results \in Seq(Int) /\ Len(results) <= Keep
        /\ streak \in Int /\ nresults \in Nat
    BY DEF TypeOK
  <1>2. pnl \in Int
    BY ResultsAssumption
  <1>3. streak' \in Int /\ nresults' \in Nat
    BY <1>1, <1>2 DEF NewStreak, Counts
  <1>4. Keep \in Nat \ {0}
    BY LearningAssumption
  <1>5. /\ Recent(Append(results, pnl), Keep) \in Seq(Int)
        /\ Len(Recent(Append(results, pnl), Keep)) <= Keep
    BY <1>1, <1>2, <1>4, AppendedIn
  <1> QED
    BY <1>1, <1>3, <1>5 DEF ForKelly

(* A result that reaches neither the profiles nor the training data.       *)
LEMMA ResultStep ==
    ASSUME IInv, NEW pnl \in PnLs, Counts, streak' = NewStreak(pnl),
           ForKelly(pnl) \/ UNCHANGED results, pc = "manage",
           \A s \in Symbols : position'[s] \in {position[s], NoPosition},
           position' \in [Symbols -> Positions \cup {NoPosition}],
           UNCHANGED <<pc, ml, performance, signals, orders, restarts, history>>
    PROVE  IInv'
  <1>1. /\ results' \in Seq(Int) /\ Len(results') <= Keep
        /\ streak' \in Int /\ nresults' \in Nat
    BY BooksTyped DEF IInv
  <1>2. \A s \in Symbols : EngineOwned(s)' => EngineOwned(s)
    BY DEF EngineOwned
  <1>3. TypeOK'
    BY <1>1 DEF IInv, TypeOK, ml, history
  <1>4. SavesModel'
    BY DEF IInv, SavesModel, ml
  <1>5. OneFile'
    BY <1>2 DEF IInv, OneFile, ml, GateOf
  <1>6. TornIsPaidFor'
    BY DEF IInv, TornIsPaidFor, ml, history
  <1>7. Cold'
    BY <1>2 DEF IInv, Cold, ml, history
  <1> QED
    BY <1>3, <1>4, <1>5, <1>6, <1>7 DEF IInv

LEMMA ScalpResultStep ==
    ASSUME IInv, NEW pnl \in PnLs, ScalpResult(pnl)
    PROVE  IInv'
  <1>1. position' = position
    BY DEF ScalpResult
  <1>2. position' \in [Symbols -> Positions \cup {NoPosition}]
    BY <1>1 DEF IInv, TypeOK
  <1>3. /\ Counts /\ streak' = NewStreak(pnl) /\ ForKelly(pnl) /\ pc = "manage"
        /\ UNCHANGED <<pc, ml, performance, signals, orders, restarts, history>>
    BY DEF ScalpResult
  <1> QED
    BY <1>1, <1>2, <1>3, ResultStep

LEMMA ReconciledStep ==
    ASSUME IInv, NEW s \in Symbols, NEW pnl \in PnLs, Reconciled(s, pnl)
    PROVE  IInv'
  <1>1. position \in [Symbols -> Positions \cup {NoPosition}]
    BY DEF IInv, TypeOK
  <1>2. position' = [position EXCEPT ![s] = NoPosition]
    BY DEF Reconciled
  <1>3. /\ position' \in [Symbols -> Positions \cup {NoPosition}]
        /\ \A x \in Symbols : position'[x] \in {position[x], NoPosition}
    BY <1>1, <1>2
  <1>4. /\ Counts /\ streak' = NewStreak(pnl) /\ pc = "manage"
        /\ ForKelly(pnl) \/ UNCHANGED results
        /\ UNCHANGED <<pc, ml, performance, signals, orders, restarts, history>>
    BY DEF Reconciled
  <1> QED
    BY <1>3, <1>4, ResultStep
LEMMA LabelIn == ASSUME NEW pnl PROVE Label(pnl) \in {0, 1}
  BY DEF Label

(* The trade becomes a sample if the engine sent it.                       *)
LEMMA SampledTyped ==
    ASSUME TypeOK, NEW s \in Symbols, position[s] # NoPosition, NEW pnl,
           NEW x \in Situations
    PROVE  /\ Sampled(s, pnl, x) \in Seq(Samples)
           /\ Len(Sampled(s, pnl, x)) <= MaxSamples
           /\ ~EngineOwned(s) => Sampled(s, pnl, x) = samples
  <1> DEFINE new == [situation |-> x, action |-> position[s].action,
                     label |-> Label(pnl)]
  <1>1. samples \in Seq(Samples) /\ Len(samples) <= MaxSamples
    BY DEF TypeOK
  <1>2. new \in Samples
    <2>1. position[s] \in Positions
      BY DEF TypeOK
    <2> QED
      BY <2>1, LabelIn DEF Samples, Positions
  <1>3. MaxSamples \in Nat \ {0}
    BY LearningAssumption
  <1> HIDE DEF new
  <1>4. /\ Recent(Append(samples, new), MaxSamples) \in Seq(Samples)
        /\ Len(Recent(Append(samples, new), MaxSamples)) <= MaxSamples
    BY <1>1, <1>2, <1>3, AppendedIn
  <1> USE DEF new
  <1>5. Sampled(s, pnl, x) = IF position[s].owner = "engine"
                             THEN Recent(Append(samples, new), MaxSamples)
                             ELSE samples
    BY DEF Sampled
  <1> HIDE DEF new
  <1> QED
    BY <1>1, <1>4, <1>5 DEF EngineOwned

LEMMA ClosesTradeStep ==
    ASSUME IInv, NEW s \in Symbols, NEW pnl \in PnLs, NEW x \in Situations,
           ClosesTrade(s, pnl, x)
    PROVE  IInv'
  <1>1. TypeOK /\ position[s] # NoPosition /\ pc = "manage"
    BY DEF ClosesTrade, IInv, Open
  <1>2. /\ results' \in Seq(Int) /\ Len(results') <= Keep
        /\ streak' \in Int /\ nresults' \in Nat
    BY <1>1, BooksTyped DEF ClosesTrade
  <1>3. performance' \in [Profiles -> [trades : Nat, wins : Nat, total : Int]]
    <2> DEFINE p == position[s].profile
    <2>1. position[s] \in Positions
      BY <1>1 DEF TypeOK
    <2>2. p \in Profiles
      BY <2>1 DEF Positions
    <2>3. performance \in [Profiles -> [trades : Nat, wins : Nat, total : Int]]
      BY <1>1 DEF TypeOK
    <2>4. pnl \in Int /\ Label(pnl) \in Nat
      BY ResultsAssumption, LabelIn
    <2> DEFINE new == [trades |-> performance[p].trades + 1,
                       total |-> performance[p].total + pnl,
                       wins |-> performance[p].wins + Label(pnl)]
    <2>5. performance' = [performance EXCEPT ![p] = new]
      BY DEF ClosesTrade
    <2> HIDE DEF p
    <2>6. new \in [trades : Nat, wins : Nat, total : Int]
      BY <2>2, <2>3, <2>4
    <2> HIDE DEF new
    <2> QED
      BY <2>2, <2>3, <2>5, <2>6
  <1>4. samples' = Sampled(s, pnl, x)
    BY DEF ClosesTrade
  <1>5. /\ samples' \in Seq(Samples) /\ Len(samples') <= MaxSamples
        /\ ~EngineOwned(s) => samples' = samples
    BY <1>1, <1>4, SampledTyped
  <1>6. /\ position' \in [Symbols -> Positions \cup {NoPosition}]
        /\ \A t \in Symbols : EngineOwned(t)' => EngineOwned(t)
    <2>1. position \in [Symbols -> Positions \cup {NoPosition}]
      BY <1>1 DEF TypeOK
    <2>2. position' = [position EXCEPT ![s] = NoPosition]
      BY DEF ClosesTrade
    <2> QED
      BY <2>1, <2>2 DEF EngineOwned
  <1>7. /\ UNCHANGED <<gate, ranker, retrained, signals, orders, restarts>>
        /\ UNCHANGED <<shipped, torn, raised>>
    BY DEF ClosesTrade, history
  <1>8. \/ UNCHANGED <<pc, file, fitted, retrains>>
        \/ /\ EngineOwned(s)
           /\ fitted' \in Models /\ retrains' = retrains + 1
           /\ file' = Torn /\ pc' = "save"
    BY <1>1 DEF ClosesTrade, EngineOwned
  <1>9. TypeOK'
    <2>1. /\ pc' \in {"manage", "save", "analyze", "execute"}
          /\ file' \in Models \cup {NoFile, Torn}
          /\ fitted' \in Models \cup {NotLoaded}
          /\ retrains' \in Nat
      BY <1>1, <1>8 DEF TypeOK
    <2>2. /\ gate' \in Models \cup {Untrained, NotLoaded}
          /\ ranker' \in Models \cup {Untrained, NotLoaded}
          /\ retrained' \in BOOLEAN /\ signals' \subseteq Signals
          /\ orders' \in Nat /\ restarts' \in Nat
          /\ shipped' \in BOOLEAN /\ torn' \in Nat /\ raised' \in BOOLEAN
      BY <1>1, <1>7 DEF TypeOK
    <2> QED
      BY <1>2, <1>3, <1>5, <1>6, <2>1, <2>2 DEF TypeOK
  <1>10. SavesModel'
    BY <1>1, <1>8 DEF SavesModel
  <1>11. OneFile'
    BY <1>6, <1>7, <1>8 DEF IInv, OneFile, GateOf
  <1>12. TornIsPaidFor'
    BY <1>7, <1>8 DEF IInv, TornIsPaidFor
  <1>13. Cold'
    BY <1>5, <1>6, <1>7, <1>8 DEF IInv, Cold
  <1> QED
    BY <1>9, <1>10, <1>11, <1>12, <1>13 DEF IInv
----------------------------------------------------------------------------
(* Saving.                                                                 *)

LEMMA SavesStep == ASSUME IInv, Saves PROVE IInv'
  <1>1. /\ pc = "save" /\ fitted \in Models
        /\ file' = fitted /\ fitted' = NotLoaded /\ retrained' = TRUE
        /\ pc' = "manage"
        /\ UNCHANGED <<gate, ranker, samples, retrains, books, position, signals,
                       orders, restarts, history>>
    BY DEF Saves, IInv, SavesModel
  <1>2. TypeOK'
    BY <1>1 DEF IInv, TypeOK, books, history
  <1>3. file' # Torn
    BY <1>1, NamesAssumption
  <1>4. SavesModel' /\ TornIsPaidFor'
    BY <1>1, <1>3 DEF IInv, SavesModel, TornIsPaidFor, history
  <1>5. OneFile'
    BY <1>1 DEF IInv, OneFile
  <1>6. Cold'
    BY <1>1 DEF IInv, Cold, history
  <1> QED
    BY <1>2, <1>4, <1>5, <1>6 DEF IInv

LEMMA SaveFailsStep == ASSUME IInv, SaveFails PROVE IInv'
  <1>1. /\ pc = "save" /\ fitted' = NotLoaded /\ torn' = torn + 1
        /\ pc' = "manage"
        /\ UNCHANGED <<file, gate, ranker, samples, retrained, retrains, books,
                       position, signals, orders, restarts, shipped, raised>>
    BY DEF SaveFails
  <1>2. TypeOK'
    BY <1>1 DEF IInv, TypeOK, books
  <1>3. torn \in Nat
    BY DEF IInv, TypeOK
  <1>4. SavesModel' /\ TornIsPaidFor'
    BY <1>1, <1>3 DEF IInv, SavesModel, TornIsPaidFor
  <1>5. OneFile'
    BY <1>1 DEF IInv, OneFile
  <1>6. Cold'
    BY <1>1 DEF IInv, Cold
  <1> QED
    BY <1>2, <1>4, <1>5, <1>6 DEF IInv

----------------------------------------------------------------------------
(* Orders and restarts.                                                    *)

(* One half is no edge: with an untrained model the gates let an order     *)
(* through only by raising.                                                *)
LEMMA NoEdge ==
    ASSUME NEW g, GatesPass(g), raised \in BOOLEAN
    PROVE  /\ raised' \in BOOLEAN /\ (raised => raised')
           /\ gate = Untrained => raised'
  <1>1. CASE raised' = TRUE
    BY <1>1
  <1>2. CASE gate = NotLoaded /\ UNCHANGED raised
    BY <1>2, NamesAssumption
  <1>3. CASE HasEdge(g) /\ UNCHANGED raised
    BY <1>3 DEF HasEdge, Probability
  <1> QED
    BY <1>1, <1>2, <1>3 DEF GatesPass

LEMMA ExecutesStep ==
    ASSUME IInv, NEW g \in signals, NEW market \in RuleScores,
           NEW profile \in Profiles, Executes(g, market, profile)
    PROVE  IInv'
  <1> DEFINE new == [action |-> g.action, profile |-> profile, owner |-> "engine"]
  <1>1. /\ pc = "execute" /\ GatesPass(g)
        /\ signals' = signals \ {g}
        /\ orders' = orders + 1
        /\ position' = [position EXCEPT ![g.symbol] = new]
        /\ UNCHANGED <<pc, ml, books, restarts, shipped, torn>>
    BY DEF Executes
  <1>2. g \in Signals /\ g.symbol \in Symbols /\ g.action \in Actions
    BY DEF IInv, TypeOK, Signals
  <1>3. new \in Positions
    BY <1>2 DEF Positions, Owners
  <1> HIDE DEF new
  <1>4. position' \in [Symbols -> Positions \cup {NoPosition}]
    BY <1>1, <1>3 DEF IInv, TypeOK
  <1>9. /\ raised' \in BOOLEAN /\ (raised => raised')
        /\ gate = Untrained => raised'
    BY <1>1, NoEdge DEF IInv, TypeOK
  <1>5. TypeOK'
    BY <1>1, <1>4, <1>9 DEF IInv, TypeOK, ml, books
  <1>6. SavesModel' /\ TornIsPaidFor'
    BY <1>1 DEF IInv, SavesModel, TornIsPaidFor, ml
  <1>7. OneFile'
    BY <1>1 DEF IInv, OneFile, ml
  <1>8. Cold'
    <2>1. ~shipped /\ ~raised => gate = Untrained
      BY DEF IInv, Cold
    <2>2. shipped' \/ raised'
      BY <1>1, <1>9, <2>1
    <2> QED
      BY <2>2 DEF Cold
  <1> QED
    BY <1>5, <1>6, <1>7, <1>8 DEF IInv

LEMMA RegistersStep ==
    ASSUME IInv, NEW s \in Symbols, NEW a \in Actions, NEW owner \in Owners,
           Registers(s, a, owner)
    PROVE  IInv'
  <1> DEFINE new == [action |-> a, profile |-> "conservative", owner |-> owner]
  <1>1. /\ pc = "manage" /\ owner # "engine"
        /\ orders' = orders + 1
        /\ position' = [position EXCEPT ![s] = new]
        /\ UNCHANGED <<pc, ml, books, signals, restarts, history>>
    BY DEF Registers
  <1>2. new \in Positions /\ new.owner # "engine"
    BY <1>1 DEF Positions, Profiles
  <1> HIDE DEF new
  <1>3. position \in [Symbols -> Positions \cup {NoPosition}]
    BY DEF IInv, TypeOK
  <1>4. /\ position' \in [Symbols -> Positions \cup {NoPosition}]
        /\ \A t \in Symbols : EngineOwned(t)' => EngineOwned(t)
    BY <1>1, <1>2, <1>3 DEF EngineOwned
  <1>5. TypeOK'
    BY <1>1, <1>4 DEF IInv, TypeOK, ml, books, history
  <1>6. SavesModel' /\ TornIsPaidFor'
    BY <1>1 DEF IInv, SavesModel, TornIsPaidFor, ml, history
  <1>7. OneFile'
    BY <1>1, <1>4 DEF IInv, OneFile, ml, GateOf
  <1>8. Cold'
    BY <1>1, <1>4 DEF IInv, Cold, ml, history
  <1> QED
    BY <1>5, <1>6, <1>7, <1>8 DEF IInv

LEMMA RestartStep == ASSUME IInv, Restart PROVE IInv'
  <1>1. /\ restarts' = restarts + 1
        /\ torn' = IF pc = "save" THEN torn + 1 ELSE torn
        /\ pc' = "manage" /\ gate' = GateOf(file) /\ ranker' = NotLoaded
        /\ samples' = <<>> /\ fitted' = NotLoaded
        /\ results' = <<>> /\ streak' = 0 /\ signals' = {}
        /\ UNCHANGED <<file, retrains, nresults, orders, shipped, raised>>
    BY DEF Restart
  <1>2. retrained' = FALSE
    BY DEF Restart
  <1>3. /\ position' \in [Symbols -> Positions \cup {NoPosition}]
        /\ \A t \in Symbols : ~EngineOwned(t)'
    <2>1. position \in [Symbols -> Positions \cup {NoPosition}]
      BY DEF IInv, TypeOK
    <2>2. position' = [s \in Symbols |->
              IF s \in Open THEN Found(position[s]) ELSE NoPosition]
      BY DEF Restart
    <2>3. \A s \in Symbols : s \in Open =>
              Found(position[s]) \in Positions
              /\ Found(position[s]).owner = "found"
      BY <2>1 DEF Open, Found, Positions, Profiles, Owners
    <2> QED
      BY <2>1, <2>2, <2>3 DEF EngineOwned
  <1>4. performance' \in [Profiles -> [trades : Nat, wins : Nat, total : Int]]
    BY DEF Restart
  <1>5. /\ gate' \in Answers /\ (gate' = NotLoaded => file = Torn)
        /\ torn' \in Nat /\ torn' >= torn
    BY <1>1, GateIn DEF IInv, TypeOK
  <1>6. TypeOK'
    <2>1. /\ <<>> \in Seq(Samples) /\ <<>> \in Seq(Int) /\ Len(<<>>) = 0
          /\ Len(<<>>) <= MaxSamples /\ Len(<<>>) <= Keep
      BY LearningAssumption
    <2>2. /\ samples' \in Seq(Samples) /\ Len(samples') <= MaxSamples
          /\ results' \in Seq(Int) /\ Len(results') <= Keep
      BY <1>1, <2>1
    <2>3. /\ pc' \in {"manage", "save", "analyze", "execute"}
          /\ file' \in Models \cup {NoFile, Torn}
          /\ gate' \in Models \cup {Untrained, NotLoaded}
          /\ ranker' \in Models \cup {Untrained, NotLoaded}
      BY <1>1, <1>5 DEF IInv, TypeOK, Answers
    <2>4. /\ fitted' \in Models \cup {NotLoaded} /\ retrained' \in BOOLEAN
          /\ streak' \in Int /\ signals' \subseteq Signals
      <3>1. fitted' = NotLoaded /\ streak' = 0 /\ signals' = {}
        BY <1>1
      <3>2. retrained' \in BOOLEAN
        BY <1>2
      <3> QED
        BY <3>1, <3>2
    <2>5. /\ nresults' \in Nat /\ orders' \in Nat /\ restarts' \in Nat
          /\ retrains' \in Nat /\ shipped' \in BOOLEAN /\ torn' \in Nat
          /\ raised' \in BOOLEAN
      BY <1>1, <1>5 DEF IInv, TypeOK
    <2> QED
      BY <1>3, <1>4, <2>2, <2>3, <2>4, <2>5 DEF TypeOK
  <1>7. SavesModel'
    BY <1>1 DEF SavesModel
  <1>8. OneFile'
    BY <1>1, <1>3 DEF OneFile, GateOf
  <1>9. TornIsPaidFor'
    <2>1. file = Torn => torn' > 0
      BY <1>1, <1>5 DEF IInv, TypeOK, TornIsPaidFor
    <2> QED
      BY <1>1, <1>5, <2>1 DEF TornIsPaidFor
  <1>10. Cold'
    BY <1>1, <1>3, NamesAssumption DEF IInv, Cold, GateOf
  <1> QED
    BY <1>6, <1>7, <1>8, <1>9, <1>10 DEF IInv

----------------------------------------------------------------------------
(* The theorems.                                                           *)

LEMMA StepIInv == IInv /\ [Next]_vars => IInv'
  <1> SUFFICES ASSUME IInv, [Next]_vars PROVE IInv'
    OBVIOUS
  <1>1. CASE \E s \in Symbols, look \in Looks, a \in Actions, x \in Situations :
                 Analyzes(s, look, a, x)
    BY <1>1, AnalyzesStep
  <1>a. retrained \in BOOLEAN
    BY DEF IInv, TypeOK
  <1>2. CASE StartsAnalysis
    <2>1. /\ pc = "manage" /\ pc' = "analyze" /\ signals' = signals
          /\ UNCHANGED <<file, gate, ranker, samples, fitted, retrained, retrains,
                         books, position, orders, restarts, history>>
      BY <1>2 DEF StartsAnalysis, ml
    <2> QED
      BY <1>a, <2>1, QuietStep
  <1>3. CASE EndsAnalysis
    <2>1. /\ pc = "analyze" /\ pc' = "execute" /\ signals' = signals
          /\ UNCHANGED <<file, gate, ranker, samples, fitted, retrained, retrains,
                         books, position, orders, restarts, history>>
      BY <1>3 DEF EndsAnalysis, ml
    <2> QED
      BY <1>a, <2>1, QuietStep
  <1>4. CASE EndsCycle
    BY <1>4, QuietStep DEF EndsCycle
  <1>5. CASE \E g \in signals, market \in RuleScores, profile \in Profiles :
                 Executes(g, market, profile)
    BY <1>5, ExecutesStep
  <1>6. CASE \E g \in signals : Skips(g)
    <2>1. PICK g \in signals : Skips(g)
      BY <1>6
    <2>2. /\ pc = "execute" /\ pc' = pc /\ signals' = signals \ {g}
          /\ UNCHANGED <<file, gate, ranker, samples, fitted, retrained, retrains,
                         books, position, orders, restarts, history>>
      BY <2>1 DEF Skips, ml
    <2> QED
      BY <1>a, <2>2, QuietStep
  <1>7. CASE \E pnl \in PnLs : ScalpResult(pnl)
    BY <1>7, ScalpResultStep
  <1>8. CASE \E pnl \in PnLs : \E s \in Symbols : Reconciled(s, pnl)
    BY <1>8, ReconciledStep
  <1>9. CASE \E pnl \in PnLs : \E s \in Symbols, x \in Situations :
                 ClosesTrade(s, pnl, x)
    BY <1>9, ClosesTradeStep
  <1>10. CASE \E s \in Symbols, a \in Actions, owner \in Owners :
                  Registers(s, a, owner)
    BY <1>10, RegistersStep
  <1>11. CASE Saves
    BY <1>11, SavesStep
  <1>12. CASE SaveFails
    BY <1>12, SaveFailsStep
  <1>13. CASE Restart
    BY <1>13, RestartStep
  <1>14. CASE UNCHANGED vars
    <2>1. UNCHANGED <<pc, file, gate, ranker, samples, fitted, retrained, retrains,
                      results, streak, performance, nresults, position, signals,
                      orders, restarts, shipped, torn, raised>>
      BY <1>14 DEF vars, ml, books, history
    <2>2. TypeOK'
      BY <2>1 DEF IInv, TypeOK
    <2>3. SavesModel' /\ OneFile' /\ TornIsPaidFor' /\ Cold'
      BY <2>1 DEF IInv, SavesModel, OneFile, TornIsPaidFor, Cold, EngineOwned,
                  GateOf
    <2> QED
      BY <2>2, <2>3 DEF IInv
  <1> QED
    BY <1>1, <1>2, <1>3, <1>4, <1>5, <1>6, <1>7, <1>8, <1>9, <1>10, <1>11,
       <1>12, <1>13, <1>14 DEF Next

LEMMA AlwaysIInv == Spec => []IInv
  BY InitIInv, StepIInv, PTL DEF Spec

(* Every variable keeps its type: confidence stays between 0 and 1 and the *)
(* memories keep within their length, whatever looks and results come.     *)
THEOREM TypeCorrect == Spec => []TypeOK
  <1>1. IInv => TypeOK
    BY DEF IInv
  <1> QED
    BY <1>1, AlwaysIInv, PTL

(* The gates and ml_rank, which read one model file at different times,    *)
(* never judge by different models, and the engine runs without gates only *)
(* after a save was interrupted (ml_rank, _execute_trade).                 *)
THEOREM OneModel == Spec => []OneModelDecides
  <1>1. IInv => OneModelDecides
    BY DEF IInv, OneFile, TornIsPaidFor, OneModelDecides
  <1> QED
    BY <1>1, AlwaysIInv, PTL

(* An engine started without a model sends no order of its own, and so     *)
(* never has a trade to learn one from, as long as no exception in the     *)
(* gates of _execute_trade lets an order past them.                        *)
THEOREM NeverLearns == Spec => []ColdStaysCold
  <1>1. IInv => ColdStaysCold
    BY DEF IInv, Cold, ColdStaysCold, Open, EngineOwned
  <1> QED
    BY <1>1, AlwaysIInv, PTL

----------------------------------------------------------------------------
(* What a list adds up to, by induction over the list.                     *)

(* A set of naturals that is not empty has a least element.                *)
LEMMA LeastNatural ==
    ASSUME NEW T \in SUBSET Nat, T # {}
    PROVE  \E x \in T : \A y \in T : x <= y
  <1> DEFINE R == OpToRel(<, Nat)
  <1>1. \A x, y \in Nat : <<y, x>> \in R <=> y < x
    BY DEF OpToRel
  <1>2. IsWellFoundedOn(R, Nat)
    BY NatLessThanWellFounded
  <1> HIDE DEF R
  <1>3. PICK x \in T : \A y \in T : ~(<<y, x>> \in R)
    BY <1>2, WFMin
  <1>4. ASSUME NEW y \in T PROVE x <= y
    <2>1. ~(y < x) /\ x \in Nat /\ y \in Nat
      BY <1>1, <1>3
    <2> QED
      BY <2>1
  <1> QED
    BY <1>4

(* A set with zero and every successor has all naturals.                   *)
LEMMA SetInduction ==
    ASSUME NEW S, 0 \in S, \A n \in Nat : n \in S => n + 1 \in S
    PROVE  Nat \subseteq S
  <1> SUFFICES ASSUME Nat \ S # {} PROVE FALSE
    OBVIOUS
  <1>1. PICK x \in Nat \ S : \A y \in Nat \ S : x <= y
    BY LeastNatural
  <1>2. x # 0
    BY <1>1
  <1>3. x - 1 \in Nat /\ x - 1 \in S
    BY <1>1, <1>2
  <1> QED
    BY <1>1, <1>3

(* f[n] is what the first n terms add up to.                               *)
Adds(f, terms, n) ==
    f = [k \in 0..n |-> IF k = 0 THEN 0 ELSE f[k - 1] + terms[k]]

LEMMA AddsAt ==
    ASSUME NEW f, NEW terms, NEW n \in Nat, Adds(f, terms, n)
    PROVE  /\ f[0] = 0
           /\ \A k \in Nat : k + 1 <= n => f[k + 1] = f[k] + terms[k + 1]
  <1>1. \A k \in 0..n : f[k] = IF k = 0 THEN 0 ELSE f[k - 1] + terms[k]
    BY DEF Adds
  <1>2. f[0] = 0
    <2>1. 0 \in 0..n
      OBVIOUS
    <2>2. f[0] = IF 0 = 0 THEN 0 ELSE f[0 - 1] + terms[0]
      BY <1>1, <2>1
    <2> QED
      BY <2>2
  <1>3. ASSUME NEW k \in Nat, k + 1 <= n PROVE f[k + 1] = f[k] + terms[k + 1]
    <2>1. k + 1 \in 0..n /\ k + 1 # 0 /\ (k + 1) - 1 = k
      BY <1>3
    <2>2. f[k + 1] = IF k + 1 = 0 THEN 0 ELSE f[(k + 1) - 1] + terms[k + 1]
      BY <1>1, <2>1
    <2> QED
      BY <2>1, <2>2
  <1> QED
    BY <1>2, <1>3

LEMMA AddsExists ==
    ASSUME NEW terms, NEW n \in Nat PROVE \E f : Adds(f, terms, n)
  <1> DEFINE S == {m \in Nat : \E f : Adds(f, terms, m)}
  <1>1. 0 \in S
    <2>1. Adds([k \in 0..0 |-> 0], terms, 0)
      BY DEF Adds
    <2> QED
      BY <2>1
  <1>2. ASSUME NEW m \in Nat, m \in S PROVE m + 1 \in S
    <2>1. PICK f : Adds(f, terms, m)
      BY <1>2
    <2> DEFINE g == [k \in 0..(m + 1) |->
                         IF k <= m THEN f[k] ELSE f[m] + terms[m + 1]]
    <2>2. \A k \in 0..m : f[k] = IF k = 0 THEN 0 ELSE f[k - 1] + terms[k]
      BY <2>1 DEF Adds
    <2>3. ASSUME NEW k \in 0..(m + 1)
          PROVE  g[k] = IF k = 0 THEN 0 ELSE g[k - 1] + terms[k]
      <3>1. CASE k = 0
        BY <2>2, <3>1
      <3>2. CASE k \in 1..m
        BY <2>2, <3>2
      <3>3. CASE k = m + 1
        BY <3>3
      <3> QED
        BY <3>1, <3>2, <3>3
    <2>4. Adds(g, terms, m + 1)
      BY <2>3 DEF Adds
    <2> QED
      BY <2>4
  <1>3. Nat \subseteq S
    BY <1>1, <1>2, SetInduction
  <1> QED
    BY <1>3

(* The same terms add up to the same, and integers to an integer; if none  *)
(* is negative, nor is the sum, and if one is not zero, nor is the sum.    *)
LEMMA AddsAgree ==
    ASSUME NEW n \in Nat, NEW f, NEW g, NEW terms, NEW others,
           Adds(f, terms, n), NEW m \in Nat, n <= m, Adds(g, others, m),
           \A k \in 1..n : terms[k] = others[k]
    PROVE  f[n] = g[n]
  <1> DEFINE S == {k \in Nat : k <= n => f[k] = g[k]}
  <1>1. 0 \in S
    BY AddsAt
  <1>2. ASSUME NEW k \in Nat, k \in S PROVE k + 1 \in S
    <2> SUFFICES ASSUME k + 1 <= n PROVE f[k + 1] = g[k + 1]
      OBVIOUS
    <2>1. f[k + 1] = f[k] + terms[k + 1]
      BY AddsAt
    <2>2. k + 1 <= m
      OBVIOUS
    <2>3. g[k + 1] = g[k] + others[k + 1]
      BY <2>2, AddsAt
    <2>4. terms[k + 1] = others[k + 1] /\ f[k] = g[k]
      BY <1>2
    <2> QED
      BY <2>1, <2>3, <2>4
  <1>3. Nat \subseteq S
    BY <1>1, <1>2, SetInduction
  <1> QED
    BY <1>3

LEMMA AddsTyped ==
    ASSUME NEW n \in Nat, NEW f, NEW terms, Adds(f, terms, n),
           \A k \in 1..n : terms[k] \in Int
    PROVE  \A k \in 0..n : f[k] \in Int
  <1> DEFINE S == {k \in Nat : k <= n => f[k] \in Int}
  <1>1. 0 \in S
    BY AddsAt
  <1>2. ASSUME NEW k \in Nat, k \in S PROVE k + 1 \in S
    <2> SUFFICES ASSUME k + 1 <= n PROVE f[k + 1] \in Int
      OBVIOUS
    <2>1. f[k + 1] = f[k] + terms[k + 1]
      BY AddsAt
    <2>2. f[k] \in Int /\ terms[k + 1] \in Int
      BY <1>2
    <2> QED
      BY <2>1, <2>2
  <1>3. Nat \subseteq S
    BY <1>1, <1>2, SetInduction
  <1> QED
    BY <1>3

LEMMA AddsNotNegative ==
    ASSUME NEW n \in Nat, NEW f, NEW terms, Adds(f, terms, n),
           \A k \in 1..n : terms[k] \in Nat
    PROVE  /\ f[n] \in Nat
           /\ (\E k \in 1..n : terms[k] > 0) => f[n] > 0
  <1> DEFINE P(k) == /\ f[k] \in Nat
                     /\ (\E j \in 1..k : terms[j] > 0) => f[k] > 0
             S == {k \in Nat : k <= n => P(k)}
  <1>1. 0 \in S
    BY AddsAt
  <1>2. ASSUME NEW k \in Nat, k \in S PROVE k + 1 \in S
    <2> SUFFICES ASSUME k + 1 <= n PROVE P(k + 1)
      OBVIOUS
    <2>1. f[k + 1] = f[k] + terms[k + 1]
      BY AddsAt
    <2>2. P(k) /\ terms[k + 1] \in Nat
      BY <1>2
    <2>3. f[k + 1] \in Nat
      BY <2>1, <2>2
    <2>4. ASSUME NEW j \in 1..(k + 1), terms[j] > 0 PROVE f[k + 1] > 0
      <3>1. CASE j = k + 1
        BY <2>1, <2>2, <2>4, <3>1
      <3>2. CASE j \in 1..k
        BY <2>1, <2>2, <2>4, <3>2
      <3> QED
        BY <3>1, <3>2
    <2> QED
      BY <2>3, <2>4
  <1> HIDE DEF P
  <1>3. Nat \subseteq S
    BY <1>1, <1>2, SetInduction
  <1>4. P(n)
    BY <1>3
  <1> QED
    BY <1>4 DEF P

----------------------------------------------------------------------------
(* SumOver.                                                                *)

Terms(s, S) == [k \in 1..Len(s) |-> IF k \in S THEN s[k] ELSE 0]

LEMMA TermsAre ==
    ASSUME NEW s \in Seq(Int), NEW S
    PROVE  /\ Len(s) \in Nat
           /\ \A k \in 1..Len(s) : /\ Terms(s, S)[k] = IF k \in S THEN s[k] ELSE 0
                                   /\ Terms(s, S)[k] \in Int
  BY DEF Terms

LEMMA SumIs ==
    ASSUME NEW s \in Seq(Int), NEW S
    PROVE  \E f : Adds(f, Terms(s, S), Len(s)) /\ SumOver(s, S) = f[Len(s)]
  <1> DEFINE n == Len(s)
             R(f) == f = [k \in 0..n |->
                             IF k = 0 THEN 0
                             ELSE f[k - 1] + (IF k \in S THEN s[k] ELSE 0)]
             total == CHOOSE f : R(f)
  <1>1. n \in Nat
    OBVIOUS
  <1>2. ASSUME NEW f PROVE R(f) <=> Adds(f, Terms(s, S), n)
    <2>1. \A k \in 0..n : k # 0 =>
              Terms(s, S)[k] = IF k \in S THEN s[k] ELSE 0
      BY <1>1, TermsAre
    <2>2. [k \in 0..n |->
              IF k = 0 THEN 0 ELSE f[k - 1] + (IF k \in S THEN s[k] ELSE 0)]
          = [k \in 0..n |-> IF k = 0 THEN 0 ELSE f[k - 1] + Terms(s, S)[k]]
      BY <2>1
    <2> QED
      BY <2>2 DEF Adds
  <1>3. SumOver(s, S) = total[n]
    BY DEF SumOver
  <1> HIDE DEF R
  <1>4. R(total)
    <2>1. \E f : R(f)
      BY <1>1, <1>2, AddsExists
    <2> QED
      BY <2>1
  <1>5. Adds(total, Terms(s, S), n)
    <2> HIDE DEF total
    <2> QED
      BY <1>2, <1>4
  <1> HIDE DEF total
  <1> QED
    BY <1>3, <1>5

LEMMA SumTyped ==
    ASSUME NEW s \in Seq(Int), NEW S PROVE SumOver(s, S) \in Int
  <1>1. PICK f : Adds(f, Terms(s, S), Len(s)) /\ SumOver(s, S) = f[Len(s)]
    BY SumIs
  <1>2. \A k \in 0..Len(s) : f[k] \in Int
    BY <1>1, TermsAre, AddsTyped
  <1>3. Len(s) \in 0..Len(s)
    OBVIOUS
  <1> QED
    BY <1>1, <1>2, <1>3

(* A list that grows by one result.                                        *)
LEMMA SumGrows ==
    ASSUME NEW s \in Seq(Int), NEW S, NEW x \in Int, NEW T,
           \A k \in 1..Len(s) : k \in S <=> k \in T
    PROVE  /\ SumOver(s, S) \in Int
           /\ SumOver(Append(s, x), T)
                  = SumOver(s, S) + (IF Len(s) + 1 \in T THEN x ELSE 0)
  <1> DEFINE n == Len(s)
             t == Append(s, x)
  <1>1. /\ n \in Nat /\ t \in Seq(Int) /\ Len(t) = n + 1
        /\ t[n + 1] = x /\ \A k \in 1..n : t[k] = s[k]
    OBVIOUS
  <1>2. PICK f : Adds(f, Terms(s, S), n) /\ SumOver(s, S) = f[n]
    BY SumIs
  <1> HIDE DEF t
  <1>3. PICK g : Adds(g, Terms(t, T), n + 1) /\ SumOver(t, T) = g[n + 1]
    BY <1>1, SumIs
  <1>4. ASSUME NEW k \in 1..n PROVE Terms(s, S)[k] = Terms(t, T)[k]
    <2>1. k \in 1..Len(t) /\ t[k] = s[k] /\ (k \in S <=> k \in T)
      BY <1>1
    <2>2. Terms(s, S)[k] = IF k \in S THEN s[k] ELSE 0
      BY TermsAre
    <2>3. Terms(t, T)[k] = IF k \in T THEN t[k] ELSE 0
      BY <1>1, <2>1, TermsAre
    <2> QED
      BY <2>1, <2>2, <2>3
  <1>5. Terms(t, T)[n + 1] = IF n + 1 \in T THEN x ELSE 0
    <2>1. n + 1 \in 1..Len(t)
      BY <1>1
    <2> QED
      BY <1>1, <2>1, TermsAre
  <1> DEFINE m == n + 1
  <1>a. m \in Nat /\ n <= m
    BY <1>1
  <1>b. Adds(g, Terms(t, T), m)
    BY <1>3
  <1>6. f[n] = g[n]
    <2> HIDE DEF n, m
    <2> QED
      BY <1>1, <1>2, <1>4, <1>a, <1>b, AddsAgree
  <1>7. g[n + 1] = g[n] + Terms(t, T)[n + 1]
    BY <1>1, <1>3, <1>a, AddsAt
  <1>8. f[n] \in Int
    <2>1. \A k \in 0..n : f[k] \in Int
      BY <1>1, <1>2, TermsAre, AddsTyped
    <2> QED
      BY <1>1, <2>1
  <1> QED
    BY <1>2, <1>3, <1>5, <1>6, <1>7, <1>8 DEF t

(* A list that loses its first result.                                     *)
LEMMA SumShrinks ==
    ASSUME NEW s \in Seq(Int), NEW S, NEW t \in Seq(Int), NEW T,
           Len(s) = Len(t) + 1,
           \A k \in 1..Len(t) : t[k] = s[k + 1] /\ (k \in T <=> k + 1 \in S)
    PROVE  SumOver(s, S) = (IF 1 \in S THEN s[1] ELSE 0) + SumOver(t, T)
  <1> DEFINE n == Len(t)
  <1>1. n \in Nat
    OBVIOUS
  <1>2. PICK f : Adds(f, Terms(s, S), n + 1) /\ SumOver(s, S) = f[n + 1]
    BY SumIs
  <1>3. PICK g : Adds(g, Terms(t, T), n) /\ SumOver(t, T) = g[n]
    BY SumIs
  <1>4. f[0] = 0 /\ f[1] = f[0] + Terms(s, S)[1] /\ g[0] = 0
    <2>1. 0 + 1 <= n + 1 /\ 0 + 1 = 1
      BY <1>1
    <2>2. f[0 + 1] = f[0] + Terms(s, S)[0 + 1]
      BY <1>1, <1>2, <2>1, AddsAt
    <2> QED
      BY <1>1, <1>2, <1>3, <2>1, <2>2, AddsAt
  <1>5. Terms(s, S)[1] = (IF 1 \in S THEN s[1] ELSE 0) /\ Terms(s, S)[1] \in Int
    <2>1. 1 \in 1..Len(s)
      BY <1>1
    <2> QED
      BY <2>1, TermsAre
  <1>6. \A k \in 0..n : g[k] \in Int
    BY <1>1, <1>3, TermsAre, AddsTyped
  <1> DEFINE Q == {k \in Nat : k <= n => f[k + 1] = f[1] + g[k]}
  <1>7. 0 \in Q
    BY <1>4, <1>5
  <1>8. ASSUME NEW k \in Nat, k \in Q PROVE k + 1 \in Q
    <2> SUFFICES ASSUME k + 1 <= n PROVE f[(k + 1) + 1] = f[1] + g[k + 1]
      OBVIOUS
    <2>1. f[(k + 1) + 1] = f[k + 1] + Terms(s, S)[(k + 1) + 1]
      <3>1. \A j \in Nat : j + 1 <= n + 1 => f[j + 1] = f[j] + Terms(s, S)[j + 1]
        <4>1. n + 1 \in Nat
          BY <1>1
        <4> HIDE DEF n
        <4> QED
          BY <1>2, <4>1, AddsAt
      <3> DEFINE i == k + 1
      <3>2. i \in Nat /\ i + 1 <= n + 1
        BY <1>1
      <3> HIDE DEF i, n
      <3>3. f[i + 1] = f[i] + Terms(s, S)[i + 1]
        BY <3>1, <3>2
      <3> QED
        BY <3>3 DEF i
    <2>2. g[k + 1] = g[k] + Terms(t, T)[k + 1]
      BY <1>1, <1>3, AddsAt
    <2>3. Terms(s, S)[(k + 1) + 1] = Terms(t, T)[k + 1] /\ Terms(t, T)[k + 1] \in Int
      <3>1. k + 1 \in 1..Len(t) /\ (k + 1) + 1 \in 1..Len(s)
        BY <1>1
      <3>2. t[k + 1] = s[(k + 1) + 1] /\ (k + 1 \in T <=> (k + 1) + 1 \in S)
        BY <3>1
      <3>3. /\ Terms(t, T)[k + 1] = IF k + 1 \in T THEN t[k + 1] ELSE 0
            /\ Terms(t, T)[k + 1] \in Int
        BY <3>1, TermsAre
      <3> DEFINE j == (k + 1) + 1
      <3>3a. t[k + 1] = s[j] /\ (k + 1 \in T <=> j \in S)
        BY <3>2
      <3>4. Terms(s, S)[j] = IF j \in S THEN s[j] ELSE 0
        <4>1. \A i \in 1..Len(s) : Terms(s, S)[i] = IF i \in S THEN s[i] ELSE 0
          BY DEF Terms
        <4>2. j \in 1..Len(s)
          BY <3>1
        <4> HIDE DEF j
        <4> QED
          BY <4>1, <4>2, Zenon
      <3>5. Terms(s, S)[j] = Terms(t, T)[k + 1]
        <4> HIDE DEF j
        <4> QED
          BY <3>3, <3>3a, <3>4
      <3> QED
        BY <3>3, <3>5
    <2>4. f[k + 1] = f[1] + g[k] /\ g[k] \in Int /\ f[1] \in Int
      <3>1. k \in 0..n /\ k <= n
        BY <1>1
      <3>2. f[k + 1] = f[1] + g[k]
        BY <1>8, <3>1
      <3>3. g[k] \in Int
        BY <1>6, <3>1
      <3>4. f[1] \in Int
        BY <1>4, <1>5
      <3> QED
        BY <3>2, <3>3, <3>4
    <2>5. f[(k + 1) + 1] = f[k + 1] + Terms(t, T)[k + 1]
      BY <2>1, <2>3
    <2>6. f[(k + 1) + 1] = (f[1] + g[k]) + Terms(t, T)[k + 1]
      BY <2>4, <2>5
    <2>7. Terms(t, T)[k + 1] \in Int
      BY <2>3
    <2>8. \A a, b, c \in Int : (a + b) + c = a + (b + c)
      OBVIOUS
    <2>9. (f[1] + g[k]) + Terms(t, T)[k + 1] = f[1] + (g[k] + Terms(t, T)[k + 1])
      BY <2>4, <2>7, <2>8
    <2>10. f[1] + g[k + 1] = f[1] + (g[k] + Terms(t, T)[k + 1])
      BY <2>2
    <2> QED
      BY <2>6, <2>9, <2>10
  <1>9. Nat \subseteq Q
    BY <1>7, <1>8, SetInduction
  <1>10. f[n + 1] = f[1] + g[n]
    BY <1>1, <1>9
  <1> QED
    BY <1>2, <1>3, <1>4, <1>5, <1>10

(* The wins of a list add up to no less than nothing, what its losses add  *)
(* up to is no more than nothing.                                          *)
LEMMA SumsSigned ==
    ASSUME NEW s \in Seq(Int)
    PROVE  /\ SumOver(s, WinsIn(s)) \in Nat
           /\ WinsIn(s) # {} => SumOver(s, WinsIn(s)) > 0
           /\ LostIn(s) \in Nat
           /\ (\E k \in 1..Len(s) : s[k] < 0) => LostIn(s) > 0
  <1> DEFINE n == Len(s)
             W == WinsIn(s)
             L == DOMAIN s \ W
  <1>1. n \in Nat /\ DOMAIN s = 1..n /\ \A k \in 1..n : s[k] \in Int
    OBVIOUS
  <1>2. \A k \in 1..n : (k \in W <=> s[k] > 0) /\ (k \in L <=> s[k] <= 0)
    BY <1>1 DEF WinsIn
  <1>3. W \subseteq 1..n
    BY <1>1 DEF WinsIn
  <1> HIDE DEF W, L
  <1>4. PICK f : Adds(f, Terms(s, W), n) /\ SumOver(s, W) = f[n]
    BY SumIs
  <1>5. PICK g : Adds(g, Terms(s, L), n) /\ SumOver(s, L) = g[n]
    BY SumIs
  <1>6. \A k \in 1..n : /\ Terms(s, W)[k] = IF k \in W THEN s[k] ELSE 0
                        /\ Terms(s, L)[k] = IF k \in L THEN s[k] ELSE 0
    BY TermsAre
  <1>7. \A k \in 1..n : Terms(s, W)[k] \in Nat
    BY <1>1, <1>2, <1>6
  <1>8. SumOver(s, W) \in Nat
    BY <1>1, <1>4, <1>7, AddsNotNegative
  <1>9. ASSUME W # {} PROVE SumOver(s, W) > 0
    <2>1. \E k \in 1..n : Terms(s, W)[k] > 0
      BY <1>2, <1>3, <1>6, <1>9
    <2> QED
      BY <1>1, <1>4, <1>7, <2>1, AddsNotNegative
  <1> DEFINE h == [k \in 0..n |-> -g[k]]
             terms == [k \in 1..n |-> -Terms(s, L)[k]]
  <1>10. /\ \A k \in 0..n : g[k] \in Int
         /\ \A k \in 1..n : Terms(s, L)[k] \in Int
    BY <1>1, <1>5, TermsAre, AddsTyped
  <1>11. Adds(h, terms, n)
    <2>1. ASSUME NEW k \in 0..n
          PROVE  h[k] = IF k = 0 THEN 0 ELSE h[k - 1] + terms[k]
      <3>1. CASE k = 0
        BY <1>1, <1>5, <3>1, AddsAt
      <3>2. CASE k # 0
        <4>1. k - 1 \in Nat /\ (k - 1) + 1 = k /\ k <= n /\ k - 1 \in 0..n /\ k \in 1..n
          BY <1>1, <3>2
        <4>2. g[(k - 1) + 1] = g[k - 1] + Terms(s, L)[(k - 1) + 1]
          BY <1>1, <1>5, <4>1, AddsAt
        <4>3. g[k] = g[k - 1] + Terms(s, L)[k]
          BY <4>1, <4>2
        <4>4. h[k] = -g[k] /\ h[k - 1] = -g[k - 1] /\ terms[k] = -Terms(s, L)[k]
          BY <4>1
        <4>5. g[k - 1] \in Int /\ Terms(s, L)[k] \in Int
          BY <1>10, <4>1
        <4> HIDE DEF h, terms
        <4> QED
          BY <3>2, <4>3, <4>4, <4>5
      <3> QED
        BY <3>1, <3>2
    <2> QED
      BY <2>1 DEF Adds
  <1>12. \A k \in 1..n : terms[k] = -(IF k \in L THEN s[k] ELSE 0)
    BY <1>6
  <1>13. h[n] = -g[n]
    BY <1>1
  <1> HIDE DEF h, terms
  <1>14. \A k \in 1..n : terms[k] \in Nat
    BY <1>1, <1>2, <1>12
  <1>15. LostIn(s) = h[n]
    BY <1>5, <1>13 DEF LostIn, L, W
  <1>16. LostIn(s) \in Nat
    BY <1>1, <1>11, <1>14, <1>15, AddsNotNegative
  <1>17. ASSUME NEW k \in 1..n, s[k] < 0 PROVE LostIn(s) > 0
    <2>1. terms[k] > 0
      BY <1>1, <1>2, <1>12, <1>17
    <2> QED
      BY <1>1, <1>11, <1>14, <1>15, <2>1, AddsNotNegative
  <1> QED
    BY <1>8, <1>9, <1>16, <1>17 DEF W

----------------------------------------------------------------------------
(* Kelly's window: what a loss does to it.                                 *)

LEMMA WinsCounted ==
    ASSUME NEW s \in Seq(Int)
    PROVE  /\ IsFiniteSet(WinsIn(s)) /\ WinsOf(s) \in Nat
           /\ WinsIn(s) # {} => WinsOf(s) > 0
  <1>1. Len(s) \in Nat /\ DOMAIN s = 1..Len(s)
    OBVIOUS
  <1>2. WinsIn(s) \subseteq 1..Len(s) /\ IsFiniteSet(1..Len(s))
    BY <1>1, FS_Interval DEF WinsIn
  <1>3. IsFiniteSet(WinsIn(s))
    BY <1>2, FS_Subset
  <1>4. WinsOf(s) \in Nat /\ (WinsOf(s) = 0 <=> WinsIn(s) = {})
    BY <1>3, FS_CardinalityType, FS_EmptySet DEF WinsOf
  <1> QED
    BY <1>3, <1>4

(* A list that a loss is added to.                                         *)
LEMMA LossAdded ==
    ASSUME NEW s \in Seq(Int), NEW x \in Int, x < 0
    PROVE  LET t == Append(s, x)
           IN  /\ t \in Seq(Int) /\ Len(t) = Len(s) + 1
               /\ WinsIn(t) = WinsIn(s)
               /\ SumOver(t, WinsIn(t)) = SumOver(s, WinsIn(s))
               /\ LostIn(t) = LostIn(s) - x
  <1> DEFINE n == Len(s)
             t == Append(s, x)
             L == DOMAIN s \ WinsIn(s)
             M == DOMAIN t \ WinsIn(t)
  <1>1. /\ n \in Nat /\ t \in Seq(Int) /\ Len(t) = n + 1
        /\ t[n + 1] = x /\ \A k \in 1..n : t[k] = s[k]
        /\ DOMAIN s = 1..n /\ DOMAIN t = 1..(n + 1)
    OBVIOUS
  <1>2. WinsIn(t) = WinsIn(s) /\ n + 1 \notin WinsIn(t)
    <2> HIDE DEF t, n
    <2> QED
      BY <1>1 DEF WinsIn
  <1>3. n + 1 \in M /\ \A k \in 1..n : k \in L <=> k \in M
    BY <1>1, <1>2
  <1>4. SumOver(t, WinsIn(t))
            = SumOver(s, WinsIn(s)) + (IF n + 1 \in WinsIn(t) THEN x ELSE 0)
    <2> DEFINE V == WinsIn(t)
               W == WinsIn(s)
    <2>1. \A k \in 1..n : k \in W <=> k \in V
      BY <1>2
    <2>2. SumOver(t, V) = SumOver(s, W) + (IF n + 1 \in V THEN x ELSE 0)
      <3> HIDE DEF V, W
      <3> QED
        BY <2>1, SumGrows, SMTT(20)
    <2> QED
      BY <2>2 DEF V, W
  <1>5. /\ SumOver(s, L) \in Int
        /\ SumOver(t, M) = SumOver(s, L) + (IF n + 1 \in M THEN x ELSE 0)
    <2> HIDE DEF L, M
    <2> QED
      BY <1>3, SumGrows, Zenon
  <1>6. SumOver(t, WinsIn(t)) = SumOver(s, WinsIn(s))
    <2>1. SumOver(s, WinsIn(s)) \in Int
      BY SumTyped
    <2> HIDE DEF t, n
    <2> QED
      BY <1>2, <1>4, <2>1
  <1>7. LostIn(t) = LostIn(s) - x
    <2>1. LostIn(t) = -SumOver(t, M) /\ LostIn(s) = -SumOver(s, L)
      BY DEF LostIn
    <2> HIDE DEF t, n, L, M
    <2> QED
      BY <1>3, <1>5, <2>1
  <1> HIDE DEF t
  <1> QED
    BY <1>1, <1>2, <1>6, <1>7 DEF t

(* A list that loses its first result, which was no loss.                  *)
LEMMA WinForgotten ==
    ASSUME NEW s \in Seq(Int), NEW t \in Seq(Int), Len(s) = Len(t) + 1,
           \A k \in 1..Len(t) : t[k] = s[k + 1],
           s[1] >= 0
    PROVE  /\ SumOver(t, WinsIn(t)) <= SumOver(s, WinsIn(s))
           /\ LostIn(t) = LostIn(s)
           /\ WinsOf(t) <= WinsOf(s)
  <1> DEFINE n == Len(t)
             L == DOMAIN s \ WinsIn(s)
             M == DOMAIN t \ WinsIn(t)
  <1>1. n \in Nat /\ DOMAIN t = 1..n /\ DOMAIN s = 1..(n + 1) /\ s[1] \in Int
    OBVIOUS
  <1>2. \A k \in 1..n : k \in WinsIn(t) <=> k + 1 \in WinsIn(s)
    BY <1>1 DEF WinsIn
  <1>3. \A k \in 1..n : k \in M <=> k + 1 \in L
    BY <1>1, <1>2
  <1>a. \A k \in 1..Len(t) : t[k] = s[k + 1]
                             /\ (k \in WinsIn(t) <=> k + 1 \in WinsIn(s))
    BY <1>2
  <1>b. \A k \in 1..Len(t) : t[k] = s[k + 1] /\ (k \in M <=> k + 1 \in L)
    BY <1>3
  <1>4. SumOver(s, WinsIn(s))
            = (IF 1 \in WinsIn(s) THEN s[1] ELSE 0) + SumOver(t, WinsIn(t))
    BY <1>a, SumShrinks
  <1>5. SumOver(s, L) = (IF 1 \in L THEN s[1] ELSE 0) + SumOver(t, M)
    <2> HIDE DEF L, M
    <2> QED
      BY <1>b, SumShrinks
  <1>6. 1 \in L => s[1] = 0
    BY <1>1 DEF WinsIn
  <1>7. SumOver(t, WinsIn(t)) \in Int /\ SumOver(t, M) \in Int
    BY SumTyped
  <1>8. LostIn(t) = LostIn(s)
    <2>1. LostIn(t) = -SumOver(t, M) /\ LostIn(s) = -SumOver(s, L)
      BY DEF LostIn
    <2> HIDE DEF L, M
    <2>2. SumOver(s, L) = 0 + SumOver(t, M)
      BY <1>5, <1>6
    <2>3. SumOver(s, L) = SumOver(t, M)
      BY <1>7, <2>2
    <2> QED
      BY <2>1, <2>3
  <1>9. WinsOf(t) <= WinsOf(s)
    <2> DEFINE up == [k \in WinsIn(t) |-> k + 1]
    <2>1. WinsIn(t) \subseteq 1..n
      BY <1>1 DEF WinsIn
    <2>2. up \in [WinsIn(t) -> WinsIn(s)]
      BY <1>2, <2>1
    <2>3. \A a, b \in WinsIn(t) : up[a] = up[b] => a = b
      BY <1>1, <2>1
    <2>4. up \in Injection(WinsIn(t), WinsIn(s))
      BY <2>2, <2>3 DEF Injection, IsInjective
    <2> QED
      BY <2>4, WinsCounted, FS_Injection DEF WinsOf
  <1> QED
    BY <1>1, <1>4, <1>7, <1>8, <1>9

----------------------------------------------------------------------------
(* Kelly's fraction after a loss.                                          *)

(* Products and quotients.                                                 *)
LEMMA Products ==
    ASSUME NEW a \in Int, NEW b \in Int, NEW c \in Nat, a <= b
    PROVE  a * c \in Int /\ b * c \in Int /\ a * c <= b * c /\ c * a <= c * b
  OBVIOUS

LEMMA Positive ==
    ASSUME NEW a \in Nat, NEW b \in Nat
    PROVE  /\ a * b \in Nat
           /\ a > 0 /\ b > 0 => a * b > 0
  OBVIOUS

LEMMA Divided ==
    ASSUME NEW x \in Int, NEW y \in Nat \ {0}
    PROVE  /\ x \div y \in Int
           /\ y * (x \div y) <= x /\ x < y * (x \div y) + y
           /\ x <= 0 => x \div y <= 0
           /\ x >= 0 => x \div y >= 0
  OBVIOUS

LEMMA Quotients ==
    ASSUME NEW x \in Int, NEW y \in Nat \ {0}, NEW p \in Int, NEW q \in Nat \ {0},
           x * q <= p * y
    PROVE  x \div y <= p \div q
  <1> DEFINE d == p \div q
             e == x \div y
  <1>1. /\ d \in Int /\ e \in Int
        /\ y * e <= x /\ p < q * d + q
    BY Divided
  <1> HIDE DEF d, e
  <1> SUFFICES ASSUME d + 1 <= e PROVE FALSE
    BY <1>1 DEF d, e
  <1>2. (y * e) * q <= x * q
    BY <1>1, Products
  <1>3. p + 1 <= q * (d + 1)
    BY <1>1
  <1>4. (p + 1) * y <= (q * (d + 1)) * y
    BY <1>1, <1>3, Products
  <1>5. q * (d + 1) <= q * e
    BY <1>1, Products
  <1>6. (q * (d + 1)) * y <= (q * e) * y
    BY <1>1, <1>5, Products
  <1>7. (q * e) * y = (y * e) * q
    BY <1>1
  <1>8. (p + 1) * y = p * y + y
    OBVIOUS
  <1> QED
    BY <1>1, <1>2, <1>4, <1>6, <1>7, <1>8

KellyWithin(x) == Between(50, x, 150)
Fraction(wins, won, lost, n) == (250 * wins * (won - lost)) \div (won * n)

(* With fewer wins in more trades, less won and more lost, the fraction is *)
(* no larger - within its limits, for of more trades a loss is a smaller   *)
(* part.                                                                   *)
LEMMA KellyFalls ==
    ASSUME NEW W \in Nat, NEW V \in Nat, V <= W,
           NEW a \in Nat \ {0}, NEW b \in Nat \ {0}, b <= a,
           NEW l \in Nat, NEW m \in Nat, l <= m,
           NEW n \in Nat \ {0}, NEW k \in Nat \ {0}, n <= k
    PROVE  KellyWithin(Fraction(V, b, m, k)) <= KellyWithin(Fraction(W, a, l, n))
  <1> SUFFICES Between(50, (250 * V * (b - m)) \div (b * k), 150)
                   <= Between(50, (250 * W * (a - l)) \div (a * n), 150)
    BY Zenon DEF KellyWithin, Fraction
  <1> DEFINE x == 250 * V * (b - m)
             y == b * k
             p == 250 * W * (a - l)
             q == a * n
  <1>1. x \in Int /\ p \in Int /\ y \in Nat \ {0} /\ q \in Nat \ {0}
    BY Positive
  <1>2. ASSUME NEW d \in Int, NEW e \in Int, e <= d
        PROVE  Between(50, e, 150) <= Between(50, d, 150)
    BY <1>2 DEF Between
  <1>3. CASE b <= m
    <2>1. x <= 0
      <3>1. 250 * V \in Nat /\ b - m <= 0
        BY <1>3
      <3>2. (250 * V) * (b - m) <= (250 * V) * 0
        BY <3>1, Products
      <3> QED
        BY <3>2
    <2> HIDE DEF x, y, p, q
    <2>2. x \div y <= 0 /\ x \div y \in Int /\ p \div q \in Int
      BY <1>1, <2>1, Divided
    <2>3. Between(50, x \div y, 150) = 50 /\ Between(50, p \div q, 150) >= 50
      BY <2>2 DEF Between
    <2> QED
      BY <2>3 DEF x, y, p, q
  <1>4. CASE b > m
    <2> DEFINE X == (b - m) * a
               Y == (a - l) * b
               M == V * n
               N == W * k
    <2>1. X \in Nat /\ Y \in Nat /\ M \in Nat /\ N \in Nat
      <3>1. b - m \in Nat /\ a - l \in Nat
        BY <1>4
      <3> QED
        BY <3>1, Positive
    <2>2. X <= Y
      <3>1. l * b <= m * b /\ m * b <= m * a
        BY Products
      <3>2. X = b * a - m * a /\ Y = a * b - l * b /\ a * b = b * a
        OBVIOUS
      <3>3. l * b \in Int /\ m * b \in Int /\ m * a \in Int /\ a * b \in Int
        BY Products
      <3> HIDE DEF X, Y
      <3> QED
        BY <3>1, <3>2, <3>3
    <2>3. M <= N
      <3>1. V * n <= W * n /\ W * n <= W * k
        BY Products
      <3> QED
        BY <3>1, <2>1, Products
    <2>4. x * q = 250 * (M * X) /\ p * y = 250 * (N * Y)
      OBVIOUS
    <2> HIDE DEF X, Y, M, N, x, y, p, q
    <2>5. M * X <= N * X /\ N * X <= N * Y
      BY <2>1, <2>2, <2>3, Products
    <2>6. x * q <= p * y
      BY <2>1, <2>4, <2>5
    <2>7. x \div y <= p \div q /\ x \div y \in Int /\ p \div q \in Int
      BY <1>1, <2>6, Quotients, Divided
    <2> QED
      BY <1>2, <2>7 DEF x, y, p, q
  <1> QED
    BY <1>3, <1>4

(* The last of a list.                                                     *)
LEMMA RecentAt ==
    ASSUME NEW S, NEW s \in Seq(S), NEW n \in Nat \ {0}
    PROVE  /\ Recent(s, n) \in Seq(S)
           /\ Len(Recent(s, n)) = IF Len(s) > n THEN n ELSE Len(s)
           /\ \A i \in 1..Len(Recent(s, n)) :
                  Recent(s, n)[i] = s[i + (Len(s) - Len(Recent(s, n)))]
           /\ Len(s) <= n => Recent(s, n) = s
  <1> DEFINE l == Len(s)
             m == IF l > n THEN l - n + 1 ELSE 1
             r == SubSeq(s, m, l)
  <1>1. l \in Nat /\ m \in 1..(l + 1)
    OBVIOUS
  <1>2. \A i \in m..l : s[i] \in S
    BY <1>1
  <1>3. /\ r \in Seq(S) /\ Len(r) = IF m <= l THEN l - m + 1 ELSE 0
        /\ \A i \in 1..(l - m + 1) : r[i] = s[m + i - 1]
    BY <1>1, <1>2, SubSeqProperties
  <1>4. Recent(s, n) = r
    BY DEF Recent
  <1>5. Len(r) = IF l > n THEN n ELSE l
    <2>1. CASE l > n
      <3>1. m <= l /\ l - m + 1 = n
        BY <1>1, <2>1
      <3> HIDE DEF r, m
      <3> QED
        BY <1>3, <2>1, <3>1
    <2>2. CASE ~(l > n)
      <3>1. m <= l => l - m + 1 = l
        BY <1>1, <2>2
      <3>2. ~(m <= l) => l = 0
        BY <1>1, <2>2
      <3> HIDE DEF r, m
      <3> QED
        BY <1>3, <2>2, <3>1, <3>2
    <2> QED
      BY <2>1, <2>2
  <1>6. ASSUME NEW i \in 1..Len(r) PROVE r[i] = s[i + (l - Len(r))]
    <2> HIDE DEF r
    <2>1. i \in 1..(l - m + 1) /\ m + i - 1 = i + (l - Len(r))
      BY <1>1, <1>5
    <2> QED
      BY <1>3, <2>1
  <1>7. l <= n => r = s
    <2> SUFFICES ASSUME l <= n PROVE r = s
      OBVIOUS
    <2>1. Len(r) = Len(s)
      BY <1>1, <1>5
    <2>2. ASSUME NEW i \in 1..Len(r) PROVE r[i] = s[i]
      <3> HIDE DEF r
      <3>1. i + (l - Len(r)) = i
        BY <1>1, <2>1
      <3> QED
        BY <1>6, <3>1
    <2> HIDE DEF r
    <2> QED
      BY <1>3, <2>1, <2>2, SeqEqual
  <1> HIDE DEF r
  <1> QED
    BY <1>3, <1>4, <1>5, <1>6, <1>7

(* With x the list s is longer than before, and its last n were w and are  *)
(* v: one more, or the same but for the first.                             *)
Moved(s, x, n, w, v) ==
    \/ w = s /\ v = Append(s, x) /\ Len(s) < n
    \/ /\ Len(s) >= n /\ Len(w) = n
       /\ \E t \in Seq(Int) :
              /\ Len(w) = Len(t) + 1
              /\ \A k \in 1..Len(t) : t[k] = w[k + 1]
              /\ v = Append(t, x)

(* The window of a list that grows grows too, or moves on by one.          *)
LEMMA WindowMoves ==
    ASSUME NEW s \in Seq(Int), NEW x \in Int,
           NEW n \in Nat \ {0}, NEW m \in Nat \ {0}, n <= m
    PROVE  Moved(s, x, n, Recent(s, n), Recent(Recent(Append(s, x), m), n))
  <1> DEFINE w == Recent(s, n)
             a == Append(s, x)
             r == Recent(a, m)
             v == Recent(r, n)
             l == Len(s)
  <1> SUFFICES \/ w = s /\ v = Append(s, x) /\ l < n
               \/ /\ l >= n /\ Len(w) = n
                  /\ \E t \in Seq(Int) :
                         /\ Len(w) = Len(t) + 1
                         /\ \A k \in 1..Len(t) : t[k] = w[k + 1]
                         /\ v = Append(t, x)
    BY DEF Moved
  <1>1. /\ l \in Nat /\ a \in Seq(Int) /\ Len(a) = l + 1 /\ a[l + 1] = x
        /\ \A k \in 1..l : a[k] = s[k]
    OBVIOUS
  <1> HIDE DEF a
  <1>2. /\ r \in Seq(Int) /\ Len(r) = IF l + 1 > m THEN m ELSE l + 1
        /\ \A i \in 1..Len(r) : r[i] = a[i + ((l + 1) - Len(r))]
        /\ l + 1 <= m => r = a
    <2>1. /\ r \in Seq(Int) /\ Len(r) = IF Len(a) > m THEN m ELSE Len(a)
          /\ \A i \in 1..Len(r) : r[i] = a[i + (Len(a) - Len(r))]
          /\ Len(a) <= m => r = a
      BY <1>1, RecentAt
    <2> HIDE DEF r
    <2> QED
      BY <1>1, <2>1
  <1> HIDE DEF r
  <1>3. /\ v \in Seq(Int) /\ Len(v) = IF Len(r) > n THEN n ELSE Len(r)
        /\ \A i \in 1..Len(v) : v[i] = r[i + (Len(r) - Len(v))]
        /\ Len(r) <= n => v = r
    BY <1>2, RecentAt
  <1>4. /\ w \in Seq(Int) /\ Len(w) = IF l > n THEN n ELSE l
        /\ \A i \in 1..Len(w) : w[i] = s[i + (l - Len(w))]
        /\ l <= n => w = s
    BY RecentAt
  <1> HIDE DEF v, w
  <1>5. CASE l < n
    <2>1. l + 1 <= m /\ r = a /\ Len(r) <= n
      BY <1>1, <1>2, <1>5
    <2> QED
      BY <1>3, <1>4, <1>5, <2>1 DEF a
  <1>6. CASE l >= n
    <2> DEFINE t == [k \in 1..(n - 1) |-> w[k + 1]]
    <2>1. Len(w) = n /\ \A k \in 1..n : w[k] \in Int
      <3>1. Len(w) = n
        BY <1>1, <1>4, <1>6
      <3>2. \A k \in 1..Len(w) : w[k] \in Int
        BY <1>4
      <3> QED
        BY <3>1, <3>2
    <2>2. /\ t \in Seq(Int) /\ Len(t) = n - 1
          /\ \A k \in 1..(n - 1) : t[k] = w[k + 1]
      <3> DEFINE i == n - 1
      <3>1. i \in Nat /\ \A k \in 1..i : w[k + 1] \in Int
        BY <2>1
      <3> HIDE DEF i
      <3> DEFINE u == [k \in 1..i |-> w[k + 1]]
      <3>2. u \in Seq(Int) /\ Len(u) = i /\ \A k \in 1..i : u[k] = w[k + 1]
        BY <3>1
      <3> QED
        BY <3>2 DEF i
    <2>3. Len(r) >= n /\ Len(v) = n
      BY <1>1, <1>2, <1>3, <1>6
    <2>4. ASSUME NEW k \in 1..n PROVE v[k] = a[k + (l + 1 - n)]
      <3>1. v[k] = r[k + (Len(r) - n)] /\ Len(r) \in Nat
        <4>1. k \in 1..Len(v)
          BY <2>3
        <4>2. v[k] = r[k + (Len(r) - Len(v))]
          BY <1>3, <4>1
        <4> QED
          BY <1>2, <2>3, <4>2
      <3>2. k + (Len(r) - n) \in 1..Len(r)
        BY <2>3, <3>1
      <3>3. r[k + (Len(r) - n)] = a[(k + (Len(r) - n)) + ((l + 1) - Len(r))]
        BY <1>2, <3>2
      <3>4. (k + (Len(r) - n)) + ((l + 1) - Len(r)) = k + (l + 1 - n)
        BY <1>1, <3>1
      <3> QED
        BY <3>1, <3>3, <3>4
    <2> HIDE DEF t
    <2> DEFINE u == Append(t, x)
    <2>5. /\ u \in Seq(Int) /\ Len(u) = n /\ u[n] = x
          /\ \A k \in 1..(n - 1) : u[k] = t[k]
      <3>1. /\ u \in Seq(Int) /\ Len(u) = Len(t) + 1 /\ u[Len(t) + 1] = x
            /\ \A k \in 1..Len(t) : u[k] = t[k]
        BY <2>2
      <3> HIDE DEF u
      <3> QED
        BY <2>2, <3>1
    <2> HIDE DEF u
    <2>6. ASSUME NEW k \in 1..n PROVE v[k] = u[k]
      <3>1. CASE k = n
        <4>1. k + (l + 1 - n) = l + 1
          BY <1>1, <3>1
        <4> QED
          BY <1>1, <2>4, <2>5, <3>1, <4>1
      <3>2. CASE k # n
        <4>1. /\ k \in 1..(n - 1) /\ k + 1 \in 1..n
              /\ k + (l + 1 - n) \in 1..l /\ k + (l + 1 - n) = (k + 1) + (l - n)
          BY <1>1, <1>6, <3>2
        <4>2. u[k] = w[k + 1]
          BY <2>2, <2>5, <4>1
        <4>3. w[k + 1] = s[(k + 1) + (l - n)]
          BY <1>4, <2>1, <4>1
        <4>4. v[k] = s[k + (l + 1 - n)]
          BY <1>1, <2>4, <4>1
        <4> QED
          BY <4>1, <4>2, <4>3, <4>4
      <3> QED
        BY <3>1, <3>2
    <2>7. v = u
      BY <1>3, <2>3, <2>5, <2>6, SeqEqual
    <2>8. /\ t \in Seq(Int) /\ Len(w) = Len(t) + 1
          /\ \A k \in 1..Len(t) : t[k] = w[k + 1]
          /\ v = Append(t, x)
      <3>1. v = Append(t, x)
        BY <2>7 DEF u
      <3> QED
        BY <2>1, <2>2, <3>1
    <2>9. \E q \in Seq(Int) : /\ Len(w) = Len(q) + 1
                              /\ \A k \in 1..Len(q) : q[k] = w[k + 1]
                              /\ v = Append(q, x)
      BY <2>8
    <2> QED
      BY <1>6, <2>1, <2>9
  <1>7. l < n \/ l >= n
    BY <1>1
  <1> QED
    BY <1>5, <1>6, <1>7, Zenon

LEMMA WithinTyped ==
    ASSUME NEW x \in Int PROVE KellyWithin(x) \in 50..150
  BY DEF KellyWithin, Between

LEMMA KellyOfTyped ==
    ASSUME NEW w \in Seq(Int), WinsIn(w) # {}
    PROVE  KellyOf(w) \in Int
  <1> DEFINE won == SumOver(w, WinsIn(w))
             lost == LostIn(w)
             wins == WinsOf(w)
             n == Len(w)
  <1>1. won \in Nat \ {0} /\ lost \in Nat /\ wins \in Nat
    BY SumsSigned, WinsCounted
  <1>2. n \in Nat \ {0}
    BY DEF WinsIn
  <1>3. KellyOf(w) = IF lost = 0
                     THEN (250 * (5 * wins - 2 * n)) \div (3 * n)
                     ELSE (250 * wins * (won - lost)) \div (won * n)
    BY DEF KellyOf
  <1> HIDE DEF won, lost, wins, n
  <1>4. 3 * n \in Nat \ {0} /\ won * n \in Nat \ {0}
    BY <1>1, <1>2, Positive
  <1>5. 250 * (5 * wins - 2 * n) \in Int /\ 250 * wins * (won - lost) \in Int
    BY <1>1, <1>2
  <1>6. \A x \in Int : \A y \in Nat \ {0} : x \div y \in Int
    BY Divided
  <1>7. /\ (250 * (5 * wins - 2 * n)) \div (3 * n) \in Int
        /\ (250 * wins * (won - lost)) \div (won * n) \in Int
    BY <1>4, <1>5, <1>6, Zenon
  <1> QED
    BY <1>3, <1>7

(* A loss that enters the window and puts no loss out of it.               *)
LEMMA LossKelly ==
    ASSUME NEW s \in Seq(Int), NEW x \in Int, x < 0,
           NEW n \in Nat \ {0}, NEW m \in Nat \ {0}, n <= m,
           WinsIn(Recent(s, n)) # {},
           WinsIn(Recent(Recent(Append(s, x), m), n)) # {},
           \E i \in DOMAIN Recent(s, n) : Recent(s, n)[i] < 0,
           Len(s) < n \/ Recent(s, n)[1] >= 0
    PROVE  KellyWithin(KellyOf(Recent(Recent(Append(s, x), m), n)))
               <= KellyWithin(KellyOf(Recent(s, n)))
  <1> DEFINE w == Recent(s, n)
             v == Recent(Recent(Append(s, x), m), n)
  <1>a. \/ w = s /\ v = Append(s, x) /\ Len(s) < n
        \/ /\ Len(s) >= n /\ Len(w) = n
           /\ \E t \in Seq(Int) :
                  /\ Len(w) = Len(t) + 1
                  /\ \A k \in 1..Len(t) : t[k] = w[k + 1]
                  /\ v = Append(t, x)
    <2>1. Moved(s, x, n, w, v)
      BY WindowMoves
    <2> HIDE DEF w, v
    <2> QED
      BY <2>1 DEF Moved
  <1>b. /\ WinsIn(w) # {} /\ WinsIn(v) # {} /\ \E i \in DOMAIN w : w[i] < 0
        /\ Len(s) < n \/ w[1] >= 0
    OBVIOUS
  <1>1. w \in Seq(Int)
    BY RecentAt
  <1> HIDE DEF w, v
  <1>2. /\ v \in Seq(Int) /\ Len(v) >= Len(w)
        /\ SumOver(v, WinsIn(v)) <= SumOver(w, WinsIn(w))
        /\ LostIn(v) = LostIn(w) - x
        /\ WinsOf(v) <= WinsOf(w)
    <2>1. CASE w = s /\ v = Append(s, x)
      <3>1. /\ v \in Seq(Int) /\ Len(v) = Len(s) + 1 /\ WinsIn(v) = WinsIn(s)
            /\ SumOver(v, WinsIn(v)) = SumOver(s, WinsIn(s))
            /\ LostIn(v) = LostIn(s) - x
        BY <2>1, LossAdded
      <3>2. SumOver(s, WinsIn(s)) \in Int /\ WinsOf(s) \in Nat /\ Len(s) \in Nat
        BY SumTyped, WinsCounted
      <3>3. WinsOf(v) = WinsOf(s)
        BY <3>1 DEF WinsOf
      <3> QED
        BY <2>1, <3>1, <3>2, <3>3
    <2>2. ASSUME Len(s) >= n, NEW t \in Seq(Int), Len(w) = Len(t) + 1,
                 \A k \in 1..Len(t) : t[k] = w[k + 1],
                 v = Append(t, x)
          PROVE  /\ v \in Seq(Int) /\ Len(v) >= Len(w)
                 /\ SumOver(v, WinsIn(v)) <= SumOver(w, WinsIn(w))
                 /\ LostIn(v) = LostIn(w) - x
                 /\ WinsOf(v) <= WinsOf(w)
      <3>1. w[1] >= 0
        <4>1. Len(s) \in Nat
          OBVIOUS
        <4> QED
          BY <1>b, <2>2, <4>1
      <3>2. /\ SumOver(t, WinsIn(t)) <= SumOver(w, WinsIn(w))
            /\ LostIn(t) = LostIn(w) /\ WinsOf(t) <= WinsOf(w)
        BY <1>1, <2>2, <3>1, WinForgotten
      <3>3. /\ v \in Seq(Int) /\ Len(v) = Len(t) + 1 /\ WinsIn(v) = WinsIn(t)
            /\ SumOver(v, WinsIn(v)) = SumOver(t, WinsIn(t))
            /\ LostIn(v) = LostIn(t) - x
        BY <2>2, LossAdded
      <3>4. WinsOf(v) = WinsOf(t) /\ Len(t) \in Nat
        BY <3>3 DEF WinsOf
      <3> QED
        BY <2>2, <3>2, <3>3, <3>4
    <2>4. \/ w = s /\ v = Append(s, x)
          \/ /\ Len(s) >= n
             /\ \E t \in Seq(Int) :
                    /\ Len(w) = Len(t) + 1
                    /\ \A k \in 1..Len(t) : t[k] = w[k + 1]
                    /\ v = Append(t, x)
      BY <1>a
    <2>5. CASE /\ Len(s) >= n
               /\ \E t \in Seq(Int) :
                      /\ Len(w) = Len(t) + 1
                      /\ \A k \in 1..Len(t) : t[k] = w[k + 1]
                      /\ v = Append(t, x)
      <3>1. PICK t \in Seq(Int) :
                      /\ Len(w) = Len(t) + 1
                      /\ \A k \in 1..Len(t) : t[k] = w[k + 1]
                      /\ v = Append(t, x)
        BY <2>5
      <3> QED
        BY <2>2, <2>5, <3>1
    <2> QED
      BY <2>1, <2>4, <2>5
  <1> DEFINE W == WinsOf(w)
             V == WinsOf(v)
             a == SumOver(w, WinsIn(w))
             b == SumOver(v, WinsIn(v))
             l == LostIn(w)
             k == LostIn(v)
             i == Len(w)
             j == Len(v)
  <1>3. /\ W \in Nat /\ V \in Nat /\ a \in Nat \ {0} /\ b \in Nat \ {0}
        /\ l \in Nat \ {0} /\ k \in Nat
    <2>1. \E q \in 1..Len(w) : w[q] < 0
      BY <1>1, <1>b
    <2>2. W \in Nat /\ a \in Nat /\ a > 0 /\ l \in Nat /\ l > 0
      BY <1>1, <1>b, <2>1, SumsSigned, WinsCounted
    <2>3. V \in Nat /\ b \in Nat /\ b > 0 /\ k \in Nat
      BY <1>2, <1>b, SumsSigned, WinsCounted
    <2> HIDE DEF W, V, a, b, l, k
    <2> QED
      BY <2>2, <2>3
  <1>4. i \in Nat \ {0} /\ j \in Nat \ {0}
    <2>1. i \in Nat /\ j \in Nat /\ DOMAIN w = 1..i /\ DOMAIN v = 1..j
      BY <1>1, <1>2
    <2>2. DOMAIN w # {} /\ DOMAIN v # {}
      BY <1>b DEF WinsIn
    <2> HIDE DEF i, j
    <2> QED
      BY <2>1, <2>2
  <1>5. V <= W /\ b <= a /\ l <= k /\ i <= j /\ k # 0
    <2>1. V <= W /\ b <= a /\ k = l - x /\ j >= i
      BY <1>2
    <2> HIDE DEF W, V, a, b, l, k, i, j
    <2> QED
      BY <1>3, <1>4, <2>1
  <1>6. KellyOf(w) = Fraction(W, a, l, i) /\ KellyOf(v) = Fraction(V, b, k, j)
    <2>1. \A r : KellyOf(r) = IF LostIn(r) = 0
              THEN (250 * (5 * WinsOf(r) - 2 * Len(r))) \div (3 * Len(r))
              ELSE Fraction(WinsOf(r), SumOver(r, WinsIn(r)), LostIn(r), Len(r))
      BY DEF KellyOf, Fraction
    <2>2. LostIn(w) # 0 /\ LostIn(v) # 0
      BY <1>3, <1>5
    <2> QED
      BY <2>1, <2>2, Zenon
  <1> HIDE DEF W, V, a, b, l, k, i, j
  <1>7. KellyWithin(Fraction(V, b, k, j)) <= KellyWithin(Fraction(W, a, l, i))
    <2>1. l \in Nat
      BY <1>3
    <2> QED
      BY <1>3, <1>4, <1>5, <2>1, KellyFalls
  <1> QED
    BY <1>6, <1>7 DEF w, v

----------------------------------------------------------------------------
(* The size of the next order after a loss.                                *)

(* Kelly goes by the window of results exactly where it is measured.       *)
LEMMA KellyScaleIs ==
    ASSUME NEW rs \in Seq(Int), NEW p
    PROVE  /\ KellyScale(rs, p) =
                  KellyWithin(IF Measured(rs) THEN KellyOf(Recent(rs, KellyWindow))
                              ELSE KellyOfProfile(p))
           /\ Measured(rs) => WinsIn(Recent(rs, KellyWindow)) # {}
  <1> DEFINE r == Recent(rs, KellyWindow)
  <1>1. r \in Seq(Int)
    BY LearningAssumption, RecentAt
  <1>2. KellyScale(rs, p) =
            Between(50, IF /\ Len(rs) >= KellyMin
                           /\ WinsIn(r) # {} /\ DOMAIN r \ WinsIn(r) # {}
                        THEN KellyOf(r) ELSE KellyOfProfile(p), 150)
    BY Zenon DEF KellyScale
  <1>3. Measured(rs) <=> /\ Len(rs) >= KellyMin
                         /\ \E i, j \in DOMAIN r : r[i] > 0 /\ r[j] <= 0
    BY Zenon DEF Measured
  <1> HIDE DEF r
  <1>4. \A j \in DOMAIN r : r[j] \in Int
    BY <1>1
  <1>5. /\ WinsIn(r) # {} <=> \E i \in DOMAIN r : r[i] > 0
        /\ DOMAIN r \ WinsIn(r) # {} <=> \E j \in DOMAIN r : r[j] <= 0
    BY <1>4 DEF WinsIn
  <1>6. Measured(rs) <=> /\ Len(rs) >= KellyMin
                         /\ WinsIn(r) # {} /\ DOMAIN r \ WinsIn(r) # {}
    BY <1>3, <1>5, Zenon
  <1> QED
    BY <1>2, <1>6 DEF KellyWithin, r

LEMMA KellyOfProfileTyped ==
    ASSUME NEW p \in Profiles PROVE KellyOfProfile(p) \in Int
  BY DEF KellyOfProfile, Profiles, AvgWin, AvgLoss

LEMMA KellyScaleTyped ==
    ASSUME NEW rs \in Seq(Int), NEW p \in Profiles
    PROVE  KellyScale(rs, p) \in Nat
  <1>1. Recent(rs, KellyWindow) \in Seq(Int)
    BY LearningAssumption, RecentAt
  <1>2. Measured(rs) => KellyOf(Recent(rs, KellyWindow)) \in Int
    BY <1>1, KellyScaleIs, KellyOfTyped
  <1>3. \A k \in Int : KellyWithin(k) \in Nat
    BY DEF KellyWithin, Between
  <1> QED
    BY <1>2, <1>3, KellyScaleIs, KellyOfProfileTyped

(* The scale of Kelly does not grow with a loss that puts none out of the  *)
(* window, as long as it is made of the same thing.                        *)
LEMMA LossScale ==
    ASSUME NEW rs \in Seq(Int), NEW x \in Int, x < 0, NEW p \in Profiles,
           Measured(rs) <=> Measured(Recent(Append(rs, x), Keep)),
           ~(Measured(rs) /\ \A i \in DOMAIN Recent(rs, KellyWindow) :
                                 Recent(rs, KellyWindow)[i] >= 0),
           ~(Forgotten(rs) < 0)
    PROVE  KellyScale(Recent(Append(rs, x), Keep), p) <= KellyScale(rs, p)
  <1> DEFINE w == Recent(rs, KellyWindow)
             next == Recent(Append(rs, x), Keep)
             v == Recent(next, KellyWindow)
  <1>1. /\ w \in Seq(Int) /\ KellyWindow \in Nat \ {0} /\ Keep \in Nat \ {0}
        /\ KellyWindow <= Keep
        /\ Len(w) = IF Len(rs) > KellyWindow THEN KellyWindow ELSE Len(rs)
    BY LearningAssumption, RecentAt
  <1>2. next \in Seq(Int)
    BY <1>1, AppendedIn
  <1>3. CASE ~Measured(rs)
    <2>1. KellyScale(next, p) = KellyWithin(KellyOfProfile(p))
      BY <1>2, <1>3, KellyScaleIs
    <2>2. KellyScale(rs, p) = KellyWithin(KellyOfProfile(p))
      BY <1>3, KellyScaleIs
    <2>3. KellyWithin(KellyOfProfile(p)) \in Int
      BY KellyOfProfileTyped, WithinTyped
    <2> HIDE DEF next
    <2>4. KellyScale(next, p) <= KellyScale(rs, p)
      BY <2>1, <2>2, <2>3
    <2> QED
      BY <2>4 DEF next
  <1>4. CASE Measured(rs)
    <2>1. /\ KellyScale(rs, p) = KellyWithin(KellyOf(w)) /\ WinsIn(w) # {}
      BY <1>4, KellyScaleIs
    <2>2. /\ KellyScale(next, p) = KellyWithin(KellyOf(v)) /\ WinsIn(v) # {}
      BY <1>2, <1>4, KellyScaleIs
    <2>3. \E i \in DOMAIN w : w[i] < 0
      <3>1. PICK i \in DOMAIN w : ~(w[i] >= 0)
        BY <1>4
      <3>2. w[i] \in Int
        BY <1>1, <3>1
      <3> HIDE DEF w
      <3> QED
        BY <3>1, <3>2
    <2>4. Len(rs) < KellyWindow \/ w[1] >= 0
      <3>1. CASE Len(rs) < KellyWindow
        BY <3>1
      <3>2. CASE ~(Len(rs) < KellyWindow)
        <4>1. ~(w[1] < 0)
          BY <3>2 DEF Forgotten
        <4>2. Len(rs) \in Nat
          OBVIOUS
        <4> HIDE DEF w
        <4>3. 1 \in 1..Len(w)
          BY <1>1, <3>2, <4>2
        <4>4. w[1] \in Int
          BY <1>1, <4>3
        <4> QED
          BY <4>1, <4>4
      <3> QED
        BY <3>1, <3>2
    <2>5. KellyWithin(KellyOf(v)) <= KellyWithin(KellyOf(w))
      BY <1>1, <2>1, <2>2, <2>3, <2>4, LossKelly
    <2> QED
      BY <2>1, <2>2, <2>5
  <1> QED
    BY <1>3, <1>4

LEMMA ScaleAfter ==
    ASSUME NEW rs \in Seq(Int), NEW qs, NEW x \in Int, x < 0, NEW p \in Profiles,
           qs = rs \/ qs = Recent(Append(rs, x), Keep),
           Measured(rs) <=> Measured(qs),
           ~(Measured(rs) /\ \A i \in DOMAIN Recent(rs, KellyWindow) :
                                 Recent(rs, KellyWindow)[i] >= 0),
           ~(Forgotten(rs) < 0)
    PROVE  /\ KellyScale(rs, p) \in Nat /\ KellyScale(qs, p) \in Nat
           /\ KellyScale(qs, p) <= KellyScale(rs, p)
  <1>1. \A ts \in Seq(Int) : KellyScale(ts, p) \in Nat
    BY Zenon, KellyScaleTyped
  <1>2. CASE qs = rs
    <2>1. KellyScale(rs, p) \in Nat
      BY <1>1
    <2> QED
      BY <1>2, <2>1
  <1>3. CASE qs = Recent(Append(rs, x), Keep)
    <2>1. qs \in Seq(Int)
      BY <1>3, AppendedIn, LearningAssumption
    <2>2. Measured(rs) <=> Measured(Recent(Append(rs, x), Keep))
      BY <1>3
    <2>3. KellyScale(Recent(Append(rs, x), Keep), p) <= KellyScale(rs, p)
      BY <2>2, LossScale
    <2> QED
      BY <1>1, <1>3, <2>1, <2>3
  <1> QED
    BY <1>2, <1>3

(* The factors of a size.                                                  *)
LEMMA StreakFalls ==
    ASSUME NEW n \in Int, NEW m \in Int, m < n, m < 0
    PROVE  /\ StreakScale(n) \in Nat /\ StreakScale(m) \in Nat
           /\ StreakScale(m) <= StreakScale(n)
  BY DEF StreakScale

LEMMA SizesRise ==
    ASSUME NEW m \in Nat, NEW n \in Nat, m <= n
    PROVE  /\ Rounded(m) \in Nat /\ Rounded(n) \in Nat /\ Rounded(m) <= Rounded(n)
           /\ AtLeastMin(m) \in Nat /\ AtLeastMin(n) \in Nat
           /\ AtLeastMin(m) <= AtLeastMin(n)
  BY DEF Rounded, AtLeastMin

Sized(n, c) ==
    Between(0, ((IF n <= -3 THEN BaseLots \div 2 ELSE BaseLots)
                    * Between(500, c, 1000)) \div 1000, SymbolMax)

LEMMA RiskFalls ==
    ASSUME NEW n \in Int, NEW m \in Int, m < n, NEW c \in Nat
    PROVE  Sized(m, c) \in Nat /\ Sized(n, c) \in Nat /\ Sized(m, c) <= Sized(n, c)
  <1> DEFINE risk(k) == IF k <= -3 THEN BaseLots \div 2 ELSE BaseLots
             b == Between(500, c, 1000)
  <1>1. /\ risk(m) \in Nat /\ risk(n) \in Nat /\ risk(m) <= risk(n)
    BY LearningAssumption
  <1>2. b \in Nat
    BY DEF Between
  <1> HIDE DEF risk, b
  <1>3. /\ risk(m) * b \in Nat /\ risk(n) * b \in Nat /\ risk(m) * b <= risk(n) * b
    BY <1>1, <1>2, Products, Positive
  <1> DEFINE x == risk(m) * b
             y == risk(n) * b
  <1> HIDE DEF x, y
  <1>4. x \in Nat /\ y \in Nat /\ x <= y
    BY <1>3 DEF x, y
  <1>5. x \div 1000 \in Nat /\ y \div 1000 \in Nat /\ x \div 1000 <= y \div 1000
    BY <1>4
  <1>6. /\ Between(0, x \div 1000, SymbolMax) \in Nat
        /\ Between(0, y \div 1000, SymbolMax) \in Nat
        /\ Between(0, x \div 1000, SymbolMax) <= Between(0, y \div 1000, SymbolMax)
    BY <1>5, LearningAssumption DEF Between
  <1> QED
    BY <1>6 DEF x, y, risk, b, Sized

LEMMA LotsFall ==
    ASSUME NEW rs, NEW qs, NEW n \in Int, NEW m \in Int, m < n, m < 0,
           NEW p, NEW c \in Nat, NEW session \in Nat,
           KellyScale(rs, p) \in Nat, KellyScale(qs, p) \in Nat,
           KellyScale(qs, p) <= KellyScale(rs, p)
    PROVE  Lots(qs, m, c, p, session) <= Lots(rs, n, c, p, session)
  <1> DEFINE base(k) == Rounded(AtLeastMin(Sized(k, c)))
             f == KellyScale(qs, p) * session * StreakScale(m)
             g == KellyScale(rs, p) * session * StreakScale(n)
  <1>1. Sized(m, c) \in Nat /\ Sized(n, c) \in Nat /\ Sized(m, c) <= Sized(n, c)
    BY RiskFalls
  <1>2. /\ Lots(qs, m, c, p, session) =
               AtLeastMin(Rounded((base(m) * f) \div 1000000))
        /\ Lots(rs, n, c, p, session) =
               AtLeastMin(Rounded((base(n) * g) \div 1000000))
    BY DEF Lots, Sized
  <1>3. base(m) \in Nat /\ base(n) \in Nat /\ base(m) <= base(n)
    BY <1>1, SizesRise
  <1>4. f \in Nat /\ g \in Nat /\ f <= g
    <2> DEFINE a == KellyScale(qs, p) * session
               b == KellyScale(rs, p) * session
    <2>1. a \in Nat /\ b \in Nat /\ a <= b
      BY Products, Positive
    <2>2. /\ StreakScale(n) \in Nat /\ StreakScale(m) \in Nat
          /\ StreakScale(m) <= StreakScale(n)
      BY StreakFalls
    <2> HIDE DEF a, b
    <2>3. /\ a * StreakScale(m) \in Nat /\ b * StreakScale(n) \in Nat
          /\ b * StreakScale(m) \in Nat
      BY <2>1, <2>2, Positive
    <2>4. a * StreakScale(m) <= b * StreakScale(m)
      BY <2>1, <2>2, Products
    <2>5. b * StreakScale(m) <= b * StreakScale(n)
      BY <2>1, <2>2, Products
    <2>6. f = a * StreakScale(m) /\ g = b * StreakScale(n)
      BY DEF a, b
    <2> HIDE DEF f, g
    <2> QED
      BY <2>3, <2>4, <2>5, <2>6
  <1> HIDE DEF base, f, g
  <1>5. /\ base(m) * f \in Nat /\ base(n) * g \in Nat /\ base(m) * g \in Nat
    BY <1>3, <1>4, Positive
  <1>6. base(m) * f <= base(m) * g /\ base(m) * g <= base(n) * g
    BY <1>3, <1>4, Products
  <1> DEFINE x == base(m) * f
             y == base(n) * g
  <1>7. x \in Nat /\ y \in Nat /\ x <= y
    BY <1>5, <1>6
  <1> HIDE DEF x, y
  <1>8. x \div 1000000 \in Nat /\ y \div 1000000 \in Nat
        /\ x \div 1000000 <= y \div 1000000
    BY <1>7
  <1>9. /\ Rounded(x \div 1000000) \in Nat /\ Rounded(y \div 1000000) \in Nat
        /\ Rounded(x \div 1000000) <= Rounded(y \div 1000000)
    BY <1>8, SizesRise
  <1>10. AtLeastMin(Rounded(x \div 1000000)) <= AtLeastMin(Rounded(y \div 1000000))
    BY <1>9, SizesRise
  <1> QED
    BY <1>2, <1>10 DEF x, y

(* Only a result counts, and it goes into the streak and mostly to Kelly.  *)
LEMMA CountedResult ==
    ASSUME IInv, Next, nresults' > nresults
    PROVE  \E pnl \in PnLs : /\ streak' = NewStreak(pnl)
                             /\ results' = results \/ ForKelly(pnl)
  <1>a. ASSUME nresults' = nresults PROVE FALSE
    BY <1>a DEF IInv, TypeOK
  <1>1. CASE \E s \in Symbols, look \in Looks, a \in Actions, x \in Situations :
                 Analyzes(s, look, a, x)
    BY <1>a, <1>1 DEF Analyzes, books
  <1>2. CASE StartsAnalysis \/ EndsAnalysis \/ EndsCycle
    BY <1>a, <1>2 DEF StartsAnalysis, EndsAnalysis, EndsCycle, books
  <1>3. CASE \E g \in signals, market \in RuleScores, profile \in Profiles :
                 Executes(g, market, profile)
    BY <1>a, <1>3 DEF Executes, books
  <1>4. CASE \E g \in signals : Skips(g)
    BY <1>a, <1>4 DEF Skips, books
  <1>5. CASE \E pnl \in PnLs : ScalpResult(pnl)
    BY <1>5 DEF ScalpResult
  <1>6. CASE \E pnl \in PnLs : \E s \in Symbols : Reconciled(s, pnl)
    BY <1>6 DEF Reconciled
  <1>7. CASE \E pnl \in PnLs : \E s \in Symbols, x \in Situations :
                 ClosesTrade(s, pnl, x)
    BY <1>7 DEF ClosesTrade
  <1>8. CASE \E s \in Symbols, a \in Actions, owner \in Owners : Registers(s, a, owner)
    BY <1>a, <1>8 DEF Registers, books
  <1>9. CASE Saves \/ SaveFails
    BY <1>a, <1>9 DEF Saves, SaveFails, books
  <1>10. CASE Restart
    BY <1>a, <1>10 DEF Restart
  <1> QED
    BY <1>1, <1>2, <1>3, <1>4, <1>5, <1>6, <1>7, <1>8, <1>9, <1>10 DEF Next

(* A loss does not make the next order larger: not by the streak, not by   *)
(* the risk that is halved after three losses, and not by Kelly's measure  *)
(* but in the cases LossMakesNoBigger names; whatever the results were,    *)
(* however long the window, the base size and the limit of a symbol.       *)
THEOREM LossShrinksOrders == Spec => LossMakesNoBigger
  <1>1. ASSUME IInv, [Next]_vars
        PROVE  [nresults' > nresults /\ streak' < 0 /\ streak' # streak
                 => \/ Measured(results) # Measured(results')
                    \/ Measured(results) /\ \A i \in DOMAIN Recent(results, KellyWindow) :
                           Recent(results, KellyWindow)[i] >= 0
                    \/ Forgotten(results) < 0
                    \/ \A profile \in Profiles, session \in Sessions,
                          confidence \in {500, 1000} :
                           Lots(results', streak', confidence, profile, session)
                               <= Lots(results, streak, confidence, profile, session)]_vars
    <2> SUFFICES ASSUME Next, nresults' > nresults, streak' < 0, streak' # streak,
                        Measured(results) <=> Measured(results'),
                        ~(Measured(results) /\ \A i \in DOMAIN Recent(results, KellyWindow) :
                               Recent(results, KellyWindow)[i] >= 0),
                        ~(Forgotten(results) < 0),
                        NEW profile \in Profiles, NEW session \in Sessions,
                        NEW confidence \in {500, 1000}
                 PROVE  Lots(results', streak', confidence, profile, session)
                            <= Lots(results, streak, confidence, profile, session)
      BY <1>1 DEF Measured
    <2>1. PICK pnl \in PnLs : /\ streak' = NewStreak(pnl)
                              /\ results' = results \/ ForKelly(pnl)
      BY <1>1, CountedResult
    <2>2. /\ results \in Seq(Int) /\ streak \in Int /\ pnl \in Int
      BY <1>1, ResultsAssumption DEF IInv, TypeOK
    <2>3. pnl < 0 /\ streak' \in Int /\ streak' < streak
      BY <2>1, <2>2 DEF NewStreak
    <2>4. /\ KellyScale(results, profile) \in Nat /\ KellyScale(results', profile) \in Nat
          /\ KellyScale(results', profile) <= KellyScale(results, profile)
      BY <2>1, <2>2, <2>3, ScaleAfter DEF ForKelly
    <2>6. confidence \in Nat /\ session \in Nat
      BY DEF Sessions
    <2> QED
      BY <2>2, <2>3, <2>4, <2>6, LotsFall
  <1> QED
    BY <1>1, AlwaysIInv, PTL DEF Spec, LossMakesNoBigger
=============================================================================
