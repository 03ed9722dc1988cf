------------------------ MODULE RiskManager_proofs ------------------------
(***************************************************************************)
(* Proofs about RiskManager, for every value of its constants.             *)
(***************************************************************************)
EXTENDS RiskManager, WellFoundedInduction, TLAPS

----------------------------------------------------------------------------
(* The operators of the breaker keep its type.                             *)

LEMMA InitialBreakerType == InitialBreaker \in Breakers
  BY CooldownAssumption, RecoveryWinsAssumption
  DEF InitialBreaker, Breakers, BreakerStates

LEMMA AfterLossType == ASSUME NEW b \in Breakers PROVE AfterLoss(b) \in Breakers
<1>1. /\ b.losses + 1 \in Nat /\ b.recoveries \in 0 .. RecoveryWins - 1
      /\ b.age \in 0 .. Cooldown /\ 0 \in 0 .. Cooldown
      /\ b.state \in BreakerStates /\ "OPEN" \in BreakerStates
  BY CooldownAssumption DEF Breakers, BreakerStates
<1>2. CASE b.losses + 1 >= LossLimit
  BY <1>1, <1>2 DEF AfterLoss, Breakers
<1>3. CASE ~(b.losses + 1 >= LossLimit)
  BY <1>1, <1>3 DEF AfterLoss, Breakers
<1> QED BY <1>2, <1>3

LEMMA AfterWinType == ASSUME NEW b \in Breakers PROVE AfterWin(b) \in Breakers
<1>1. /\ b.wins + 1 \in Nat /\ b.recoveries \in Nat
      /\ b.recoveries < RecoveryWins /\ 0 \in 0 .. RecoveryWins - 1
      /\ b.state \in BreakerStates /\ "CLOSED" \in BreakerStates
      /\ b.age \in 0 .. Cooldown
  BY RecoveryWinsAssumption DEF Breakers, BreakerStates
<1>2. [b EXCEPT !.wins = b.wins + 1, !.losses = 0] \in Breakers
  BY <1>1 DEF Breakers
<1>3. CASE b.state # "HALF_OPEN"
  BY <1>2, <1>3 DEF AfterWin
<1>4. CASE b.state = "HALF_OPEN" /\ b.recoveries + 1 >= RecoveryWins
  BY <1>1, <1>2, <1>4 DEF AfterWin, Breakers
<1>5. CASE b.state = "HALF_OPEN" /\ ~(b.recoveries + 1 >= RecoveryWins)
  <2>1. b.recoveries + 1 \in 0 .. RecoveryWins - 1
    BY <1>1, <1>5, RecoveryWinsAssumption
  <2>2. AfterWin(b) = [[b EXCEPT !.wins = b.wins + 1, !.losses = 0]
                          EXCEPT !.recoveries = b.recoveries + 1]
    BY <1>5 DEF AfterWin
  <2> QED BY <1>2, <2>1, <2>2 DEF Breakers
<1> QED BY <1>3, <1>4, <1>5

LEMMA AfterResultType ==
  ASSUME NEW b \in Breakers, NEW pnl \in Int
  PROVE  AfterResult(b, pnl) \in Breakers
  BY AfterLossType, AfterWinType DEF AfterResult

LEMMA AfterCheckType == ASSUME NEW b \in Breakers PROVE AfterCheck(b) \in Breakers
  BY DEF AfterCheck, Breakers, BreakerStates

LEMMA OlderType == ASSUME NEW b \in Breakers PROVE Older(b) \in Breakers
  BY CooldownAssumption DEF Older, Breakers, BreakerStates

----------------------------------------------------------------------------

(* The calendar day of any time is a natural number.                       *)
LEMMA TodayIsNat == ASSUME clock \in Nat PROVE Today \in Nat
  BY TimeAssumption DEF Today

----------------------------------------------------------------------------
(* Type correctness.                                                       *)

LEMMA ResetType ==
  ASSUME TypeOK, NEW date \in Nat, ResetDaily(date)
  PROVE  daily' \in DailyCounters /\ resetAt' \in Nat /\ straddled' \in BOOLEAN
  BY DEF TypeOK, ResetDaily, NewDailyCounters, DailyCounters

LEMMA ResetIfNewDayType ==
  ASSUME TypeOK, ResetIfNewDay
  PROVE  daily' \in DailyCounters /\ resetAt' \in Nat /\ straddled' \in BOOLEAN
  BY ResetType, TodayIsNat DEF TypeOK, ResetIfNewDay, resets

LEMMA InitTypeOK == Init => TypeOK
<1> SUFFICES ASSUME Init PROVE TypeOK
  OBVIOUS
<1>1. cb \in Breakers
  BY InitialBreakerType DEF Init
<1>2. /\ balance \in Int /\ peak \in Int /\ account \in Int /\ extracted \in Int
      /\ clock \in Nat /\ resetAt \in Nat
  BY MoneyAssumption DEF Init
<1>3. daily \in DailyCounters /\ weekly \in [pnl : Int, extracted_on : Nat \cup {Never}]
  BY MoneyAssumption DEF Init, NewDailyCounters, DailyCounters, Never
<1>4. trade_log \in Seq(Int) /\ pending \in Seq(Int) /\ api \in Nat \cup {Never}
  BY DEF Init
<1>5. pc \in Locations /\ recording \in Stages /\ straddled \in BOOLEAN
      /\ recording = "nothing"
  BY DEF Init, Locations, Stages
<1> QED BY <1>1, <1>2, <1>3, <1>4, <1>5 DEF TypeOK

LEMMA WithTradeType ==
  ASSUME NEW d \in DailyCounters, NEW p \in Int
  PROVE  WithTrade(d, p) \in DailyCounters
<1>1. d.pnl + p \in Int /\ d.trades + 1 \in Nat /\ d.wins + 1 \in Nat
  BY DEF DailyCounters
<1>2. CASE p > 0
  <2>1. WithTrade(d, p) = [d EXCEPT !.pnl = d.pnl + p, !.trades = d.trades + 1,
                                    !.wins = d.wins + 1]
    BY <1>2 DEF WithTrade
  <2> QED BY <1>1, <2>1 DEF DailyCounters
<1>3. CASE ~(p > 0)
  <2>1. WithTrade(d, p) = [d EXCEPT !.pnl = d.pnl + p, !.trades = d.trades + 1,
                                    !.wins = d.wins]
    BY <1>3 DEF WithTrade
  <2> QED BY <1>1, <2>1 DEF DailyCounters
<1> QED BY <1>2, <1>3

WeeklyLedgers == [pnl : Int, extracted_on : Nat \cup {Never}]

LEMMA WeeklyType ==
  ASSUME NEW w \in WeeklyLedgers, NEW p \in Int
  PROVE  [w EXCEPT !.pnl = @ + p] \in WeeklyLedgers
  BY DEF WeeklyLedgers

LEMMA WithLimitsCheckedType ==
  ASSUME NEW d \in DailyCounters
  PROVE  WithLimitsChecked(d) \in DailyCounters
<1> DEFINE hit   == d.target_hit \/ (/\ d.start > 0
                                    /\ 1000 * d.pnl >= TargetPerMille * d.start)
           limit == d.limit_hit \/ (/\ d.start > 0
                                   /\ 1000 * d.pnl <= -(LimitPerMille * d.start))
<1>1. hit \in BOOLEAN /\ limit \in BOOLEAN
  OBVIOUS
<1>2. WithLimitsChecked(d) = [d EXCEPT !.target_hit = hit, !.limit_hit = limit]
  BY DEF WithLimitsChecked
<1> HIDE DEF hit, limit
<1> QED BY <1>1, <1>2 DEF DailyCounters

LEMMA RecordTypeOK == ASSUME TypeOK, RecordTradeResult PROVE TypeOK'
<1> DEFINE pnl == Head(pending)
<1>1. pnl \in Int /\ pending # <<>> /\ Tail(pending) \in Seq(Int)
  BY DEF TypeOK, RecordTradeResult, RecordCredits, RecordLogs, RecordCounts,
         RecordJudges
<1>2. CASE RecordCredits
  <2>1. balance' \in Int /\ peak' \in Int
    BY <1>1, <1>2 DEF TypeOK, RecordCredits, Higher
  <2> QED BY <1>1, <1>2, <2>1 DEF TypeOK, RecordCredits, resets, Stages
<1>3. CASE RecordLogs
  <2>1. trade_log' \in Seq(Int)
    BY <1>1, <1>3 DEF TypeOK, RecordLogs
  <2> QED BY <1>1, <1>3, <2>1 DEF TypeOK, RecordLogs, resets, Stages
<1>4. CASE RecordCounts
  <2>1. daily' \in DailyCounters
    BY <1>1, <1>4, WithTradeType DEF TypeOK, RecordCounts
  <2>2. weekly' \in [pnl : Int, extracted_on : Nat \cup {Never}]
    <3>1. weekly \in WeeklyLedgers /\ weekly' = [weekly EXCEPT !.pnl = @ + pnl]
      BY <1>4 DEF TypeOK, WeeklyLedgers, RecordCounts
    <3>2. weekly' \in WeeklyLedgers
      BY <1>1, <3>1, WeeklyType
    <3> QED BY <3>2 DEF WeeklyLedgers
  <2> QED BY <1>1, <1>4, <2>1, <2>2 DEF TypeOK, RecordCounts, resets, Stages
<1>5. CASE RecordJudges
  <2>1. daily' \in DailyCounters
    BY <1>5, WithLimitsCheckedType DEF TypeOK, RecordJudges
  <2>2. cb' \in Breakers
    BY <1>1, <1>5, AfterResultType DEF TypeOK, RecordJudges
  <2> QED BY <1>1, <1>5, <2>1, <2>2 DEF TypeOK, RecordJudges, resets, Stages
<1> QED BY <1>2, <1>3, <1>4, <1>5 DEF RecordTradeResult

LEMMA ExtractionTypeOK == ASSUME TypeOK, CompleteCycle PROVE TypeOK'
<1>1. ExtractionAmount \in Int /\ Today \in Nat
  BY RatesAssumption, TodayIsNat DEF TypeOK, ExtractionAmount
<1>2. weekly' \in [pnl : Int, extracted_on : Nat \cup {Never}]
  BY <1>1 DEF TypeOK, CompleteCycle, AfterExtraction
<1>3. extracted' \in Int
  BY <1>1 DEF TypeOK, CompleteCycle
<1> QED
  BY <1>2, <1>3, ResetIfNewDayType DEF TypeOK, CompleteCycle, Locations, Stages

LEMMA StepTypeOK == TypeOK /\ [Next]_vars => TypeOK'
<1> SUFFICES ASSUME TypeOK, [Next]_vars PROVE TypeOK'
  OBVIOUS
<1>1. ASSUME NEW pnl \in PnLs, TradeCloses(pnl) PROVE TypeOK'
  <2>1. pending' \in Seq(Int) /\ pending' # <<>> /\ account' \in Int
    BY <1>1, MoneyAssumption DEF TypeOK, TradeCloses
  <2> QED BY <1>1, <2>1 DEF TypeOK, TradeCloses, resets
<1>2. CASE Tick
  BY <1>2, OlderType DEF TypeOK, Tick, money, resets
<1>3. CASE SyncAccount
  BY <1>3, MoneyAssumption
  DEF TypeOK, SyncAccount, PeakAfterSync, Higher, Locations, resets
<1>4. CASE CanTradeToday
  BY <1>4, ResetIfNewDayType DEF TypeOK, CanTradeToday, money, Locations
<1>5. CASE CheckCircuitBreaker
  BY <1>5, AfterCheckType DEF TypeOK, CheckCircuitBreaker, money, Locations, resets
<1>6. CASE ScalperChecksBreaker
  BY <1>6, AfterCheckType DEF TypeOK, ScalperChecksBreaker, money, resets
<1>7. CASE RecordTradeResult
  BY <1>7, RecordTypeOK
<1>8. CASE CompleteCycle
  BY <1>8, ExtractionTypeOK
<1>9. CASE LeaveCycle
  BY <1>9 DEF TypeOK, LeaveCycle, money, Locations, resets
<1>10. CASE ApiSeesNewDay
  BY <1>10, TodayIsNat DEF TypeOK, ApiSeesNewDay, money, resets
<1>11. CASE ApiResets
  <2>1. api \in Nat
    BY <1>11 DEF TypeOK, ApiResets
  <2> QED BY <1>11, <2>1, ResetType DEF TypeOK, ApiResets, money
<1>12. CASE UNCHANGED vars
  BY <1>12 DEF TypeOK, vars, resets
<1> QED
  BY <1>1, <1>2, <1>3, <1>4, <1>5, <1>6, <1>7, <1>8, <1>9, <1>10, <1>11,
     <1>12 DEF Next

(* Every attribute of RiskManager keeps its type, for any account, results,*)
(* rates and calendar.                                                     *)
THEOREM TypeCorrect == Spec => []TypeOK
  BY InitTypeOK, StepTypeOK, PTL DEF Spec

----------------------------------------------------------------------------
(* The breaker.  Every step moves cb by one of the operators of Breaker.   *)

BreakerStep ==
    \/ cb' = cb
    \/ cb' = Older(cb)
    \/ cb' = AfterCheck(cb)
    \/ cb' = AfterLoss(cb)
    \/ cb' = AfterWin(cb)

LEMMA EveryStepIsABreakerStep == ASSUME [Next]_vars PROVE BreakerStep
<1>1. CASE RecordTradeResult
  BY <1>1 DEF RecordTradeResult, RecordCredits, RecordLogs, RecordCounts,
     RecordJudges, AfterResult, BreakerStep
<1>2. CASE UNCHANGED vars
  BY <1>2 DEF vars, BreakerStep
<1>3. CASE Next /\ ~RecordTradeResult
  BY <1>3 DEF Next, BreakerStep, TradeCloses, Tick, SyncAccount, CanTradeToday,
     CheckCircuitBreaker, ScalperChecksBreaker, CompleteCycle, LeaveCycle,
     ApiSeesNewDay, ApiResets
<1> QED BY <1>1, <1>2, <1>3

LEMMA StepClosedBelowLimit ==
  ASSUME TypeOK, ClosedBelowLimit, BreakerStep
  PROVE  ClosedBelowLimit'
<1>1. cb \in Breakers
  BY DEF TypeOK
<1>2. CASE cb' = AfterLoss(cb)
  <2>1. CASE cb.losses + 1 >= LossLimit
    BY <1>1, <1>2, <2>1 DEF AfterLoss, Breakers, ClosedBelowLimit
  <2>2. CASE ~(cb.losses + 1 >= LossLimit)
    BY <1>1, <1>2, <2>2, LossLimitAssumption
    DEF AfterLoss, Breakers, ClosedBelowLimit
  <2> QED BY <2>1, <2>2
<1>3. CASE cb' = AfterWin(cb)
  <2>1. cb'.losses = 0
    BY <1>1, <1>3 DEF AfterWin, Breakers
  <2> QED BY <2>1, LossLimitAssumption DEF ClosedBelowLimit
<1>4. CASE cb' = AfterCheck(cb)
  BY <1>1, <1>4 DEF AfterCheck, Breakers, ClosedBelowLimit
<1>5. CASE cb' = Older(cb) \/ cb' = cb
  BY <1>1, <1>5 DEF Older, Breakers, ClosedBelowLimit
<1> QED BY <1>2, <1>3, <1>4, <1>5 DEF BreakerStep

(* No closed breaker hides a run of losses at the limit, for any limit,    *)
(* cooldown and number of recoveries (record_trade_result).                *)
THEOREM ClosedIsBelowLimit == Spec => []ClosedBelowLimit
<1>1. Init => ClosedBelowLimit
  BY LossLimitAssumption DEF Init, InitialBreaker, ClosedBelowLimit
<1>2. TypeOK /\ ClosedBelowLimit /\ [Next]_vars => ClosedBelowLimit'
  BY EveryStepIsABreakerStep, StepClosedBelowLimit
<1> QED BY <1>1, <1>2, TypeCorrect, PTL DEF Spec

----------------------------------------------------------------------------
(* RiskManager implements the contract of a breaker.                       *)

LEMMA BreakerStepImplements ==
  ASSUME TypeOK, BreakerStep
  PROVE  [Contract!Next]_(Contract!vars)
<1>1. cb \in Breakers /\ Cooldown \in Nat /\ Cooldown > 0
  BY CooldownAssumption DEF TypeOK
<1>2. CASE cb' = AfterLoss(cb)
  <2>1. CASE cb.losses + 1 >= LossLimit
    <3>1. /\ cb'.losses = cb.losses + 1 /\ cb'.state = "OPEN" /\ cb'.age = 0
      BY <1>1, <1>2, <2>1 DEF AfterLoss, Breakers
    <3> QED BY <1>1, <2>1, <3>1 DEF Contract!Next, Contract!Loss
  <2>2. CASE ~(cb.losses + 1 >= LossLimit)
    <3>1. /\ cb'.losses = cb.losses + 1
          /\ cb'.state = cb.state /\ cb'.age = cb.age
      BY <1>1, <1>2, <2>2 DEF AfterLoss, Breakers
    <3> QED BY <2>2, <3>1 DEF Contract!Next, Contract!Loss
  <2> QED BY <2>1, <2>2
<1>3. CASE cb' = AfterWin(cb)
  <2>1. /\ cb'.losses = 0 /\ cb'.age = cb.age
        /\ \/ cb'.state = cb.state
           \/ cb.state = "HALF_OPEN" /\ cb'.state = "CLOSED"
    BY <1>1, <1>3 DEF AfterWin, Breakers
  <2> QED BY <2>1 DEF Contract!Next, Contract!Win
<1>4. CASE cb' = AfterCheck(cb)
  <2>1. CASE cb.state = "OPEN" /\ cb.age >= Cooldown
    <3>1. /\ cb'.state = "HALF_OPEN" /\ cb'.losses = cb.losses
          /\ cb'.age = cb.age
      BY <1>1, <1>4, <2>1 DEF AfterCheck, Breakers
    <3> QED BY <2>1, <3>1 DEF Contract!Next, Contract!Probe
  <2>2. CASE ~(cb.state = "OPEN" /\ cb.age >= Cooldown)
    BY <1>4, <2>2 DEF AfterCheck, Contract!vars
  <2> QED BY <2>1, <2>2
<1>5. CASE cb' = Older(cb)
  <2>1. /\ cb'.state = cb.state /\ cb'.losses = cb.losses
        /\ cb'.age = IF cb.age < Cooldown THEN cb.age + 1 ELSE cb.age
    BY <1>1, <1>5 DEF Older, Breakers
  <2>2. CASE cb'.age >= Cooldown
    BY <2>1, <2>2 DEF Contract!Next, Contract!CoolDown
  <2>3. CASE ~(cb'.age >= Cooldown)
    <3>1. ~(cb.age >= Cooldown)
      BY <1>1, <2>1, <2>3 DEF Breakers
    <3> QED BY <2>1, <2>3, <3>1 DEF Contract!vars
  <2> QED BY <2>2, <2>3
<1>6. CASE cb' = cb
  BY <1>6 DEF Contract!vars
<1> QED BY <1>2, <1>3, <1>4, <1>5, <1>6 DEF BreakerStep

(* Whatever is recorded, asked and waited for, in whatever order, the      *)
(* breaker of RiskManager behaves as BreakerContract says a breaker does.  *)
THEOREM BreakerImplementsContract == Spec => ImplementsContract
<1>1. Init => Contract!Init
  BY CooldownAssumption DEF Init, InitialBreaker, Contract!Init
<1>2. TypeOK /\ [Next]_vars => [Contract!Next]_(Contract!vars)
  BY EveryStepIsABreakerStep, BreakerStepImplements
<1> QED
  BY <1>1, <1>2, TypeCorrect, PTL DEF Spec, ImplementsContract, Contract!Spec

----------------------------------------------------------------------------
(* The peak and the drawdown.                                              *)

LEMMA HigherBounds ==
  ASSUME NEW a \in Int, NEW b \in Int
  PROVE  Higher(a, b) \in Int /\ a <= Higher(a, b) /\ b <= Higher(a, b)
  BY DEF Higher

(* How a step moves balance and peak: the peak never falls, and never      *)
(* stays below a balance that moved.                                       *)
LEMMA PeakSteps ==
  ASSUME TypeOK, [Next]_vars
  PROVE  \/ balance' = balance /\ peak' = peak
         \/ peak <= peak' /\ balance' <= peak'
<1>1. CASE SyncAccount
  <2>1. CASE UNCHANGED <<balance, peak>>
    BY <2>1
  <2>2. ASSUME NEW floating \in Floating, balance' = account,
               peak' = PeakAfterSync(floating)
        PROVE  peak <= peak' /\ balance' <= peak'
    <3>1. peak \in Int /\ account \in Int /\ account + floating \in Int
      BY <2>2, MoneyAssumption DEF TypeOK
    <3>2. /\ Higher(peak, account) \in Int
          /\ peak <= Higher(peak, account) /\ account <= Higher(peak, account)
      BY <3>1, HigherBounds
    <3>3. peak' \in Int /\ Higher(peak, account) <= peak'
      BY <2>2, <3>1, <3>2, HigherBounds DEF PeakAfterSync
    <3> QED BY <2>2, <3>1, <3>2, <3>3
  <2> QED BY <1>1, <2>1, <2>2 DEF SyncAccount
<1>2. CASE RecordCredits
  <2>1. Head(pending) \in Int
    BY <1>2 DEF TypeOK, RecordCredits
  <2>2. /\ balance' = balance + Head(pending)
        /\ peak' = Higher(peak, balance + Head(pending))
    BY <1>2 DEF RecordCredits
  <2>3. peak \in Int /\ balance + Head(pending) \in Int
    BY <2>1 DEF TypeOK
  <2> QED BY <2>2, <2>3, HigherBounds
<1>3. CASE UNCHANGED vars
  BY <1>3 DEF vars
<1>4. CASE Next /\ ~SyncAccount /\ ~RecordCredits
  BY <1>4 DEF Next, TradeCloses, Tick, CanTradeToday, CheckCircuitBreaker,
     ScalperChecksBreaker, RecordTradeResult, RecordLogs, RecordCounts, RecordJudges, CompleteCycle, LeaveCycle, ApiSeesNewDay, ApiResets,
     money
<1> QED BY <1>1, <1>2, <1>3, <1>4

(* The drawdown is never negative, for any account and any results.        *)
THEOREM DrawdownIsNeverNegative == Spec => []PeakDominates
<1>1. Init => PeakDominates
  BY MoneyAssumption DEF Init, PeakDominates
<1>2. TypeOK /\ PeakDominates /\ [Next]_vars => PeakDominates'
  BY PeakSteps DEF PeakDominates
<1> QED BY <1>1, <1>2, TypeCorrect, PTL DEF Spec

(* Raising the peak by d raises the pause level by no more than d.         *)
LEMMA PauseSurvives ==
  ASSUME NEW p \in Int, NEW q \in Int, NEW b \in Int, NEW c \in Int,
         p <= q, c <= b, AtPauseLevel(p, b)
  PROVE  AtPauseLevel(q, c)
<1> DEFINE d == q - p
<1>1. d \in Nat /\ q = p + d /\ PausePerMille \in 0 .. 1000
  BY RatesAssumption
<1>2. PausePerMille * d <= 1000 * d
  BY <1>1
<1>3. PausePerMille * q = PausePerMille * p + PausePerMille * d
  BY <1>1
<1>4. 1000 * (q - c) >= 1000 * (p - b) + 1000 * d
  BY <1>1
<1>5. PausePerMille * p \in Int /\ PausePerMille * d \in Int /\ PausePerMille * q \in Int
  BY <1>1
<1>6. 1000 * (q - c) \in Int /\ 1000 * (p - b) \in Int /\ 1000 * d \in Int
  BY <1>1
<1>7. ASSUME NEW k \in Int, NEW l \in Int, NEW m \in Int, NEW n \in Int,
             NEW x \in Int, NEW y \in Int,
             k >= l + m, l >= n, x <= m, y = n + x
      PROVE  k >= y
  BY <1>7
<1>8. 1000 * (p - b) >= PausePerMille * p
  BY DEF AtPauseLevel
<1> HIDE DEF d
<1> QED BY <1>2, <1>3, <1>4, <1>5, <1>6, <1>7, <1>8 DEF AtPauseLevel

LEMMA StepPauseLifts ==
  ASSUME TypeOK, TypeOK', [Next]_vars, DrawdownPaused, ~DrawdownPaused'
  PROVE  balance' > balance
<1> SUFFICES ASSUME ~(balance' > balance) PROVE FALSE
  OBVIOUS
<1>1. /\ peak \in Int /\ peak' \in Int /\ balance \in Int /\ balance' \in Int
  BY DEF TypeOK
<1>2. peak <= peak' /\ balance' <= balance
  BY <1>1, PeakSteps
<1>3. peak > 0 /\ AtPauseLevel(peak, balance)
  BY DEF DrawdownPaused
<1>4. AtPauseLevel(peak', balance')
  BY <1>1, <1>2, <1>3, PauseSurvives
<1>5. peak' > 0
  BY <1>1, <1>2, <1>3
<1> QED BY <1>4, <1>5 DEF DrawdownPaused

(* Nothing but a rising balance lifts a drawdown pause, for any pause      *)
(* level up to the whole account.                                          *)
THEOREM PauseIsLiftedByRecovery == Spec => PauseLiftsByRecovery
<1>1. TypeOK /\ TypeOK' /\ [Next]_vars
        => [DrawdownPaused /\ ~DrawdownPaused' => balance' > balance]_vars
  BY StepPauseLifts
<1> QED BY <1>1, TypeCorrect, PTL DEF Spec, PauseLiftsByRecovery

----------------------------------------------------------------------------
(* The daily limits.                                                       *)

LEMMA StepLimitsLatch ==
  ASSUME TypeOK, [Next]_vars, ~TradingAllowed(daily), TradingAllowed(daily'),
         api = Never
  PROVE  Today # daily.date
<1>1. CASE RecordTradeResult
  <2>1. CASE RecordCounts
    BY <2>1 DEF RecordCounts, TradingAllowed, WithTrade, TypeOK, DailyCounters
  <2>2. CASE RecordJudges
    <3>1. ASSUME NEW d \in DailyCounters, ~TradingAllowed(d)
          PROVE  ~TradingAllowed(WithLimitsChecked(d))
      BY <3>1 DEF TradingAllowed, WithLimitsChecked, DailyCounters
    <3> QED BY <2>2, <3>1 DEF RecordJudges, TypeOK
  <2>3. CASE RecordCredits \/ RecordLogs
    BY <2>3 DEF RecordCredits, RecordLogs
  <2> QED BY <1>1, <2>1, <2>2, <2>3 DEF RecordTradeResult
<1>2. CASE CanTradeToday \/ CompleteCycle
  BY <1>2 DEF CanTradeToday, CompleteCycle, ResetIfNewDay
<1>3. CASE ApiResets
  BY <1>3 DEF ApiResets
<1>4. CASE UNCHANGED vars
  BY <1>4 DEF vars
<1>5. CASE /\ Next
           /\ ~RecordTradeResult /\ ~CanTradeToday /\ ~CompleteCycle
           /\ ~ApiResets
  BY <1>5 DEF Next, TradeCloses, Tick, SyncAccount, CheckCircuitBreaker,
     ScalperChecksBreaker, LeaveCycle, ApiSeesNewDay
<1> QED BY <1>1, <1>2, <1>3, <1>4, <1>5

(* A daily limit that is hit stays hit for the rest of the day, unless an  *)
(* API thread is inside reset_daily_counters.                              *)
THEOREM DailyLimitsLatch == Spec => LimitsLatch
<1>1. TypeOK /\ [Next]_vars
        => [/\ ~TradingAllowed(daily)
            /\ TradingAllowed(daily')
            /\ api = Never
            => Today # daily.date]_vars
  BY StepLimitsLatch
<1> QED BY <1>1, TypeCorrect, PTL DEF Spec, LimitsLatch

----------------------------------------------------------------------------
(* Adding up a log.  The induction theorems of the library take a          *)
(* predicate; here a set takes its place, and that every set of natural    *)
(* numbers has a least element comes from the well-foundedness of <.       *)

LEMMA LeastNatural ==
  ASSUME NEW T \in SUBSET Nat, T # {}
  PROVE  \E x \in T : \A y \in T : x <= y
<1>1. PICK x \in T : \A y \in T : ~(<<y, x>> \in OpToRel(<, Nat))
  BY NatLessThanWellFounded, WFMin
<1>2. \A y \in T : <<y, x>> \in OpToRel(<, Nat) <=> y < x
  BY DEF OpToRel
<1>3. ASSUME NEW y \in T PROVE x <= y
  <2>1. ~(y < x) BY <1>1, <1>2
  <2>2. x \in Nat /\ y \in Nat OBVIOUS
  <2> QED BY <2>1, <2>2
<1> QED BY <1>3

LEMMA SetInduction ==
  ASSUME NEW S, 0 \in S, \A n \in Nat : n \in S => n + 1 \in S
  PROVE  Nat \subseteq S
<1> SUFFICES ASSUME Nat \ S # {} PROVE FALSE
  OBVIOUS
<1>1. PICK x \in Nat \ S : \A y \in Nat \ S : x <= y
  BY LeastNatural
<1>2. x # 0
  BY <1>1
<1>3. x - 1 \in Nat /\ x - 1 \in S
  BY <1>1, <1>2
<1> QED BY <1>1, <1>3

Adds(f, log, n) ==
    /\ f \in [0 .. n -> Int]
    /\ f[0] = 0
    /\ \A k \in 1 .. n : f[k] = f[k - 1] + log[k]

LEMMA AddsExists ==
  ASSUME NEW log \in Seq(Int), NEW n \in 0 .. Len(log)
  PROVE  \E f : Adds(f, log, n)
<1> DEFINE S == {m \in Nat : m <= Len(log) => \E f : Adds(f, log, m)}
<1>1. 0 \in S
  <2>1. Adds([k \in 0 .. 0 |-> 0], log, 0)
    BY DEF Adds
  <2> QED BY <2>1
<1>2. ASSUME NEW m \in Nat, m \in S PROVE m + 1 \in S
  <2> SUFFICES ASSUME m + 1 <= Len(log) PROVE \E f : Adds(f, log, m + 1)
    OBVIOUS
  <2>1. PICK f : Adds(f, log, m)
    BY <1>2
  <2> DEFINE g == [k \in 0 .. m + 1 |-> IF k <= m THEN f[k] ELSE f[m] + log[m + 1]]
  <2>2. m + 1 \in 1 .. Len(log) /\ log[m + 1] \in Int
    OBVIOUS
  <2>3. f \in [0 .. m -> Int] /\ f[m] \in Int
    BY <2>1 DEF Adds
  <2>4. g \in [0 .. m + 1 -> Int]
    BY <2>2, <2>3
  <2>5. g[0] = 0
    BY <2>1 DEF Adds
  <2>6. ASSUME NEW k \in 1 .. m + 1 PROVE g[k] = g[k - 1] + log[k]
    <3>1. CASE k <= m
      BY <2>1, <3>1 DEF Adds
    <3>2. CASE k = m + 1
      BY <3>2
    <3> QED BY <3>1, <3>2
  <2>7. Adds(g, log, m + 1)
    BY <2>4, <2>5, <2>6 DEF Adds
  <2> QED BY <2>7
<1>3. Nat \subseteq S
  BY <1>1, <1>2, SetInduction
<1>4. n \in S
  BY <1>3
<1> QED BY <1>4

LEMMA RunningTotalAdds ==
  ASSUME NEW log \in Seq(Int)
  PROVE  Adds(RunningTotal(log), log, Len(log))
<1> DEFINE R(f) == f = [n \in 0 .. Len(log) |-> IF n = 0 THEN 0 ELSE f[n - 1] + log[n]]
<1>1. PICK f : Adds(f, log, Len(log))
  BY AddsExists
<1>2. R(f)
  <2>1. \A n \in 0 .. Len(log) : f[n] = IF n = 0 THEN 0 ELSE f[n - 1] + log[n]
    BY <1>1 DEF Adds
  <2> QED BY <1>1, <2>1 DEF Adds
<1>3. RunningTotal(log) = CHOOSE g : R(g)
  BY DEF RunningTotal
<1>4. R(RunningTotal(log))
  <2> HIDE DEF R
  <2> QED BY <1>2, <1>3
<1> DEFINE t == RunningTotal(log)
           S == {m \in Nat : m <= Len(log) => t[m] \in Int}
<1> HIDE DEF t
<1>5. t[0] = 0 /\ \A k \in 1 .. Len(log) : t[k] = t[k - 1] + log[k]
  <2>1. t = [n \in 0 .. Len(log) |-> IF n = 0 THEN 0 ELSE t[n - 1] + log[n]]
    BY <1>4 DEF t
  <2>2. \A n \in 0 .. Len(log) : t[n] = IF n = 0 THEN 0 ELSE t[n - 1] + log[n]
    BY <2>1
  <2>3. Len(log) \in Nat
    OBVIOUS
  <2> QED BY <2>2, <2>3
<1>6. Nat \subseteq S
  <2>1. 0 \in S
    BY <1>5
  <2>2. ASSUME NEW m \in Nat, m \in S PROVE m + 1 \in S
    <3> SUFFICES ASSUME m + 1 <= Len(log) PROVE t[m + 1] \in Int
      OBVIOUS
    <3>1. m + 1 \in 1 .. Len(log) /\ (m + 1) - 1 = m
      OBVIOUS
    <3>2. t[m + 1] = t[(m + 1) - 1] + log[m + 1]
      BY <1>5, <3>1
    <3>3. t[m] \in Int /\ log[m + 1] \in Int
      BY <2>2, <3>1
    <3> QED BY <3>1, <3>2, <3>3
  <2> QED BY <2>1, <2>2, SetInduction
<1>7. t \in [0 .. Len(log) -> Int]
  <2>1. t = [n \in 0 .. Len(log) |-> IF n = 0 THEN 0 ELSE t[n - 1] + log[n]]
    BY <1>4 DEF t
  <2>2. \A n \in 0 .. Len(log) : t[n] \in Int
    BY <1>6
  <2>3. t = [n \in 0 .. Len(log) |-> t[n]]
    BY <2>1
  <2> HIDE DEF S
  <2> QED BY <2>2, <2>3
<1> QED BY <1>5, <1>7 DEF Adds, t

(* What adds a log up is determined by it.                                 *)
LEMMA AddsUnique ==
  ASSUME NEW log, NEW m \in Nat, NEW n \in Nat, m <= n, NEW f, NEW g,
         Adds(f, log, m), Adds(g, log, n)
  PROVE  \A k \in 0 .. m : f[k] = g[k]
<1> DEFINE S == {k \in Nat : k <= m => f[k] = g[k]}
<1>1. 0 \in S
  BY DEF Adds
<1>2. ASSUME NEW k \in Nat, k \in S PROVE k + 1 \in S
  BY <1>2 DEF Adds
<1>3. Nat \subseteq S
  BY <1>1, <1>2, SetInduction
<1> QED BY <1>3

(* Appending to a log leaves the totals of its prefixes alone.             *)
LEMMA RunningTotalAppend ==
  ASSUME NEW log \in Seq(Int), NEW p \in Int
  PROVE  /\ \A k \in 0 .. Len(log) :
                RunningTotal(Append(log, p))[k] = RunningTotal(log)[k]
         /\ RunningTotal(Append(log, p))[Len(log) + 1]
                = RunningTotal(log)[Len(log)] + p
<1> DEFINE longer == Append(log, p)
<1>1. longer \in Seq(Int) /\ Len(longer) = Len(log) + 1 /\ Len(log) \in Nat
  OBVIOUS
<1>2. longer[Len(log) + 1] = p /\ \A k \in 1 .. Len(log) : longer[k] = log[k]
  OBVIOUS
<1>3. Adds(RunningTotal(longer), longer, Len(log) + 1)
  BY <1>1, RunningTotalAdds
<1>4. Adds(RunningTotal(log), log, Len(log))
  BY RunningTotalAdds
<1> HIDE DEF longer
<1>5. Adds(RunningTotal(log), longer, Len(log))
  BY <1>2, <1>4 DEF Adds
<1>6. \A k \in 0 .. Len(log) : RunningTotal(log)[k] = RunningTotal(longer)[k]
  BY <1>1, <1>3, <1>5, AddsUnique
<1>7. RunningTotal(longer)[Len(log) + 1] = RunningTotal(longer)[Len(log)] + p
  <2> DEFINE t == RunningTotal(longer)
             n == Len(log)
  <2>1. \A k \in 1 .. n + 1 : t[k] = t[k - 1] + longer[k]
    BY <1>3 DEF Adds
  <2>2. n + 1 \in 1 .. n + 1 /\ (n + 1) - 1 = n
    BY <1>1
  <2> HIDE DEF t
  <2>3. t[n + 1] = t[(n + 1) - 1] + longer[n + 1]
    BY <2>1, <2>2
  <2> QED BY <1>2, <2>2, <2>3 DEF t
<1> QED BY <1>1, <1>6, <1>7 DEF longer

(* The totals of a log are integers and start with zero.                   *)
LEMMA RunningTotalType ==
  ASSUME NEW log \in Seq(Int)
  PROVE  /\ RunningTotal(log) \in [0 .. Len(log) -> Int]
         /\ RunningTotal(log)[0] = 0
  BY RunningTotalAdds DEF Adds

(* The last entry is what the totals of the log and of all but it differ   *)
(* by.                                                                     *)
LEMMA RunningTotalLast ==
  ASSUME NEW log \in Seq(Int), NEW n \in Nat, n + 1 = Len(log)
  PROVE  RunningTotal(log)[n + 1] = RunningTotal(log)[n] + log[n + 1]
<1>1. \A k \in 1 .. Len(log) :
          RunningTotal(log)[k] = RunningTotal(log)[k - 1] + log[k]
  BY RunningTotalAdds DEF Adds
<1>2. n + 1 \in 1 .. Len(log) /\ (n + 1) - 1 = n
  OBVIOUS
<1>3. RunningTotal(log)[n + 1] = RunningTotal(log)[(n + 1) - 1] + log[n + 1]
  BY <1>1, <1>2
<1> QED BY <1>2, <1>3

----------------------------------------------------------------------------
(* The ledgers.                                                            *)

(* The one result the log and the counters may differ by is its last.      *)
LastIsRecorded ==
    recording = "logged" => /\ trade_log # <<>>
                            /\ trade_log[Len(trade_log)] = Head(pending)

(* The entries counted, and those counted before the day, are of the log.  *)
Ledgers ==
    /\ TypeOK
    /\ LastIsRecorded
    /\ LedgersAgree
    /\ Counted \in 0 .. Len(trade_log)
    /\ CountedBefore \in 0 .. Counted

LEMMA InitLedgers == ASSUME Init PROVE Ledgers
<1>1. trade_log = <<>> /\ <<>> \in Seq(Int) /\ Len(<<>>) = 0
  BY DEF Init
<1>2. RunningTotal(trade_log)[0] = 0
  BY <1>1, RunningTotalType
<1>3. Counted = 0 /\ CountedBefore = 0
  BY <1>1 DEF Init, Counted, CountedBefore
<1> QED
  BY <1>1, <1>2, <1>3, InitTypeOK
  DEF Init, Ledgers, LastIsRecorded, LedgersAgree, NewDailyCounters

(* What the ledgers are made of.                                           *)
LEMMA LedgerTypes ==
  ASSUME Ledgers
  PROVE  /\ trade_log \in Seq(Int) /\ Len(trade_log) \in Nat
         /\ Counted \in Nat /\ CountedBefore \in Nat
         /\ RunningTotal(trade_log)[Counted] \in Int
         /\ RunningTotal(trade_log)[CountedBefore] \in Int
         /\ daily \in DailyCounters /\ weekly \in WeeklyLedgers
         /\ weekly.pnl \in Int /\ extracted \in Int
<1>1. trade_log \in Seq(Int) /\ Len(trade_log) \in Nat
  BY DEF Ledgers, TypeOK
<1>2. Counted \in 0 .. Len(trade_log) /\ CountedBefore \in 0 .. Len(trade_log)
  BY <1>1 DEF Ledgers
<1>3. /\ RunningTotal(trade_log)[Counted] \in Int
      /\ RunningTotal(trade_log)[CountedBefore] \in Int
  <2> DEFINE t == RunningTotal(trade_log)
  <2>1. t \in [0 .. Len(trade_log) -> Int]
    BY <1>1, RunningTotalType
  <2> HIDE DEF t
  <2>2. \A k \in 0 .. Len(trade_log) : t[k] \in Int
    BY <2>1
  <2>3. t[Counted] \in Int /\ t[CountedBefore] \in Int
    BY <1>2, <2>2
  <2> QED BY <2>3 DEF t
<1>4. Counted \in Nat /\ CountedBefore \in Nat
  BY <1>2
<1>5. /\ daily \in DailyCounters /\ weekly \in WeeklyLedgers
      /\ weekly.pnl \in Int /\ extracted \in Int
  BY DEF Ledgers, TypeOK, WeeklyLedgers
<1> QED BY <1>1, <1>3, <1>4, <1>5

(* A reset starts the day's ledger with what is not counted yet.           *)
LEMMA ResetLedgers ==
  ASSUME Ledgers, NEW date, ResetDaily(date), UNCHANGED <<trade_log, recording>>,
         weekly'.pnl + extracted' = weekly.pnl + extracted,
         weekly'.pnl \in Int, extracted' \in Int
  PROVE  /\ LedgersAgree' /\ Counted' \in 0 .. Len(trade_log')
         /\ CountedBefore' \in 0 .. Counted'
<1> DEFINE before == RunningTotal(trade_log)[Counted]
<1>1. /\ Counted' = Counted /\ CountedBefore' = Counted
      /\ trade_log' = trade_log
  BY DEF ResetDaily, Counted, CountedBefore
<1>2. /\ Counted \in Nat /\ before \in Int /\ weekly.pnl \in Int
      /\ extracted \in Int
  BY LedgerTypes
<1>3. Counted' \in 0 .. Len(trade_log') /\ CountedBefore' \in 0 .. Counted'
  BY <1>1, <1>2 DEF Ledgers
<1>4. daily'.pnl = 0 /\ daily'.trades = 0
  BY DEF ResetDaily, NewDailyCounters
<1>5. weekly.pnl = before - extracted
  BY DEF Ledgers, LedgersAgree
<1>6. LedgersAgree' <=> /\ daily'.pnl = before - before
                        /\ daily'.trades = Counted - Counted
                        /\ weekly'.pnl = before - extracted'
  BY <1>1 DEF LedgersAgree
<1> HIDE DEF before
<1>7. before - before = 0 /\ Counted - Counted = 0
  BY <1>2
<1>8. weekly'.pnl = before - extracted'
  BY <1>2, <1>5
<1> QED BY <1>3, <1>4, <1>6, <1>7, <1>8

LEMMA ResetIfNewDayLedgers ==
  ASSUME Ledgers, ResetIfNewDay, UNCHANGED <<trade_log, recording>>,
         weekly'.pnl + extracted' = weekly.pnl + extracted,
         weekly'.pnl \in Int, extracted' \in Int
  PROVE  /\ LedgersAgree' /\ Counted' \in 0 .. Len(trade_log')
         /\ CountedBefore' \in 0 .. Counted'
<1>1. CASE daily.date # Today
  BY <1>1, ResetLedgers DEF ResetIfNewDay
<1>2. CASE daily.date = Today
  <2>1. /\ Counted' = Counted /\ CountedBefore' = CountedBefore
        /\ trade_log' = trade_log /\ daily' = daily
    BY <1>2 DEF ResetIfNewDay, resets, Counted, CountedBefore
  <2>2. /\ RunningTotal(trade_log)[Counted] \in Int /\ weekly.pnl \in Int
        /\ extracted \in Int
    BY LedgerTypes
  <2> DEFINE before == RunningTotal(trade_log)[Counted]
  <2>3. /\ daily.pnl = before - RunningTotal(trade_log)[CountedBefore]
        /\ daily.trades = Counted - CountedBefore /\ weekly.pnl = before - extracted
    BY DEF Ledgers, LedgersAgree
  <2>4. LedgersAgree' <=>
            /\ daily.pnl = before - RunningTotal(trade_log)[CountedBefore]
            /\ daily.trades = Counted - CountedBefore
            /\ weekly'.pnl = before - extracted'
    BY <2>1 DEF LedgersAgree
  <2> HIDE DEF before
  <2>5. before \in Int
    BY <2>2 DEF before
  <2>6. weekly'.pnl = before - extracted'
    BY <2>2, <2>3, <2>5
  <2>7. LedgersAgree'
    BY <2>3, <2>4, <2>6
  <2> QED BY <2>1, <2>7 DEF Ledgers
<1> QED BY <1>1, <1>2

(* A result that is only logged is in none of the ledgers.                 *)
LEMMA LoggedLedgers ==
  ASSUME Ledgers, RecordLogs
  PROVE  /\ LedgersAgree' /\ Counted' \in 0 .. Len(trade_log')
         /\ CountedBefore' \in 0 .. Counted'
<1>1. /\ Head(pending) \in Int /\ trade_log' = Append(trade_log, Head(pending))
      /\ recording = "credited" /\ recording' = "logged"
      /\ UNCHANGED <<daily, weekly, resetAt, straddled, extracted>>
  BY DEF Ledgers, TypeOK, RecordLogs, resets
<1>2. /\ trade_log \in Seq(Int) /\ Len(trade_log) \in Nat
      /\ Len(trade_log') = Len(trade_log) + 1
  BY <1>1, LedgerTypes
<1>3. Counted = Len(trade_log) /\ Counted' = Counted
  BY <1>1, <1>2 DEF Counted
<1>4. CountedBefore' = CountedBefore /\ CountedBefore \in 0 .. Len(trade_log)
  BY <1>1, <1>3 DEF CountedBefore, Ledgers
<1>5. \A k \in 0 .. Len(trade_log) :
          RunningTotal(trade_log')[k] = RunningTotal(trade_log)[k]
  BY <1>1, <1>2, RunningTotalAppend
<1>6. /\ RunningTotal(trade_log')[Counted'] = RunningTotal(trade_log)[Counted]
      /\ RunningTotal(trade_log')[CountedBefore'] = RunningTotal(trade_log)[CountedBefore]
  BY <1>2, <1>3, <1>4, <1>5
<1>7. LedgersAgree'
  BY <1>1, <1>3, <1>4, <1>6 DEF Ledgers, LedgersAgree
<1> QED BY <1>2, <1>3, <1>4, <1>7 DEF Ledgers

(* Counted, it enters all three.                                           *)
LEMMA CountedLedgers ==
  ASSUME Ledgers, RecordCounts
  PROVE  /\ LedgersAgree' /\ Counted' \in 0 .. Len(trade_log')
         /\ CountedBefore' \in 0 .. Counted'
<1> DEFINE pnl == Head(pending)
           start == RunningTotal(trade_log)[CountedBefore]
           before == RunningTotal(trade_log)[Counted]
           after == RunningTotal(trade_log)[Counted + 1]
<1>1. /\ recording = "logged" /\ recording' = "counted"
      /\ daily' = WithTrade(daily, pnl) /\ weekly' = [weekly EXCEPT !.pnl = @ + pnl]
      /\ UNCHANGED <<trade_log, resetAt, straddled, extracted>>
  BY DEF RecordCounts, resets
<1>2. /\ trade_log \in Seq(Int) /\ Len(trade_log) \in Nat /\ Counted \in Nat
      /\ CountedBefore \in Nat /\ before \in Int /\ start \in Int
      /\ daily \in DailyCounters /\ weekly \in WeeklyLedgers
      /\ weekly.pnl \in Int /\ extracted \in Int
  BY LedgerTypes
<1>3. trade_log[Len(trade_log)] = pnl /\ pnl \in Int
  BY <1>1, <1>2 DEF Ledgers, LastIsRecorded
<1>4. Counted + 1 = Len(trade_log)
  BY <1>1, <1>2 DEF Counted
<1>5. Counted' = Counted + 1 /\ CountedBefore' = CountedBefore
  BY <1>1, <1>4 DEF Counted, CountedBefore
<1>6. after = before + pnl
  BY <1>2, <1>3, <1>4, RunningTotalLast
<1>7. /\ daily'.pnl = daily.pnl + pnl /\ daily'.trades = daily.trades + 1
      /\ weekly'.pnl = weekly.pnl + pnl
  BY <1>1, <1>2, <1>3 DEF WithTrade, DailyCounters, WeeklyLedgers
<1>8. /\ daily.pnl = before - start /\ daily.trades = Counted - CountedBefore
      /\ weekly.pnl = before - extracted
  BY DEF Ledgers, LedgersAgree
<1>9. LedgersAgree' <=> /\ daily'.pnl = after - start
                        /\ daily'.trades = (Counted + 1) - CountedBefore
                        /\ weekly'.pnl = after - extracted
  BY <1>1, <1>5 DEF LedgersAgree
<1>10. Counted' \in 0 .. Len(trade_log') /\ CountedBefore' \in 0 .. Counted'
  BY <1>1, <1>2, <1>4, <1>5 DEF Ledgers
<1> HIDE DEF start, before, after, pnl
<1>11. daily'.pnl = after - start
  BY <1>2, <1>3, <1>6, <1>7, <1>8
<1>12. daily'.trades = (Counted + 1) - CountedBefore
  BY <1>2, <1>7, <1>8
<1>13. weekly'.pnl = after - extracted
  BY <1>2, <1>3, <1>6, <1>7, <1>8
<1> QED BY <1>9, <1>10, <1>11, <1>12, <1>13

(* The limits and the streak leave them alone.                             *)
LEMMA JudgedLedgers ==
  ASSUME Ledgers, RecordJudges
  PROVE  /\ LedgersAgree' /\ Counted' \in 0 .. Len(trade_log')
         /\ CountedBefore' \in 0 .. Counted'
<1>1. /\ recording = "counted" /\ recording' = "nothing"
      /\ daily' = WithLimitsChecked(daily)
      /\ UNCHANGED <<trade_log, weekly, resetAt, straddled, extracted>>
  BY DEF RecordJudges, resets
<1>2. Counted' = Counted /\ CountedBefore' = CountedBefore
  BY <1>1 DEF Counted, CountedBefore
<1>3. daily'.pnl = daily.pnl /\ daily'.trades = daily.trades
  BY <1>1, LedgerTypes DEF WithLimitsChecked, DailyCounters
<1> QED BY <1>1, <1>2, <1>3 DEF Ledgers, LedgersAgree

LEMMA StepLastIsRecorded ==
  ASSUME Ledgers, [Next]_vars
  PROVE  LastIsRecorded'
<1>1. CASE RecordLogs
  <2>1. /\ trade_log \in Seq(Int) /\ Head(pending) \in Int
        /\ trade_log' = Append(trade_log, Head(pending)) /\ pending' = pending
    BY <1>1 DEF Ledgers, TypeOK, RecordLogs
  <2>2. /\ trade_log' # <<>>
        /\ trade_log'[Len(trade_log')] = Head(pending)
    BY <2>1
  <2> QED BY <2>1, <2>2 DEF LastIsRecorded
<1>2. ASSUME NEW pnl \in PnLs, TradeCloses(pnl) PROVE LastIsRecorded'
  <2>1. /\ pending' = Append(pending, pnl) /\ pending \in Seq(Int) /\ pnl \in Int
        /\ UNCHANGED <<trade_log, recording>>
    BY <1>2, MoneyAssumption DEF TradeCloses, Ledgers, TypeOK
  <2>2. pending # <<>> => Head(pending') = Head(pending)
    BY <2>1
  <2> QED BY <2>1, <2>2 DEF Ledgers, TypeOK, LastIsRecorded
<1>3. CASE UNCHANGED <<trade_log, recording, pending>>
  BY <1>3 DEF Ledgers, LastIsRecorded
<1>4. CASE recording' # "logged"
  BY <1>4 DEF LastIsRecorded
<1>5. CASE UNCHANGED vars
  BY <1>3, <1>5 DEF vars
<1>6. CASE Next /\ ~RecordLogs /\ ~(\E pnl \in PnLs : TradeCloses(pnl))
  BY <1>3, <1>4, <1>6 DEF Next, Tick, SyncAccount, CanTradeToday,
     CheckCircuitBreaker, ScalperChecksBreaker, RecordTradeResult, RecordCredits,
     RecordCounts, RecordJudges, CompleteCycle, LeaveCycle, ApiSeesNewDay,
     ApiResets, money
<1> QED BY <1>1, <1>2, <1>5, <1>6

LEMMA StepLedgers == ASSUME Ledgers, [Next]_vars PROVE Ledgers'
<1>1. TypeOK' /\ LastIsRecorded'
  BY StepTypeOK, StepLastIsRecorded DEF Ledgers
<1>2. CASE RecordTradeResult /\ ~RecordCredits
  BY <1>1, <1>2, LoggedLedgers, CountedLedgers, JudgedLedgers
  DEF RecordTradeResult, Ledgers
<1>3. CASE CompleteCycle
  <2>1. /\ weekly'.pnl + extracted' = weekly.pnl + extracted
        /\ weekly'.pnl \in Int /\ extracted' \in Int
    <3>1. ExtractionAmount \in Int /\ weekly.pnl \in Int /\ extracted \in Int
      BY RatesAssumption DEF Ledgers, TypeOK, ExtractionAmount
    <3> QED BY <1>3, <3>1 DEF CompleteCycle, AfterExtraction
  <2> QED BY <1>1, <1>3, <2>1, ResetIfNewDayLedgers DEF CompleteCycle, Ledgers
<1>4. CASE CanTradeToday
  <2>1. weekly.pnl \in Int /\ extracted \in Int
    BY DEF Ledgers, TypeOK
  <2> QED BY <1>1, <1>4, <2>1, ResetIfNewDayLedgers DEF CanTradeToday, money, Ledgers
<1>5. CASE ApiResets
  <2>1. weekly.pnl \in Int /\ extracted \in Int
    BY DEF Ledgers, TypeOK
  <2> QED BY <1>1, <1>5, <2>1, ResetLedgers DEF ApiResets, money, Ledgers
<1>6. CASE /\ UNCHANGED <<daily, weekly, trade_log, resetAt, straddled, extracted>>
           /\ recording' = recording \/ {recording, recording'} = {"nothing", "credited"}
  <2>1. Counted' = Counted /\ CountedBefore' = CountedBefore
    BY <1>6 DEF Counted, CountedBefore
  <2> QED BY <1>1, <1>6, <2>1 DEF Ledgers, LedgersAgree
<1>7. CASE UNCHANGED vars
  BY <1>6, <1>7 DEF vars, resets
<1>8. CASE /\ Next
           /\ ~(RecordTradeResult /\ ~RecordCredits) /\ ~CompleteCycle
           /\ ~CanTradeToday /\ ~ApiResets
  BY <1>6, <1>8 DEF Next, TradeCloses, Tick, SyncAccount, CheckCircuitBreaker,
     ScalperChecksBreaker, RecordTradeResult, RecordCredits, LeaveCycle,
     ApiSeesNewDay, money, resets
<1> QED BY <1>2, <1>3, <1>4, <1>5, <1>7, <1>8

LEMMA LedgersInvariant == Spec => []Ledgers
  BY InitLedgers, StepLedgers, PTL DEF Spec

(* The day's, the week's and the program's whole profit are one and the    *)
(* same log seen from different starts, for any results, rates, calendar   *)
(* and resets by the two threads, wherever record_trade_result is: only    *)
(* the one result it has logged and not counted is ever on the other side. *)
THEOREM LedgersAlwaysAgree == Spec => []LedgersAgree
<1>1. Ledgers => LedgersAgree
  BY DEF Ledgers
<1> QED BY <1>1, LedgersInvariant, PTL

----------------------------------------------------------------------------
(* The extraction.                                                         *)

(* At most all of it is extracted from a profit.                           *)
LEMMA ExtractionIsPartial ==
  ASSUME TypeOK, ExtractionDue
  PROVE  ExtractionAmount <= weekly.pnl /\ ExtractionAmount \in Int
<1> DEFINE w == weekly.pnl
           share == ExtractPerMille * w
<1>1. w \in Int /\ ExtractPerMille \in 0 .. 1000 /\ share > 0
  BY RatesAssumption DEF TypeOK, ExtractionDue
<1>2. w > 0
  BY <1>1
<1>3. share <= 1000 * w /\ share \in Int
  BY <1>1, <1>2
<1>4. 2 * ExtractPerMille * w = 2 * share
  BY <1>1
<1>5. ASSUME NEW s \in Int, NEW v \in Int, s <= 1000 * v
      PROVE  (2 * s + 1000) \div 2000 <= v /\ (2 * s + 1000) \div 2000 \in Int
  BY <1>5
<1> HIDE DEF share, w
<1>6. (2 * share + 1000) \div 2000 <= w /\ (2 * share + 1000) \div 2000 \in Int
  BY <1>1, <1>3, <1>5
<1> QED BY <1>4, <1>6 DEF ExtractionAmount, w

LEMMA StepExtracted ==
  ASSUME Ledgers, ExtractedWasEarned, [Next]_vars
  PROVE  ExtractedWasEarned'
<1>1. trade_log \in Seq(Int) /\ Len(trade_log) \in Nat /\ extracted \in Int
  BY DEF Ledgers, TypeOK
<1>2. PICK n \in 0 .. Len(trade_log) : extracted <= RunningTotal(trade_log)[n]
  BY DEF ExtractedWasEarned
<1>3. CASE RecordLogs
  <2>1. /\ Head(pending) \in Int /\ trade_log' = Append(trade_log, Head(pending))
        /\ extracted' = extracted
    BY <1>3 DEF Ledgers, TypeOK, RecordLogs
  <2>2. n \in 0 .. Len(trade_log') /\ extracted' <= RunningTotal(trade_log')[n]
    BY <1>1, <1>2, <2>1, RunningTotalAppend
  <2> QED BY <2>2 DEF ExtractedWasEarned
<1>4. CASE CompleteCycle /\ ExtractionDue
  <2>1. /\ extracted' = extracted + ExtractionAmount /\ trade_log' = trade_log
        /\ weekly.pnl \in Int
    BY <1>4 DEF CompleteCycle, Ledgers, TypeOK
  <2>2. ExtractionAmount <= weekly.pnl /\ ExtractionAmount \in Int
    BY <1>4, ExtractionIsPartial DEF Ledgers
  <2>3. /\ RunningTotal(trade_log)[Len(trade_log)] = weekly.pnl + extracted
    <3>1. RunningTotal(trade_log)[Len(trade_log)] \in Int
      BY <1>1, RunningTotalType
    <3>2. Counted = Len(trade_log)
      BY <1>4 DEF CompleteCycle, Counted
    <3> QED BY <1>1, <2>1, <3>1, <3>2 DEF Ledgers, LedgersAgree
  <2>4. extracted' <= RunningTotal(trade_log)[Len(trade_log)]
    BY <1>1, <2>1, <2>2, <2>3
  <2> QED BY <1>1, <2>1, <2>4 DEF ExtractedWasEarned
<1>5. CASE UNCHANGED <<trade_log, extracted>>
  BY <1>5 DEF ExtractedWasEarned
<1>6. CASE UNCHANGED vars
  BY <1>5, <1>6 DEF vars
<1>7. CASE Next /\ ~RecordLogs /\ ~(CompleteCycle /\ ExtractionDue)
  BY <1>5, <1>7 DEF Next, TradeCloses, Tick, SyncAccount, CanTradeToday,
     CheckCircuitBreaker, ScalperChecksBreaker, RecordTradeResult, RecordCredits,
     RecordCounts, RecordJudges, CompleteCycle, LeaveCycle, ApiSeesNewDay,
     ApiResets, money
<1> QED BY <1>3, <1>4, <1>6, <1>7

(* The weekly extraction never takes more than had been earned at some     *)
(* time, for any share up to the whole profit, any calendar and any        *)
(* results, also when losses follow it.                                    *)
THEOREM OnlyEarningsExtracted == Spec => []ExtractedWasEarned
<1>1. ASSUME Init PROVE ExtractedWasEarned
  <2>1. trade_log = <<>> /\ <<>> \in Seq(Int) /\ Len(<<>>) = 0 /\ extracted = 0
    BY <1>1 DEF Init
  <2>2. RunningTotal(trade_log)[0] = 0
    BY <2>1, RunningTotalType
  <2> QED BY <2>1, <2>2 DEF ExtractedWasEarned
<1>2. Ledgers /\ ExtractedWasEarned /\ [Next]_vars => ExtractedWasEarned'
  BY StepExtracted
<1> QED BY <1>1, <1>2, LedgersInvariant, PTL DEF Spec

----------------------------------------------------------------------------
(* What becomes of an order's stop, target and size.                       *)

Orders == INSTANCE OrderFilters

(* calculate_sl_tp: the target is at least twice as far as the stop and on *)
(* the other side of the price, for every symbol, price and ATR, although  *)
(* both distances are rounded.                                             *)
THEOREM RewardIsTwiceTheRisk ==
    ASSUME NEW s, NEW price \in Int, NEW atr \in Nat \ {0}
    PROVE  LET buy == Orders!StopAndTarget(s, "BUY", price, atr)
               sell == Orders!StopAndTarget(s, "SELL", price, atr)
           IN  /\ buy.sl < price /\ buy.tp - price >= 2 * (price - buy.sl)
               /\ sell.sl > price /\ price - sell.tp >= 2 * (sell.sl - price)
<1> DEFINE stop == (Orders!StopTenths(s) * atr) \div 10
           target == (Orders!TargetTenths(s) * atr) \div 10
<1>1. /\ Orders!StopTenths(s) \in {15, 20} /\ Orders!TargetTenths(s) \in {30, 40, 50}
      /\ Orders!TargetTenths(s) >= 2 * Orders!StopTenths(s)
  BY DEF Orders!StopTenths, Orders!TargetTenths
<1>2. stop \in Nat \ {0} /\ target \in Nat /\ target >= 2 * stop
  <2>1. PICK a \in {15, 20}, b \in {30, 40, 50} :
            a = Orders!StopTenths(s) /\ b = Orders!TargetTenths(s) /\ b >= 2 * a
    BY <1>1
  <2>2. (a * atr) \div 10 \in Nat \ {0} /\ (b * atr) \div 10 \in Nat
        /\ (b * atr) \div 10 >= 2 * ((a * atr) \div 10)
    <3>1. CASE a = 15 /\ b = 30
      BY <3>1
    <3>2. CASE a = 15 /\ b = 40
      BY <3>2
    <3>3. CASE a = 15 /\ b = 50
      BY <3>3
    <3>4. CASE a = 20 /\ b = 40
      BY <3>4
    <3>5. CASE a = 20 /\ b = 50
      BY <3>5
    <3> QED BY <2>1, <3>1, <3>2, <3>3, <3>4, <3>5
  <2> QED BY <2>1, <2>2
<1>3. /\ Orders!StopAndTarget(s, "BUY", price, atr) =
             [sl |-> price - stop, tp |-> price + target]
      /\ Orders!StopAndTarget(s, "SELL", price, atr) =
             [sl |-> price + stop, tp |-> price - target]
  BY DEF Orders!StopAndTarget
<1> HIDE DEF stop, target
<1> QED BY <1>2, <1>3

(* What risk parity blends into an order leaves at least the smallest one, *)
(* and never makes it larger unless parity itself wants a larger one.      *)
THEOREM BlendKeepsAnOrder ==
    ASSUME NEW own \in Nat \ {0}, NEW parity \in Nat
    PROVE  /\ Orders!Blend(own, parity) \in Nat \ {0}
           /\ parity <= own => Orders!Blend(own, parity) <= own
           /\ parity >= own => own <= Orders!Blend(own, parity)
                               /\ Orders!Blend(own, parity) <= parity
  BY DEF Orders!Blend, Orders!ToNearest

LEMMA LesserOf ==
    ASSUME NEW a \in Int, NEW b \in Int
    PROVE  Orders!Min({a, b}) = IF a <= b THEN a ELSE b
<1> DEFINE c == IF a <= b THEN a ELSE b
<1>1. c \in {a, b} /\ \A y \in {a, b} : c <= y
  OBVIOUS
<1>2. \A z \in {a, b} : (\A y \in {a, b} : z <= y) => z = c
  OBVIOUS
<1> HIDE DEF c
<1>3. Orders!Min({a, b}) = c
  BY <1>1, <1>2 DEF Orders!Min
<1> QED BY <1>3 DEF c

LEMMA GreaterOf ==
    ASSUME NEW a \in Int, NEW b \in Int
    PROVE  Orders!Max({a, b}) = IF a >= b THEN a ELSE b
<1> DEFINE c == IF a >= b THEN a ELSE b
<1>1. c \in {a, b} /\ \A y \in {a, b} : c >= y
  OBVIOUS
<1>2. \A z \in {a, b} : (\A y \in {a, b} : z >= y) => z = c
  OBVIOUS
<1> HIDE DEF c
<1>3. Orders!Max({a, b}) = c
  BY <1>1, <1>2 DEF Orders!Max
<1> QED BY <1>3 DEF c

(* Risk parity takes a price for what a hundredth of a lot costs, so that  *)
(* it wants nothing of a symbol whose price is high against the equity:    *)
(* nothing in yen, whatever weight the symbol has.                         *)
THEOREM ParityWantsNothing ==
    ASSUME NEW weight \in Nat, NEW equity \in Nat, NEW price \in Nat \ {0},
           equity <= 2 * price
    PROVE  Orders!ParityLots(weight, equity, price) = 0
<1> DEFINE risked == (equity * weight) \div 50000
           most == IF risked >= 4 * price THEN risked ELSE 4 * price
           n == IF most <= equity THEN most ELSE equity
<1>1. equity * weight \in Nat
  OBVIOUS
<1>2. risked \in Nat
  <2> DEFINE x == equity * weight
  <2> HIDE DEF x
  <2>1. x \in Nat => x \div 50000 \in Nat
    OBVIOUS
  <2> QED BY <1>1, <2>1 DEF x
<1> HIDE DEF risked
<1>3. most \in Nat /\ Orders!Max({risked, 4 * price}) = most
  BY <1>2, GreaterOf
<1> HIDE DEF most
<1>4. n \in Nat /\ n <= equity /\ Orders!Min({most, equity}) = n
  BY <1>3, LesserOf
<1> HIDE DEF n
<1>5. Orders!ParityLots(weight, equity, price) =
          (2 * n + 4 * price - 1) \div (2 * (4 * price))
  <2>1. Orders!ParityLots(weight, equity, price) =
            Orders!ToNearest(Orders!Min({Orders!Max({risked, 4 * price}), equity}),
                             4 * price)
    BY DEF Orders!ParityLots, risked
  <2>2. Orders!Min({Orders!Max({risked, 4 * price}), equity}) = n
    BY <1>3, <1>4
  <2> QED BY <2>1, <2>2 DEF Orders!ToNearest
<1>6. \A x \in Nat, d \in Nat \ {0} : x < d => x \div d = 0
  OBVIOUS
<1>7. /\ 2 * n + 4 * price - 1 \in Nat /\ 2 * (4 * price) \in Nat \ {0}
      /\ 2 * n + 4 * price - 1 < 2 * (4 * price)
  BY <1>4
<1> QED BY <1>5, <1>6, <1>7
============================================================================
