---------------------------- MODULE RiskManager ----------------------------
(***************************************************************************)
(* RiskManager of unified_engine.py: the one object through which every    *)
(* component of the live engine learns whether it may trade.  It keeps the *)
(* circuit breaker (module Breaker), the peak the drawdown is measured     *)
(* from, the daily profit and loss limits and the weekly extraction.       *)
(*                                                                         *)
(* Two threads use it without a lock.  The engine's thread calls it from   *)
(* run_cycle.  An API thread serving the daily status calls                *)
(* get_daily_status, which also resets the daily counters.  Between its    *)
(* test of the date and its assignments it reads the clock and writes to   *)
(* the log, where the interpreter may switch threads, so the two are       *)
(* separate steps (api); the assignments themselves make no call and are   *)
(* one step.  record_trade_result makes calls too, between its balance, its*)
(* log, its counters and its streak: recording says how far it has come.   *)
(* Every other call of the engine's thread is one step, and so are balance *)
(* and peak within this one, for no other thread reads the peak.           *)
(*                                                                         *)
(* Money is in the account's smallest unit and every percentage of CONFIG  *)
(* is in per mille.  daily_pnl, the sum of pnl / balance fractions, is     *)
(* left out: no check of this class reads it.                              *)
(***************************************************************************)
EXTENDS Breaker, Sequences

CONSTANTS
    InitialBalance,   \* the literal 10000.0 of __init__
    Accounts,         \* balances the broker's account may start with
    PnLs,             \* results a trade may close with
    Floating,         \* unrealised results the account may show
    TargetPerMille,   \* daily_profit_target_pct: 20 in CONFIG
    LimitPerMille,    \* daily_loss_limit_pct: 15 in CONFIG
    PausePerMille,    \* drawdown_pause_pct: 150 in CONFIG
    ExtractPerMille,  \* extraction_pct: 300 in CONFIG
    DayLength,        \* time units in a day
    ExtractionDays,   \* the days that are Fridays
    MaxTime,          \* bound on the clock
    MaxTrades         \* bound on the trades that close

ASSUME MoneyAssumption ==
    /\ InitialBalance \in Nat
    /\ Accounts \subseteq Int
    /\ PnLs \subseteq Int
    /\ Floating \subseteq Int
ASSUME RatesAssumption ==
    /\ TargetPerMille \in Nat
    /\ LimitPerMille \in Nat
    /\ PausePerMille \in 0 .. 1000
    /\ ExtractPerMille \in 0 .. 1000
ASSUME TimeAssumption ==
    /\ DayLength \in Nat \ {0}
    /\ MaxTime \in Nat
    /\ MaxTrades \in Nat

VARIABLES
    cb,             \* the breaker, a record of module Breaker
    balance,        \* balance
    peak,           \* peak_balance
    daily,          \* the daily_* attributes
    weekly,         \* weekly_pnl and last_extraction_date
    trade_log,      \* the pnl of every entry of trade_log
    account,        \* the broker's balance
    pending,        \* trades the broker closed that are not recorded yet
    clock,          \* time since the program started
    api,            \* the API thread: Never, or the new date it has seen
    pc,             \* where the engine's thread is in run_cycle
    recording,      \* how far record_trade_result is with Head(pending)
    resetAt,        \* history: length of trade_log at the last daily reset
    straddled,      \* history: that reset found its last entry not counted
    extracted       \* history: everything record_extraction took

resets == <<resetAt, straddled>>

vars == <<cb, balance, peak, daily, weekly, trade_log, account, pending,
          clock, api, pc, recording, resets, extracted>>

money == <<balance, peak, weekly, trade_log, account, pending, extracted>>

Never == -1
Today == clock \div DayLength

Higher(a, b) == IF a >= b THEN a ELSE b

NewDailyCounters(start, date) ==
    [start |-> start, pnl |-> 0, trades |-> 0, wins |-> 0, date |-> date,
     target_hit |-> FALSE, limit_hit |-> FALSE]

Init ==
    /\ cb = InitialBreaker
    /\ balance = InitialBalance
    /\ peak = InitialBalance
    /\ daily = NewDailyCounters(InitialBalance, 0)
    /\ weekly = [pnl |-> 0, extracted_on |-> Never]
    /\ trade_log = <<>>
    /\ account \in Accounts
    /\ pending = <<>>
    /\ clock = 0
    /\ api = Never
    /\ pc = "sleeping"
    /\ recording = "nothing"
    /\ resetAt = 0
    /\ straddled = FALSE
    /\ extracted = 0

----------------------------------------------------------------------------
(* The account, outside the program.                                       *)

TradeCloses(pnl) ==
    /\ Len(trade_log) + Len(pending) < MaxTrades
    /\ account' = account + pnl
    /\ pending' = Append(pending, pnl)
    /\ UNCHANGED <<cb, balance, peak, daily, weekly, trade_log, clock, api,
                   pc, recording, resets, extracted>>

Tick ==
    /\ clock < MaxTime
    /\ clock' = clock + 1
    /\ cb' = Older(cb)
    /\ UNCHANGED <<money, daily, api, pc, recording, resets>>

----------------------------------------------------------------------------
(* The engine's thread: the calls run_cycle makes, in its order.           *)

(* Mutants: update_balance forgets the peak; the peak starts over.         *)
PeakOfEquity(floating) == Higher(peak, account + floating)
PeakStartsOver(floating) == Higher(account, account + floating)

PeakAfterSync(floating) == Higher(Higher(peak, account), account + floating)

(* update_balance and update_equity.  An account that cannot be read skips *)
(* both and the cycle goes on.                                             *)
SyncAccount ==
    /\ pc = "sleeping"
    /\ pc' = "synced"
    /\ \/ \E floating \in Floating :
             /\ balance' = account
             /\ peak' = PeakAfterSync(floating)
       \/ UNCHANGED <<balance, peak>>
    /\ UNCHANGED <<cb, daily, weekly, trade_log, account, pending, clock,
                   api, recording, resets, extracted>>

(* Mutant: the day's profit is carried over.                               *)
ResetDailyKeepsPnl(date) ==
    /\ daily' = [NewDailyCounters(balance, date) EXCEPT !.pnl = daily.pnl]
    /\ resetAt' = Len(trade_log)
    /\ straddled' = (recording = "logged")

(* The assignments of reset_daily_counters.                                *)
ResetDaily(date) ==
    /\ daily' = NewDailyCounters(balance, date)
    /\ resetAt' = Len(trade_log)
    /\ straddled' = (recording = "logged")

TradingAllowed(d) == ~d.target_hit /\ ~d.limit_hit

(* get_risk_multiplier() <= 0: the drawdown has reached the pause level.   *)
AtPauseLevel(top, now) == 1000 * (top - now) >= PausePerMille * top
DrawdownPaused == peak > 0 /\ AtPauseLevel(peak, balance)

(* reset_daily_counters, as every call of the engine's thread makes it.    *)
ResetIfNewDay ==
    IF daily.date # Today
    THEN ResetDaily(Today)
    ELSE UNCHANGED <<daily, resets>>

(* can_trade_today, which resets the counters first if the day has changed *)
(* since, then the drawdown check.  A day that is over still lets the      *)
(* cycle manage its positions; a drawdown pause does not.                  *)
CanTradeToday ==
    /\ pc = "synced"
    /\ ResetIfNewDay
    /\ pc' = IF ~TradingAllowed(daily') THEN "managing"
             ELSE IF DrawdownPaused     THEN "sleeping"
             ELSE "allowed"
    /\ UNCHANGED <<cb, money, clock, api, recording>>

CheckCircuitBreaker ==
    /\ pc = "allowed"
    /\ cb' = AfterCheck(cb)
    /\ pc' = IF cb'.state = "OPEN" THEN "sleeping" ELSE "trading"
    /\ UNCHANGED <<money, daily, clock, api, recording, resets>>

(* The scalper asks again, from _check_safety, later in the same cycle.    *)
ScalperChecksBreaker ==
    /\ pc = "trading"
    /\ recording = "nothing"
    /\ cb' = AfterCheck(cb)
    /\ cb' # cb
    /\ UNCHANGED <<money, daily, clock, api, recording, resets, pc>>

(* _check_daily_limits: both flags latch.                                  *)
WithLimitsChecked(d) ==
    [d EXCEPT !.target_hit = @ \/ (/\ d.start > 0
                                   /\ 1000 * d.pnl >= TargetPerMille * d.start),
              !.limit_hit  = @ \/ (/\ d.start > 0
                                   /\ 1000 * d.pnl <= -(LimitPerMille * d.start))]

WithTrade(d, pnl) ==
    [d EXCEPT !.pnl = @ + pnl,
              !.trades = @ + 1,
              !.wins = IF pnl > 0 THEN @ + 1 ELSE @]

(* record_trade_result, in the four parts its calls divide it into.  The   *)
(* balance it adds to already holds the result when the account was        *)
(* synchronised after the trade closed.                                    *)
RecordCredits ==
    /\ pc \in {"managing", "trading"}
    /\ recording = "nothing" /\ pending # <<>>
    /\ recording' = "credited"
    /\ balance' = balance + Head(pending)
    /\ peak' = Higher(peak, balance + Head(pending))
    /\ UNCHANGED <<cb, daily, weekly, trade_log, account, pending, clock, api,
                   pc, resets, extracted>>

RecordLogs ==
    /\ recording = "credited"
    /\ recording' = "logged"
    /\ trade_log' = Append(trade_log, Head(pending))
    /\ UNCHANGED <<cb, balance, peak, daily, weekly, account, pending, clock,
                   api, pc, resets, extracted>>

(* The counters of the day and of the week, between which nothing is called*)
RecordCounts ==
    /\ recording = "logged"
    /\ recording' = "counted"
    /\ daily' = WithTrade(daily, Head(pending))
    /\ weekly' = [weekly EXCEPT !.pnl = @ + Head(pending)]
    /\ UNCHANGED <<cb, balance, peak, trade_log, account, pending, clock, api,
                   pc, resets, extracted>>

RecordJudges ==
    /\ recording = "counted"
    /\ recording' = "nothing"
    /\ daily' = WithLimitsChecked(daily)
    /\ cb' = AfterResult(cb, Head(pending))
    /\ pending' = Tail(pending)
    /\ UNCHANGED <<balance, peak, weekly, trade_log, account, clock, api, pc,
                   resets, extracted>>

RecordTradeResult ==
    RecordCredits \/ RecordLogs \/ RecordCounts \/ RecordJudges

(* round(weekly_pnl * extraction_pct, 2)                                   *)
ExtractionAmount == (2 * ExtractPerMille * weekly.pnl + 1000) \div 2000

(* Mutant: the extraction is never booked.                                 *)
ExtractionUnbooked(w) == w

(* record_extraction                                                       *)
AfterExtraction(w) ==
    [pnl |-> w.pnl - ExtractionAmount, extracted_on |-> Today]

ExtractionDue ==
    /\ Today \in ExtractionDays
    /\ weekly.extracted_on # Today
    /\ ExtractPerMille * weekly.pnl > 0

(* The end of a cycle that traded: check_weekly_extraction and, if it is   *)
(* due, record_extraction, then the summary, whose get_daily_status may    *)
(* find that midnight has passed since the cycle began.                    *)
CompleteCycle ==
    /\ pc = "trading"
    /\ recording = "nothing"
    /\ pc' = "sleeping"
    /\ IF ExtractionDue
       THEN /\ weekly' = AfterExtraction(weekly)
            /\ extracted' = extracted + ExtractionAmount
       ELSE UNCHANGED <<weekly, extracted>>
    /\ ResetIfNewDay
    /\ UNCHANGED <<cb, balance, peak, trade_log, account, pending, clock, api,
                   recording>>

(* A cycle that only manages positions ends; one that trades is paused by  *)
(* the equity curve or abandoned by an exception.                          *)
LeaveCycle ==
    /\ pc \in {"managing", "trading"}
    /\ recording = "nothing"
    /\ pc' = "sleeping"
    /\ UNCHANGED <<cb, money, daily, clock, api, recording, resets>>

----------------------------------------------------------------------------
(* The API thread: get_daily_status.  It has read the date, and found it   *)
(* changed, when the assignments run.                                      *)

ApiSeesNewDay ==
    /\ api = Never
    /\ daily.date # Today
    /\ api' = Today
    /\ UNCHANGED <<cb, money, daily, clock, recording, resets, pc>>

ApiResets ==
    /\ api # Never
    /\ ResetDaily(api)
    /\ api' = Never
    /\ UNCHANGED <<cb, money, clock, recording, pc>>

----------------------------------------------------------------------------

Next ==
    \/ \E pnl \in PnLs : TradeCloses(pnl)
    \/ Tick
    \/ SyncAccount
    \/ CanTradeToday
    \/ CheckCircuitBreaker
    \/ ScalperChecksBreaker
    \/ RecordTradeResult
    \/ CompleteCycle
    \/ LeaveCycle
    \/ ApiSeesNewDay
    \/ ApiResets

Spec == Init /\ [][Next]_vars

----------------------------------------------------------------------------
(* Properties.                                                             *)

Locations == {"sleeping", "synced", "allowed", "managing", "trading"}
Stages == {"nothing", "credited", "logged", "counted"}

DailyCounters ==
    [start : Int, pnl : Int, trades : Nat, wins : Nat, date : Nat,
     target_hit : BOOLEAN, limit_hit : BOOLEAN]

(* Every attribute of RiskManager keeps its type.                          *)
TypeOK ==
    /\ cb \in Breakers
    /\ balance \in Int
    /\ peak \in Int
    /\ daily \in DailyCounters
    /\ weekly \in [pnl : Int, extracted_on : Nat \cup {Never}]
    /\ trade_log \in Seq(Int)
    /\ account \in Int
    /\ pending \in Seq(Int)
    /\ clock \in Nat
    /\ api \in Nat \cup {Never}
    /\ pc \in Locations
    /\ recording \in Stages
    /\ recording # "nothing" => pending # <<>>
    /\ resetAt \in Nat
    /\ straddled \in BOOLEAN
    /\ extracted \in Int

(* What the first n entries of a log add up to, for every n.               *)
RunningTotal(log) ==
    LET sum[n \in 0 .. Len(log)] == IF n = 0 THEN 0 ELSE sum[n - 1] + log[n]
    IN  sum

(* The entries of the trade log the counters know, and those of them that  *)
(* are not the day's.                                                      *)
Counted == IF recording = "logged" THEN Len(trade_log) - 1 ELSE Len(trade_log)
CountedBefore == IF straddled THEN resetAt - 1 ELSE resetAt

(* The three ledgers agree with the trade log, whatever thread resets      *)
(* wherever record_trade_result is: no result is counted twice or dropped. *)
(* The day's profit is what was recorded since the last reset and the      *)
(* week's is everything recorded less what was extracted, but for the one  *)
(* result that is logged and not counted yet.  A reset just then leaves it *)
(* to the new day, although the log says it was recorded before.           *)
LedgersAgree ==
    LET total == RunningTotal(trade_log)
    IN  /\ daily.pnl = total[Counted] - total[CountedBefore]
        /\ daily.trades = Counted - CountedBefore
        /\ weekly.pnl = total[Counted] - extracted

(* Extraction never takes more than the account had earned at some time:   *)
(* the highest total the trade log ever stood at.                          *)
ExtractedWasEarned ==
    \E n \in 0 .. Len(trade_log) : extracted <= RunningTotal(trade_log)[n]

(* A breaker that stands CLOSED has room for a loss: whatever opened,      *)
(* half opened and recovered it, no run of losses at the limit is ever     *)
(* left behind a closed breaker (record_trade_result).                     *)
ClosedBelowLimit == cb.state = "CLOSED" => cb.losses < LossLimit

(* The breaker of record_trade_result and check_circuit_breaker keeps what *)
(* a circuit breaker promises, over any sequence of results and checks.    *)
Contract == INSTANCE BreakerContract
                WITH state  <- cb.state,
                     streak <- cb.losses,
                     cooled <- cb.age >= Cooldown

ImplementsContract == Contract!Spec

(* The drawdown is never negative: no order of synchronising the account   *)
(* and recording results leaves the balance above its peak.                *)
PeakDominates == balance <= peak

(* A drawdown pause is only ever lifted by the balance rising: no reset,   *)
(* recording or extraction lifts it by lowering the peak.                  *)
PauseLiftsByRecovery ==
    [][DrawdownPaused /\ ~DrawdownPaused' => balance' > balance]_vars

(* Once a daily limit is hit it stays hit until the date changes, whatever *)
(* is recorded after it: only reset_daily_counters clears it, and the      *)
(* engine's thread calls it only to find a new date.  (An API thread       *)
(* already inside reset_daily_counters is the exception: it resets the new *)
(* day's counters a second time.)                                          *)
LimitsLatch ==
    [][/\ ~TradingAllowed(daily)
       /\ TradingAllowed(daily')
       /\ api = Never
       => Today # daily.date]_vars

============================================================================
