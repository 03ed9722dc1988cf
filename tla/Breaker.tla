------------------------------ MODULE Breaker ------------------------------
(***************************************************************************)
(* The circuit breaker kept inside RiskManager (unified_engine.py), as     *)
(* operators on one record, so that every module that records trade        *)
(* results shares the same transition.                                     *)
(*                                                                         *)
(*   state       circuit_breaker_state                                     *)
(*   age         minutes since cb_opened_at, counted in the model's time   *)
(*               unit and capped at Cooldown: the code only ever asks      *)
(*               whether the cooldown has elapsed                          *)
(*   losses      consecutive_losses      wins    consecutive_wins          *)
(*   recoveries  cb_recoveries                                             *)
(***************************************************************************)
EXTENDS Integers

CONSTANTS
    LossLimit,      \* circuit_breaker_losses: 3 in CONFIG
    Cooldown,       \* circuit_breaker_cooldown_min: 60 in CONFIG
    RecoveryWins    \* the literal 2 of record_trade_result

ASSUME LossLimitAssumption    == LossLimit \in Nat \ {0}
ASSUME CooldownAssumption     == Cooldown \in Nat \ {0}
ASSUME RecoveryWinsAssumption == RecoveryWins \in Nat \ {0}

BreakerStates == {"CLOSED", "OPEN", "HALF_OPEN"}

Breakers == [state      : BreakerStates,
             age        : 0 .. Cooldown,
             losses     : Nat,
             wins       : Nat,
             recoveries : 0 .. RecoveryWins - 1]

InitialBreaker ==
    [state |-> "CLOSED", age |-> 0, losses |-> 0, wins |-> 0, recoveries |-> 0]

----------------------------------------------------------------------------

(* A losing trade.  The breaker opens, or opens again, whenever the streak *)
(* stands at the limit, and the cooldown starts over.  cb_recoveries is    *)
(* left as it is.                                                          *)
AfterLoss(b) ==
    LET streak == b.losses + 1
    IN  IF streak >= LossLimit
        THEN [b EXCEPT !.losses = streak, !.wins = 0,
                       !.state = "OPEN", !.age = 0]
        ELSE [b EXCEPT !.losses = streak, !.wins = 0]

(* Mutant: the recoveries are not cleared when the breaker closes.         *)
AfterWinKeepsRecoveries(b) ==
    LET won == [b EXCEPT !.wins = b.wins + 1, !.losses = 0]
    IN  IF b.state # "HALF_OPEN"
        THEN won
        ELSE IF b.recoveries + 1 >= RecoveryWins
             THEN [won EXCEPT !.state = "CLOSED",
                              !.recoveries = b.recoveries + 1]
             ELSE [won EXCEPT !.recoveries = b.recoveries + 1]

(* A winning trade.  Only in HALF_OPEN does it count as a recovery, and    *)
(* enough recoveries close the breaker.                                    *)
AfterWin(b) ==
    LET won == [b EXCEPT !.wins = b.wins + 1, !.losses = 0]
    IN  IF b.state # "HALF_OPEN"
        THEN won
        ELSE IF b.recoveries + 1 >= RecoveryWins
             THEN [won EXCEPT !.state = "CLOSED", !.recoveries = 0]
             ELSE [won EXCEPT !.recoveries = b.recoveries + 1]

(* A trade that breaks even leaves both streaks alone.                     *)
AfterResult(b, pnl) ==
    IF pnl < 0 THEN AfterLoss(b) ELSE IF pnl > 0 THEN AfterWin(b) ELSE b

(* Mutant: the cooldown is not waited for.                                 *)
AfterCheckAtOnce(b) ==
    IF b.state = "OPEN" THEN [b EXCEPT !.state = "HALF_OPEN"] ELSE b

(* check_circuit_breaker: asking is what moves OPEN to HALF_OPEN.          *)
AfterCheck(b) ==
    IF b.state = "OPEN" /\ b.age >= Cooldown
    THEN [b EXCEPT !.state = "HALF_OPEN"]
    ELSE b

Admits(b) == AfterCheck(b).state # "OPEN"

(* One unit of time passes.                                                *)
Older(b) == IF b.age < Cooldown THEN [b EXCEPT !.age = b.age + 1] ELSE b

============================================================================
