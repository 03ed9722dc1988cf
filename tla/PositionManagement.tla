------------------------- MODULE PositionManagement -------------------------
(***************************************************************************)
(* The life of one position of the live engine: what                       *)
(* UnifiedEngine._manage_existing_positions does with it in each cycle,    *)
(* what the MTF scalper does with the stop of the same position after it,  *)
(* and the broker, which closes it at its stop or at its target.           *)
(*                                                                         *)
(* The stop is kept in three places: at the broker, in the engine's entry  *)
(* rm_pos and, for a scalp, in scalper.open_scalps.  Neither copy is ever  *)
(* read back from the broker.                                              *)
(*                                                                         *)
(* Prices are measured in the direction of profit, so that the branches    *)
(* for BUY and SELL are one and a greater stop is a tighter one; no stop   *)
(* (0 in the code) is the loosest.  The branches differ in one guard,      *)
(* which keeps the variable direction.  The ratios of the code are         *)
(* compared without a division: rr >= k is gain >= k * distance.           *)
(***************************************************************************)
EXTENDS Integers

CONSTANTS
    Prices,       \* the prices the market visits
    OpenPrice,    \* the price at which the position was opened
    Stop, Target, \* the stop and the target it was sent with
    NoStop,
    OnePercent,   \* 1% of the price
    Atr,          \* rm_pos["atr"] of a position the engine opened
    SyncedAtr,    \* 0.001, the "atr" of a position it found
    Buffer,       \* 2 points
    TrailStep,    \* scalper_trailing_step_pips: 5 pips
    Cooldown,     \* EXIT_OPTIMIZER_COOLDOWN_CYCLES: 2
    Unbound,      \* the local current before its first assignment
    MaxRefusals,  \* bound on requests to the broker that fail
    MaxRestarts   \* bound on crashes

ASSUME PricesAssumption ==
    /\ Prices \subseteq Int /\ OpenPrice \in Prices
    /\ NoStop \in Int /\ Stop \in Int /\ Target \in Int
    /\ \A p \in Prices : NoStop < p /\ p < Target
    /\ NoStop < Stop /\ Stop < OpenPrice
ASSUME DistancesAssumption ==
    /\ {OnePercent, Atr, SyncedAtr} \subseteq Nat \ {0}
    /\ {Buffer, TrailStep, Cooldown, MaxRefusals, MaxRestarts} \subseteq Nat
ASSUME UnboundAssumption == Unbound \notin Prices

VARIABLES
    direction,  \* BUY or SELL
    owner,      \* who sent it: the engine, the scalper or an outsider
    price,
    broker,     \* the position at the broker, and why it was closed
    rm,         \* the engine's entry for it
    scalp,      \* the scalper's
    pc,         \* where the cycle is
    seen,       \* the price of the position as the cycle read it
    current, dist,   \* locals of _manage_existing_positions
    old,        \* held for hold_bars: 96 hours
    paused,     \* run_cycle returns before it manages the positions
    refusals, restarts

locals == <<seen, current, dist>>
fixed == <<direction, owner>>
vars == <<fixed, price, broker, rm, scalp, pc, locals, old, paused, refusals,
          restarts>>

NotHeld == [held |-> FALSE]
NoScalp == [held |-> FALSE]
Entry(sl, atr) == [held |-> TRUE, entry |-> OpenPrice, sl |-> sl,
    tp |-> broker.tp, atr |-> atr, partial |-> FALSE, age |-> 0,
    filled |-> TRUE]
(* The entry run_cycle makes for a scalp has neither stop nor action yet.  *)
ScalpEntry == [Entry(NoStop, SyncedAtr) EXCEPT !.filled = FALSE]

Init ==
    /\ direction \in {"BUY", "SELL"}
    /\ owner \in {"engine", "scalper", "outsider"}
    /\ price = OpenPrice
    /\ \E sl \in {Stop, NoStop} :
           /\ sl = NoStop => owner = "outsider"
           /\ broker = [open |-> TRUE, sl |-> sl, tp |-> Target,
                        reason |-> "none"]
    /\ rm = CASE owner = "engine"   -> Entry(Stop, Atr)
              [] owner = "scalper"  -> ScalpEntry
              [] owner = "outsider" -> NotHeld
    /\ scalp = IF owner = "scalper"
               THEN [held |-> TRUE, sl |-> Stop, breakevenHit |-> FALSE,
                     high |-> OpenPrice]
               ELSE NoScalp
    /\ pc = "asleep"
    /\ seen = OpenPrice /\ current = Unbound /\ dist = 0
    /\ old = FALSE /\ paused = FALSE
    /\ refusals = 0 /\ restarts = 0

----------------------------------------------------------------------------
(* The market, the broker and time.                                        *)

Closed(b, why) == [b EXCEPT !.open = FALSE, !.reason = why]

PriceMoves(p) ==
    /\ broker.open
    /\ price' = p
    /\ broker' = CASE p <= broker.sl -> Closed(broker, "stop")
                   [] p >= broker.tp -> Closed(broker, "target")
                   [] OTHER          -> broker
    /\ UNCHANGED <<fixed, rm, scalp, pc, locals, old, paused, refusals,
                   restarts>>

Ages ==
    /\ ~old /\ old' = TRUE
    /\ UNCHANGED <<fixed, price, broker, rm, scalp, pc, locals, paused,
                   refusals, restarts>>

(* A drawdown, an open breaker or the equity curve ends run_cycle before   *)
(* the positions are managed; a daily limit does not.                      *)
PausesOrResumes ==
    /\ paused' = ~paused
    /\ UNCHANGED <<fixed, price, broker, rm, scalp, pc, locals, old, refusals,
                   restarts>>

(* A request fails because it must, or because the terminal does not       *)
(* answer.                                                                 *)
Refused(must) ==
    IF must THEN UNCHANGED refusals
    ELSE refusals < MaxRefusals /\ refusals' = refusals + 1

(* modify_sl_tp: the broker takes a stop that is new and on the right side *)
(* of the price.                                                           *)
TakesStop(sl) == broker.open /\ sl < price /\ sl # broker.sl

(* Mutant: the stop is remembered before the broker has taken it.          *)
RemembersStop(sl) ==
    /\ rm' = [rm EXCEPT !.sl = sl]
    /\ \/ TakesStop(sl) /\ broker' = [broker EXCEPT !.sl = sl] /\ UNCHANGED refusals
       \/ Refused(~TakesStop(sl)) /\ UNCHANGED broker

(* The engine moves the stop, and remembers it if the broker took it.      *)
MovesStop(sl) ==
    \/ /\ TakesStop(sl)
       /\ broker' = [broker EXCEPT !.sl = sl]
       /\ rm' = [rm EXCEPT !.sl = sl]
       /\ UNCHANGED refusals
    \/ /\ Refused(~TakesStop(sl))
       /\ UNCHANGED <<broker, rm>>

----------------------------------------------------------------------------
(* _manage_existing_positions, for this position.                          *)

At(step) == pc = step /\ UNCHANGED <<fixed, price, scalp, old, paused, restarts>>
GoesTo(step) ==
    /\ pc' = step
    /\ IF step \in {"scalper", "asleep"}
       THEN seen' = OpenPrice /\ current' = Unbound /\ dist' = 0
       ELSE UNCHANGED locals
Leaves == UNCHANGED <<broker, rm, refusals>>

(* Mutant: a position the registry does not hold is passed over.           *)
TrackedIfHeld == rm

(* Mutant: the entry is written anew, and registered in this cycle.        *)
RegisteredAnew == Entry(broker.sl, SyncedAtr)

(* What the entry is once the position has been read: the old one, one     *)
(* cycle older; one completed from the broker, if it had no action; or a   *)
(* new one, if there was none.                                             *)
Tracked ==
    IF ~rm.held THEN Entry(broker.sl, SyncedAtr)
    ELSE LET a == IF rm.age < Cooldown THEN rm.age + 1 ELSE rm.age IN
         IF rm.filled THEN [rm EXCEPT !.age = a]
         ELSE [Entry(broker.sl, SyncedAtr) EXCEPT !.age = a]

ReadsPositions ==
    /\ At("asleep")
    /\ ~paused
    /\ \/ /\ broker.open
          /\ rm' = Tracked
          /\ seen' = price /\ UNCHANGED <<current, dist>>
          /\ pc' = "target"
          /\ UNCHANGED <<broker, refusals>>
       \/ /\ Refused(~broker.open)
          /\ rm' = NotHeld /\ UNCHANGED broker
          /\ GoesTo("scalper")

(* _manage_trailing_tp.                                                    *)
TargetDistance == IF rm.sl # NoStop THEN rm.entry - rm.sl ELSE rm.atr
NewTarget == rm.entry + 5 * TargetDistance
TargetTrails ==
    /\ rm.atr # 0
    /\ TargetDistance > 0
    /\ seen - rm.entry >= 3 * TargetDistance
    /\ NewTarget > rm.tp

TrailsTarget ==
    /\ At("target")
    /\ \/ ~TargetTrails /\ Leaves
       \/ /\ TargetTrails /\ broker.open
          /\ broker' = [broker EXCEPT !.tp = NewTarget]
          /\ rm' = [rm EXCEPT !.tp = NewTarget]
          /\ UNCHANGED refusals
       \/ /\ TargetTrails
          /\ Refused(~broker.open)
          /\ UNCHANGED <<broker, rm>>
    /\ GoesTo("exit")

(* _close_trade: the entry goes with the position; if the broker refuses,  *)
(* both stay.                                                              *)
ClosesTrade(reason) ==
    /\ \/ /\ broker.open
          /\ broker' = Closed(broker, reason)
          /\ rm' = NotHeld
          /\ UNCHANGED refusals
       \/ /\ Refused(~broker.open)
          /\ UNCHANGED <<broker, rm>>
    /\ GoesTo("scalper")

(* The exit optimizer: nothing trains its model, so it is the rule that    *)
(* exits two ATR beyond the current price.                                 *)
ExitPrice == seen + 2 * rm.atr

(* leftover: what the positions managed before this one in the cycle left  *)
(* in the local current, the price of another symbol.                      *)
OptimizesExit(leftover) ==
    /\ At("exit")
    /\ \/ /\ rm.age < Cooldown
          /\ Leaves
          /\ pc' = "time" /\ current' = leftover /\ UNCHANGED <<seen, dist>>
       \/ /\ rm.age >= Cooldown /\ seen < ExitPrice
          /\ Leaves
          /\ pc' = "time" /\ current' = seen /\ UNCHANGED <<seen, dist>>
       \/ rm.age >= Cooldown /\ seen >= ExitPrice /\ ClosesTrade("EXIT_OPTIMIZER")

(* What the time exit measures profit by.                                  *)
TimeDistance == IF rm.sl # NoStop THEN rm.entry - rm.sl ELSE OnePercent

(* Mutant: it spares only what the trailing step would spare.              *)
SparedAtTwo == TimeDistance > 0 /\ current - rm.entry >= 2 * TimeDistance

(* The time exit spares a position that is in profit by 1R, by the stop it *)
(* has now and by the price in current.                                    *)
Spared == TimeDistance > 0 /\ current - rm.entry >= TimeDistance

Judged == pc' = "partial" /\ current' = Unbound /\ UNCHANGED <<seen, dist>>

ExitsOnTime ==
    /\ At("time")
    /\ \/ ~old /\ Leaves /\ Judged
       \/ old /\ current = Unbound /\ Leaves /\ GoesTo("asleep")  \* the exception ends the cycle
       \/ /\ old /\ current # Unbound
          /\ \/ Spared /\ Leaves /\ Judged
             \/ ~Spared /\ ClosesTrade("TIME_EXIT")

(* The distance the trailing stops measure profit by, with its fallback.   *)
TrailDistance ==
    LET d == IF rm.sl # NoStop THEN rm.entry - rm.sl ELSE 0 IN
    IF d > 0 THEN 2 * d ELSE IF rm.atr > 0 THEN 3 * rm.atr ELSE 2 * OnePercent
(* seen is at least k / 2 of that distance in profit: dist is twice it.    *)
InProfit(k, distance) == 4 * (seen - rm.entry) >= k * distance

PartialWanted == ~rm.partial /\ InProfit(3, TrailDistance)

(* close_partial closes 30%, but at least the smallest lot, and that may   *)
(* be all there is.                                                        *)
AfterPartial == {broker, Closed(broker, "partial")}

TakesPartial ==
    /\ At("partial")
    /\ \/ /\ PartialWanted /\ broker.open
          /\ broker' \in AfterPartial
          /\ rm' = [rm EXCEPT !.partial = TRUE, !.entry = seen]
          /\ UNCHANGED refusals
          /\ GoesTo("scalper")
       \/ /\ Refused(~PartialWanted \/ ~broker.open)
          /\ UNCHANGED <<broker, rm, seen, current>>
          /\ dist' = TrailDistance
          /\ pc' = "breakeven"

(* Mutant: the stop goes to the entry even if it is beyond it already.     *)
BreakevenAgain == InProfit(2, dist) /\ rm.sl # rm.entry

(* Mutant: the breakeven waits for the profit the trailing step waits for. *)
BreakevenLate == InProfit(4, dist) /\ rm.sl < rm.entry

BreakevenWanted == InProfit(2, dist) /\ rm.sl < rm.entry

MovesToBreakeven ==
    /\ At("breakeven")
    /\ IF BreakevenWanted THEN MovesStop(rm.entry) ELSE Leaves
    /\ GoesTo("atr")

AtrStop == seen - 2 * rm.atr
AtrWanted == InProfit(4, dist) /\ rm.atr > 0 /\ AtrStop > rm.sl

TrailsByAtr ==
    /\ At("atr")
    /\ IF AtrWanted THEN MovesStop(AtrStop) ELSE Leaves
    /\ GoesTo("bbstop")

(* The Bollinger stop, wherever the band is.  For a SELL the code compares *)
(* it with the price only if there is no stop yet.                         *)
BandWanted(sl) ==
    /\ InProfit(2, dist)
    /\ sl > rm.sl
    /\ (direction = "BUY" \/ rm.sl = NoStop) => sl < seen

TrailsByBand(sl) ==
    /\ At("bbstop")
    /\ IF BandWanted(sl) THEN MovesStop(sl) ELSE Leaves
    /\ GoesTo("scalper")

----------------------------------------------------------------------------
(* The scalper, later in the cycle.                                        *)

(* _modify_sl; the scalper takes the stop for moved whatever it returns.   *)
ScalperMovesStop(sl) ==
    \/ /\ TakesStop(sl)
       /\ broker' = [broker EXCEPT !.sl = sl]
       /\ UNCHANGED refusals
    \/ /\ Refused(~TakesStop(sl))
       /\ UNCHANGED broker

ScalpAtBreakeven ==
    /\ scalp.sl < OpenPrice
    /\ price >= OpenPrice + (OpenPrice - scalp.sl)
ScalpTrails ==
    /\ scalp.breakevenHit
    /\ price > scalp.high
    /\ price - TrailStep > scalp.sl

(* scan_and_execute may stop in _check_safety before it comes to the       *)
(* stops; refresh_trade_statuses drops a scalp whose position is closed,   *)
(* and run_cycle registers one the registry does not hold.                 *)
ScalperRuns ==
    /\ pc = "scalper"
    /\ \/ UNCHANGED <<broker, refusals>> /\ scalp' = IF broker.open THEN scalp ELSE NoScalp
       \/ /\ scalp.held /\ broker.open /\ ScalpAtBreakeven
          /\ ScalperMovesStop(OpenPrice + Buffer)
          /\ scalp' = [scalp EXCEPT !.sl = OpenPrice + Buffer,
                                    !.breakevenHit = TRUE]
       \/ /\ scalp.held /\ broker.open /\ ~ScalpAtBreakeven /\ ScalpTrails
          /\ ScalperMovesStop(price - TrailStep)
          /\ scalp' = [scalp EXCEPT !.sl = price - TrailStep, !.high = price]
    /\ rm' = IF ~rm.held /\ scalp'.held THEN ScalpEntry ELSE rm
    /\ GoesTo("asleep")
    /\ UNCHANGED <<fixed, price, old, paused, restarts>>

----------------------------------------------------------------------------
(* A crash, and start(), which registers what it finds except a scalp (by  *)
(* its magic number) and gives it no "atr"; the read may fail.             *)
Restarts ==
    /\ restarts < MaxRestarts
    /\ restarts' = restarts + 1
    /\ scalp' = NoScalp
    /\ \/ /\ broker.open /\ owner # "scalper"
          /\ rm' = Entry(broker.sl, 0)
          /\ UNCHANGED refusals
       \/ /\ Refused(~broker.open \/ owner = "scalper")
          /\ rm' = NotHeld
    /\ GoesTo("asleep")
    /\ UNCHANGED <<fixed, price, broker, old, paused>>

Manages ==
    \/ ReadsPositions \/ TrailsTarget
    \/ \E c \in Prices \cup {Unbound} : OptimizesExit(c)
    \/ ExitsOnTime \/ TakesPartial \/ MovesToBreakeven \/ TrailsByAtr
    \/ \E sl \in Prices : TrailsByBand(sl)

Next ==
    \/ \E p \in Prices : PriceMoves(p)
    \/ Ages \/ PausesOrResumes
    \/ Manages \/ ScalperRuns
    \/ Restarts

(* The engine's loop never stops calling run_cycle.                        *)
Spec == Init /\ [][Next]_vars /\ WF_vars(Manages) /\ WF_vars(ScalperRuns)

----------------------------------------------------------------------------
(* Every variable holds a value of its kind.                               *)
Entries == [held : {TRUE}, entry : Prices, sl : Int, tp : Int,
            atr : {0, Atr, SyncedAtr}, partial : BOOLEAN, age : 0..Cooldown,
            filled : BOOLEAN]
TypeOK ==
    /\ direction \in {"BUY", "SELL"}
    /\ owner \in {"engine", "scalper", "outsider"}
    /\ price \in Prices
    /\ broker \in [open : BOOLEAN, sl : Int, tp : Int,
                   reason : {"none", "stop", "target", "partial",
                             "EXIT_OPTIMIZER", "TIME_EXIT"}]
    /\ rm = NotHeld \/ rm \in Entries
    /\ scalp = NoScalp \/ scalp \in [held : {TRUE}, sl : Int,
                                     breakevenHit : BOOLEAN, high : Prices]
    /\ pc \in {"asleep", "target", "exit", "time", "partial", "breakeven",
               "atr", "bbstop", "scalper"}
    /\ pc \notin {"asleep", "scalper"} => rm.held
    /\ seen \in Prices /\ current \in Prices \cup {Unbound} /\ dist \in Nat
    /\ old \in BOOLEAN /\ paused \in BOOLEAN
    /\ refusals \in 0..MaxRefusals /\ restarts \in 0..MaxRestarts

(* As long as no scalper has a hand in it, the engine's copy of the stop   *)
(* is the broker's: a modification that the broker refused, a partial      *)
(* close or a restart in between do not part them.                         *)
CopiesAgree ==
    owner # "scalper" /\ rm.held /\ broker.open => rm.sl = broker.sl

(* The stop at the broker is moved away from the price only by a manager   *)
(* whose own copy is no longer the broker's, because the other one has     *)
(* moved the stop since: each alone only ever tightens it.                 *)
OnlyStaleCopiesLoosen ==
    [][broker'.open /\ broker'.sl < broker.sl =>
           \/ pc = "scalper" /\ scalp.sl # broker.sl
           \/ pc # "scalper" /\ owner = "scalper" /\ rm.sl # broker.sl]_vars

(* A position closed by the time exit was in profit by the risk it was     *)
(* opened with only if its stop or its entry had been moved since, or the  *)
(* price it was judged by was another symbol's.                            *)
Risk == OpenPrice - Stop
WinnersForcedOut ==
    [][/\ broker'.reason = "TIME_EXIT" /\ broker.open
       /\ seen >= OpenPrice + Risk
       => rm.sl # Stop \/ rm.entry # OpenPrice \/ current # seen]_vars

(* A position that stays below its entry and is held for 96 hours is       *)
(* closed, whatever the positions managed before it do to the local        *)
(* current, if the engine is not paused for ever.                          *)
LosingForGood == old /\ ~paused /\ price <= OpenPrice
TimeExitComes == <>[]LosingForGood => <>~broker.open

(* A position that stays in profit by the risk it was opened with is       *)
(* closed, has its stop at the entry, or has had its partial target taken. *)
WinningForGood == ~paused /\ price >= OpenPrice + Risk
Secured == ~broker.open \/ broker.sl >= OpenPrice \/ (rm.held /\ rm.partial)
BreakevenComes == <>[]WinningForGood => <>Secured

(* "Exit optimizer cooldown - don't run exit optimizer within first N      *)
(* cycles after a position is registered (prevents premature closure on    *)
(* engine restart)": the optimizer closes nothing that a restart found.    *)
RestartClosesNothing == broker.reason # "EXIT_OPTIMIZER"
=============================================================================
