----------------------------- MODULE GoldHedge -----------------------------
(***************************************************************************)
(* The Gold Hedge EA (apps/hedging/gold_hedge_ea.py) and its basket        *)
(* (hedge_basket.py): each tick analyzes the market and executes at most   *)
(* one signal, opening a basket, adding a hedge level opposite to the last *)
(* or closing all levels.  The order goes to the connector first and the   *)
(* basket is told of it afterwards.                                        *)
(*                                                                         *)
(* Prices are points of a small grid.  Lots are counted in halves of a     *)
(* hundredth, because the EA orders half again as much without rounding.   *)
(* The connector fills at a price of its own: unified_engine.py passes an  *)
(* MT5Connector that nobody has connected, which fills from a table of     *)
(* prices; a connected one fails at times, or loses the answer of an order *)
(* that was executed.  Indicators only choose the trend of a first entry.  *)
(***************************************************************************)
EXTENDS Integers, Sequences, FiniteSets

CONSTANTS
    Prices,         \* the grid
    Progression,    \* lot_progression, in hundredths of a lot
    LotMultiplier,  \* lot_multiplier, in hundredths
    MaxLevels,      \* max_hedge_levels
    HedgeDistance,  \* hedge_distance_atr, in points of the grid
    TakeProfit,     \* basket_tp_usd
    Floor,          \* min_profit_floor_usd
    TrailingStep,   \* trailing_tp_step_usd
    FreezeLoss,     \* freeze_loss_usd
    MaxOrders,      \* bound on orders
    MaxFaults,      \* bound on failures of the connector
    MaxOutside,     \* bound on positions closed by somebody else
    MaxRestarts     \* bound on restarts of the engine

ASSUME GridAssumption == Prices \subseteq Int
ASSUME ProgressionAssumption ==
    /\ Progression \in Seq(Nat \ {0}) /\ Progression # <<>>
    /\ MaxLevels \in Nat \ {0} /\ LotMultiplier \in Nat
ASSUME ConfigAssumption ==
    /\ HedgeDistance \in Nat \ {0} /\ TakeProfit \in Nat /\ Floor \in Nat
    /\ TrailingStep \in Nat \ {0} /\ FreezeLoss \in Nat
ASSUME BoundsAssumption ==
    MaxOrders \in Nat /\ MaxFaults \in Nat /\ MaxOutside \in Nat /\ MaxRestarts \in Nat

VARIABLES
    price,      \* the last close of the candles
    paused,     \* cycles end before the tick, or find no candles for it
    pc,         \* where the tick is
    direction,  \* of the signal under execution
    basket,     \* its levels, peak_profit and is_frozen; no levels: no basket
    next,       \* the level _execute_close_basket closes next
    closed,     \* whether it has closed any
    sent,       \* the orders the account has executed
    open,       \* tickets, indices of sent, of the positions still open
    faults, outside, restarts,      \* counters of the bounded events
    refused     \* history: fills that add_hedge would not take

market == <<price, paused>>
tick == <<pc, direction, next, closed>>
account == <<sent, open>>
counters == <<faults, outside, restarts, refused>>
vars == <<market, tick, basket, account, counters>>

Directions == {"BUY", "SELL"}
Opposite(d) == IF d = "BUY" THEN "SELL" ELSE "BUY"
Distance(x, y) == IF x > y THEN x - y ELSE y - x

NoBasket == [levels |-> <<>>, peak |-> 0, frozen |-> FALSE]
Active == basket.levels # <<>>
Level(k) == basket.levels[k]
Size == Len(basket.levels)
Last == basket.levels[Size]

Init ==
    /\ price \in Prices /\ paused \in BOOLEAN
    /\ pc = "idle" /\ direction = "BUY" /\ next = 1 /\ closed = FALSE
    /\ basket = NoBasket
    /\ sent = <<>> /\ open = {}
    /\ faults = 0 /\ outside = 0 /\ restarts = 0 /\ refused = 0

----------------------------------------------------------------------------
(* HedgeBasketManager.                                                     *)

ProfitOf(l, p) == (IF l.direction = "BUY" THEN p - l.entry ELSE l.entry - p) * l.lots

Pnl ==
    LET total[k \in 0..Size] ==
            IF k = 0 THEN 0 ELSE total[k - 1] + ProfitOf(Level(k), price)
    IN  total[Size]

Freezes(pnl) == pnl < -FreezeLoss

Trails(pnl) == pnl > Floor

(* Mutant: the basket is frozen and not closed.                            *)
ClosesOnProfit(pnl) == pnl >= TakeProfit /\ pnl >= Floor

(* should_close_basket, which also freezes it and raises its peak.         *)
ShouldClose(pnl) ==
    \/ Freezes(pnl)
    \/ pnl >= TakeProfit /\ pnl >= Floor
    \/ Trails(pnl) /\ basket.peak - pnl >= TrailingStep

Judged(pnl) ==
    CASE Freezes(pnl) -> [basket EXCEPT !.frozen = TRUE]
      [] ~ShouldClose(pnl) /\ Trails(pnl) /\ pnl > basket.peak ->
             [basket EXCEPT !.peak = pnl]
      [] OTHER -> basket

(* The lots an entry of the progression stands for.                        *)
Entry(k) == 2 * Progression[k]

(* The lots add_hedge may book: the progression, then a multiple of the    *)
(* last level rounded to hundredths; a tie falls to either side.           *)
BookedLots ==
    IF Size < Len(Progression) THEN {Entry(Size + 1)}
    ELSE {2 * ((Last.lots * LotMultiplier + half) \div 200) : half \in {99, 100}}

NewLevel(d, lots, fill) ==
    [direction |-> d, lots |-> lots, entry |-> fill, ticket |-> Len(sent) + 1]

(* Mutant: only a frozen basket refuses.                                   *)
TakesUnlessFrozen == ~basket.frozen

TakesHedge == ~basket.frozen /\ Size < MaxLevels

----------------------------------------------------------------------------
(* GoldHedgeEA.                                                            *)

Roomy == Len(sent) < MaxOrders

(* analyze, with a basket: the close is asked for before the hedge.        *)
Analyze ==
    /\ pc = "idle" /\ ~paused
    /\ Active
    /\ basket' = Judged(Pnl)
    /\ \/ /\ ShouldClose(Pnl)
          /\ pc' = "closing"
          /\ UNCHANGED <<direction, next, closed>>
       \/ /\ ~ShouldClose(Pnl)
          /\ Distance(price, Last.entry) >= HedgeDistance /\ Roomy
          /\ pc' = "hedging" /\ direction' = Opposite(Last.direction)
          /\ UNCHANGED <<next, closed>>
       \/ /\ ~ShouldClose(Pnl)
          /\ ~(Distance(price, Last.entry) >= HedgeDistance /\ Roomy)
          /\ UNCHANGED tick
    /\ UNCHANGED <<market, account, counters>>

(* Mutant: an entry is looked for whether there is a basket or not.        *)
AlwaysMayEnter == TRUE

MayEnter == ~Active

(* ... and without one: a trend and an RSI that allow a first entry.       *)
FirstEntry(d) ==
    /\ pc = "idle" /\ ~paused
    /\ MayEnter /\ Roomy
    /\ pc' = "opening" /\ direction' = d
    /\ UNCHANGED <<market, next, closed, basket, account, counters>>

(* Mutant: the level counts from one where the list counts from zero.      *)
LotsOneUp(level) ==
    IF level + 1 <= Len(Progression) THEN Entry(level + 1)
    ELSE 3 * Progression[Len(Progression)]

(* The lots _execute_add_hedge orders for a level: beyond the progression  *)
(* it is always the last entry, half again and not rounded.                *)
OrderedLots(level) ==
    IF level <= Len(Progression) THEN Entry(level)
    ELSE 3 * Progression[Len(Progression)]

(* place_order of the connector.                                           *)
Executes(lots) ==
    /\ sent' = Append(sent, [direction |-> direction, lots |-> lots])
    /\ open' = open \cup {Len(sent) + 1}

OpenBasket(fill) ==
    /\ pc = "opening"
    /\ Executes(OrderedLots(1))
    /\ basket' = [NoBasket EXCEPT !.levels =
                     <<NewLevel(direction, Entry(1), fill)>>]
    /\ pc' = "idle"
    /\ UNCHANGED <<market, direction, next, closed, counters>>

(* The order is filled, and the basket takes the level or refuses it.      *)
AddHedge(fill) ==
    /\ pc = "hedging"
    /\ Executes(OrderedLots(Size + 1))
    /\ \/ /\ TakesHedge
          /\ \E lots \in BookedLots :
                basket' = [basket EXCEPT !.levels = Append(@,
                              NewLevel(Opposite(Last.direction), lots, fill))]
          /\ UNCHANGED refused
       \/ ~TakesHedge /\ refused' = refused + 1 /\ UNCHANGED basket
    /\ pc' = "idle"
    /\ UNCHANGED <<market, direction, next, closed, faults, outside, restarts>>

(* place_order raises, with the order executed all the same or not.        *)
OrderFails ==
    /\ pc \in {"opening", "hedging"}
    /\ faults < MaxFaults
    /\ faults' = faults + 1
    /\ \/ UNCHANGED account
       \/ Executes(OrderedLots(Size + 1))
    /\ pc' = "idle"
    /\ UNCHANGED <<market, direction, next, closed, basket, outside, restarts,
                   refused>>

(* close_position of the connector.                                        *)
Closes(t) == t \in open /\ open' = open \ {t}

(* One level of _execute_close_basket; a position that is gone is an error.*)
(* (A close of which the answer is lost is one by somebody else.)          *)
CloseLevel ==
    /\ pc = "closing"
    /\ next <= Size
    /\ \/ /\ Closes(Level(next).ticket)
          /\ closed' = TRUE
          /\ UNCHANGED faults
       \/ /\ Level(next).ticket \in open
          /\ faults < MaxFaults
          /\ faults' = faults + 1
          /\ UNCHANGED <<open, closed>>
       \/ /\ Level(next).ticket \notin open
          /\ UNCHANGED <<open, closed, faults>>
    /\ next' = next + 1
    /\ UNCHANGED <<market, pc, direction, basket, sent, outside, restarts, refused>>

(* One closed level is enough to forget them all.                          *)
AfterClose == IF closed THEN NoBasket ELSE basket

CloseEnds ==
    /\ pc = "closing"
    /\ next > Size
    /\ basket' = AfterClose
    /\ pc' = "idle" /\ next' = 1 /\ closed' = FALSE
    /\ UNCHANGED <<market, direction, account, counters>>

----------------------------------------------------------------------------
(* The market, the account and the engine.                                 *)

Move(p) ==
    /\ p \in Prices /\ Distance(p, price) = 1
    /\ price' = p
    /\ UNCHANGED <<paused, tick, basket, account, counters>>

(* A daily limit, a drawdown, the breaker or the equity curve ends the     *)
(* cycle before the tick, or the candles are missing; and it passes, or    *)
(* never does.  A tick that has begun is not touched by it.                *)
PauseTurns ==
    /\ paused' = ~paused
    /\ UNCHANGED <<price, tick, basket, account, counters>>

(* By hand, or by a margin call: the positions have no stop and no target. *)
ClosedOutside(t) ==
    /\ t \in open
    /\ outside < MaxOutside
    /\ outside' = outside + 1
    /\ open' = open \ {t}
    /\ UNCHANGED <<market, tick, basket, sent, faults, restarts, refused>>

(* Baskets live in memory only.                                            *)
Restart ==
    /\ restarts < MaxRestarts
    /\ restarts' = restarts + 1
    /\ pc' = "idle" /\ next' = 1 /\ closed' = FALSE
    /\ basket' = NoBasket
    /\ UNCHANGED <<market, direction, account, faults, outside, refused>>

----------------------------------------------------------------------------

TickStep ==
    \/ Analyze
    \/ \E fill \in Prices : OpenBasket(fill) \/ AddHedge(fill)
    \/ OrderFails
    \/ CloseLevel
    \/ CloseEnds

Next ==
    \/ TickStep
    \/ \E d \in Directions : FirstEntry(d)
    \/ \E p \in Prices : Move(p)
    \/ PauseTurns
    \/ \E t \in open : ClosedOutside(t)
    \/ Restart

(* The engine's loop goes on ticking, but for its pauses.                  *)
Spec == Init /\ [][Next]_vars /\ WF_vars(TickStep)

----------------------------------------------------------------------------
(* Properties.                                                             *)

Levels == [direction : Directions, lots : Nat, entry : Prices, ticket : Nat]

(* Every variable keeps its type; a basket has no more levels than it may. *)
TypeOK ==
    /\ price \in Prices /\ paused \in BOOLEAN
    /\ pc \in {"idle", "opening", "hedging", "closing"}
    /\ direction \in Directions
    /\ basket.levels \in Seq(Levels) /\ Size <= MaxLevels
    /\ basket.peak \in Nat /\ basket.frozen \in BOOLEAN
    /\ next \in 1..MaxLevels + 1 /\ closed \in BOOLEAN
    /\ sent \in Seq([direction : Directions, lots : Nat])
    /\ open \subseteq 1..Len(sent)
    /\ faults \in Nat /\ outside \in Nat /\ restarts \in Nat /\ refused \in Nat

(* The EA orders a hedge by its own arithmetic and the basket books it by  *)
(* another.  They agree on the direction of every level, and on the lots   *)
(* as far as the progression goes; at the first level beyond it, with the  *)
(* multiplier that the EA takes for granted, the book is off by what the   *)
(* rounding takes, half a hundredth at most.                               *)
BookMatchesAccount ==
    \A k \in 1..Size :
        LET order == sent[Level(k).ticket] IN
        /\ order.direction = Level(k).direction
        /\ k <= Len(Progression) => order.lots = Level(k).lots
        /\ k = Len(Progression) + 1 /\ LotMultiplier = 150 =>
               Distance(order.lots, Level(k).lots) <= 1

Managed == {Level(k).ticket : k \in 1..Size}

(* A position is open that no basket knows only where a fill was refused   *)
(* (the order goes out although the basket is frozen or full), the         *)
(* connector failed (an answer lost, or a level left open when another     *)
(* one closed) or the engine forgot its basket in a restart.               *)
UnmanagedPaidFor ==
    Cardinality(open \ Managed) <= refused + faults + restarts * MaxLevels

(* Between ticks the levels of a basket are open positions, but for those  *)
(* somebody else has closed.                                               *)
BasketIsOpen ==
    pc = "idle" => Cardinality(Managed \ open) <= outside

(* A basket that loses more than the freeze limit is given up, unless the  *)
(* price returns in time.  It takes a position that the EA can still close *)
(* (when somebody else has closed one, no close may ever succeed) and      *)
(* cycles that get as far as the tick: a pause leaves the basket alone.    *)
LossEndsBasket ==
    Active /\ Pnl < -FreezeLoss
        ~> \/ ~Active \/ outside > 0 \/ paused
           \/ Pnl >= -FreezeLoss
============================================================================
