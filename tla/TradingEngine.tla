--------------------------- MODULE TradingEngine ---------------------------
(***************************************************************************)
(* The live engine of unified_engine.py against the broker: the cycle of   *)
(* run_cycle with the MTF scalper inside it, and the registry              *)
(* RiskManager.open_positions, keyed by SYMBOL, that both use to decide    *)
(* whether they may trade while the broker's positions are keyed by        *)
(* TICKET.  What is modelled is who knows of which position, when its      *)
(* result is recorded, and which orders are sent in between.               *)
(*                                                                         *)
(* The broker moves at any time: positions are closed by their stops, by   *)
(* the close endpoints or by hand, and opened by the /trade endpoint or by *)
(* ScalpingEngine, neither of which registers what it opens.  A read of    *)
(* the positions may fail (the client returns an empty list for it), the   *)
(* answer to an order may be lost although the broker has filled it, the   *)
(* process may crash anywhere and start again with its memory gone, and an *)
(* exception may abandon a cycle anywhere.                                 *)
(*                                                                         *)
(* Signals, prices and sizes only decide whether an order is sent: that    *)
(* they refuse one is the choice not to take the action.  The drawdown and *)
(* the equity curve, when they pause a cycle, are choices too, and a       *)
(* recorded result may or may not be the one that reaches a daily limit;   *)
(* module RiskManager has the amounts.                                     *)
(***************************************************************************)
EXTENDS Breaker, FiniteSets

CONSTANTS
    Tickets,        \* the tickets the broker will give out
    Symbols,
    NoTicket,
    NoSymbol,
    PnLs,           \* what a position may realise, or be taken to have
    MaxConcurrent,  \* max_concurrent_trades: 6 in CONFIG
    ScalperMax,     \* scalper_max_concurrent: 5 in CONFIG
    MaxOutsiders,   \* bound on orders sent past the engine
    MaxFaults,      \* bound on failed reads and lost answers
    MaxRestarts,    \* bound on crashes
    MaxDays         \* bound on midnights

ASSUME NamesAssumption == NoTicket \notin Tickets /\ NoSymbol \notin Symbols
ASSUME TicketsAssumption == IsFiniteSet(Tickets)
ASSUME PnLsAssumption == PnLs \subseteq Int
ASSUME LimitsAssumption == MaxConcurrent \in Nat /\ ScalperMax \in Nat
ASSUME BoundsAssumption ==
    /\ MaxOutsiders \in Nat /\ MaxFaults \in Nat
    /\ MaxRestarts \in Nat /\ MaxDays \in Nat

VARIABLES
    broker,     \* the broker's positions, by ticket
    registry,   \* risk.open_positions, by symbol
    openScalps, \* scalper.open_scalps
    unsynced,   \* entries of scalper.trade_history without _synced
    cb,         \* the circuit breaker
    halted,     \* daily_target_hit or daily_limit_hit
    midnight,   \* the date has changed since the counters were reset
    pc,         \* where the engine's thread is
    positions,  \* the local of _manage_existing_positions
    recorded,   \* history: calls of record_trade_result for each ticket
    outsiders, faults, restarts, days   \* counters of the bounded events

program == <<registry, openScalps, unsynced, cb, halted, midnight, positions>>
counters == <<outsiders, faults, restarts, days>>
vars == <<broker, program, pc, counters, recorded>>

NoPosition == [status |-> "unused", symbol |-> NoSymbol, owner |-> "nobody",
               pnl |-> 0]
NotHeld    == [ticket |-> NoTicket, source |-> "none"]

Open(t)     == broker[t].status = "open"
Held(s)     == registry[s] # NotHeld
Registered  == {s \in Symbols : Held(s)}
SymbolsOf(tickets) == {broker[t].symbol : t \in tickets}

Init ==
    /\ broker = [t \in Tickets |-> NoPosition]
    /\ registry = [s \in Symbols |-> NotHeld]
    /\ openScalps = {}
    /\ unsynced = {}
    /\ cb = InitialBreaker
    /\ halted = FALSE
    /\ midnight = FALSE
    /\ pc = "asleep"
    /\ positions = {}
    /\ outsiders = 0 /\ faults = 0 /\ restarts = 0 /\ days = 0
    /\ recorded = [t \in Tickets |-> 0]

----------------------------------------------------------------------------
(* The broker and the world.                                               *)

(* place_order: the broker fills the order and gives it a new ticket.      *)
Fills(t, s, owner) ==
    /\ broker[t] = NoPosition
    /\ broker' = [broker EXCEPT ![t] =
           [status |-> "open", symbol |-> s, owner |-> owner, pnl |-> 0]]

(* The broker fills an order and the answer to it does not come, so that   *)
(* the engine takes it for refused.                                        *)
FillsUnanswered(t, s, owner) ==
    /\ faults < MaxFaults
    /\ faults' = faults + 1
    /\ Fills(t, s, owner)

(* An order of the /trade endpoint or of ScalpingEngine.                   *)
OutsiderOpens(t, s) ==
    /\ outsiders < MaxOutsiders
    /\ Fills(t, s, "outsider")
    /\ outsiders' = outsiders + 1
    /\ UNCHANGED <<program, pc, faults, restarts, days, recorded>>

(* A stop, a target, a close endpoint, a hand.                             *)
PositionCloses(t, pnl) ==
    /\ Open(t)
    /\ broker' = [broker EXCEPT ![t].status = "closed", ![t].pnl = pnl]
    /\ UNCHANGED <<program, pc, counters, recorded>>

Tick ==
    /\ cb.state = "OPEN" /\ cb.age < Cooldown
    /\ cb' = Older(cb)
    /\ UNCHANGED <<broker, registry, openScalps, unsynced, halted, midnight,
                   positions, pc, counters, recorded>>

MidnightPasses ==
    /\ days < MaxDays
    /\ days' = days + 1
    /\ midnight' = TRUE
    /\ UNCHANGED <<broker, registry, openScalps, unsynced, cb, halted,
                   positions, pc, outsiders, faults, restarts, recorded>>

(* get_daily_status, called by an API thread.                              *)
DailyStatusResets ==
    /\ midnight
    /\ midnight' = FALSE
    /\ halted' = FALSE
    /\ UNCHANGED <<broker, registry, openScalps, unsynced, cb, positions, pc,
                   counters, recorded>>

(* Mutant: only the positions with the engine's own magic number.          *)
ReadsEnginesOnly(result) ==
    /\ result = {t \in Tickets : Open(t) /\ broker[t].owner = "engine"}
    /\ UNCHANGED faults

(* What a read of the positions returns: all of them, or nothing if the    *)
(* call failed.                                                            *)
Reads(result) ==
    \/ result = {t \in Tickets : Open(t)} /\ UNCHANGED faults
    \/ faults < MaxFaults /\ faults' = faults + 1 /\ result = {}

(* The sum of the deals of a position: what it has closed with, if the     *)
(* terminal has it; on one that is still open, whatever a partial close    *)
(* (close_partial) has realised.                                           *)
DealsOf(t) == IF Open(t) THEN {0} \cup PnLs ELSE {0, broker[t].pnl}

(* The result the reconciliation works with: the deals or, when the call   *)
(* for them raises, an estimate from the last price the engine knows.      *)
ResultOf(t) == DealsOf(t) \cup PnLs

----------------------------------------------------------------------------
(* Registering and recording.                                              *)

(* One entry for every symbol of S that is not held, for any one of the    *)
(* tickets that has the symbol: the first or the last of a list.           *)
RegistersMissing(tickets, source, held) ==
    \E pick \in [Symbols -> tickets \cup {NoTicket}] :
        /\ \A s \in Symbols :
               IF s \in SymbolsOf(tickets) /\ held[s] = NotHeld
               THEN pick[s] \in tickets /\ broker[pick[s]].symbol = s
               ELSE pick[s] = NoTicket
        /\ registry' = [s \in Symbols |->
               IF pick[s] = NoTicket THEN held[s]
               ELSE [ticket |-> pick[s], source |-> source]]

(* record_trade_result, which may be the result that reaches a daily limit.*)
Records(t, pnl) ==
    /\ cb' = AfterResult(cb, pnl)
    /\ halted' \in IF pnl = 0 THEN {halted} ELSE {halted, TRUE}
    /\ recorded' = [recorded EXCEPT ![t] = @ + 1]

NothingRecorded == UNCHANGED <<cb, halted, recorded>>

----------------------------------------------------------------------------
(* The process.                                                            *)

(* A crash, and start() in the new process: memory is gone, the positions  *)
(* are read back except those of the scalper.                              *)
Restart ==
    /\ restarts < MaxRestarts
    /\ restarts' = restarts + 1
    /\ \E read \in SUBSET Tickets :
           /\ Reads(read)
           /\ RegistersMissing({t \in read : broker[t].owner # "scalper"},
                               "engine", [s \in Symbols |-> NotHeld])
    /\ openScalps' = {}
    /\ unsynced' = {}
    /\ cb' = InitialBreaker
    /\ halted' = FALSE
    /\ midnight' = FALSE
    /\ positions' = {}
    /\ pc' = "asleep"
    /\ UNCHANGED <<broker, outsiders, days, recorded>>

(* An exception reaches the loop of run_engine, or the cycle is over.      *)
LeavesCycle ==
    /\ pc # "asleep"
    /\ pc' = "asleep"
    /\ positions' = {}
    /\ UNCHANGED <<broker, registry, openScalps, unsynced, cb, halted,
                   midnight, counters, recorded>>

----------------------------------------------------------------------------
(* run_cycle: the gates.                                                   *)

(* can_trade_today: a day that is over still manages its positions.        *)
DailyGate ==
    /\ pc = "asleep"
    /\ halted' = (halted /\ ~midnight)
    /\ midnight' = FALSE
    /\ pc' = IF halted' THEN "manage_only" ELSE "allowed"
    /\ UNCHANGED <<broker, registry, openScalps, unsynced, cb, positions,
                   counters, recorded>>

(* check_circuit_breaker.  The drawdown pause before it and the equity     *)
(* curve after it leave the cycle.                                         *)
BreakerGate ==
    /\ pc = "allowed"
    /\ cb' = AfterCheck(cb)
    /\ pc' = IF Admits(cb) THEN "manage" ELSE "asleep"
    /\ UNCHANGED <<broker, registry, openScalps, unsynced, halted, midnight,
                   positions, counters, recorded>>

----------------------------------------------------------------------------
(* _manage_existing_positions.                                             *)

ReadPositions ==
    /\ pc \in {"manage", "manage_only"}
    /\ Reads(positions')
    /\ pc' = IF pc = "manage" THEN "reconcile" ELSE "reconcile_only"
    /\ UNCHANGED <<broker, registry, openScalps, unsynced, cb, halted,
                   midnight, outsiders, restarts, days, recorded>>

Stale == Registered \ SymbolsOf(positions)

WorthRecording(pnl, source) == pnl # 0 \/ source = "scalper"

(* Mutant: the entry is emptied and stays.                                 *)
DropsTicketOnly(s) == registry' = [registry EXCEPT ![s].ticket = NoTicket]

Drops(s) == registry' = [registry EXCEPT ![s] = NotHeld]

(* A registered symbol the broker no longer holds: its result is recorded  *)
(* if there is one, a scalp's in any case, and the entry is dropped.       *)
ReconcileStale(s) ==
    /\ pc \in {"reconcile", "reconcile_only"}
    /\ s \in Stale
    /\ \E pnl \in ResultOf(registry[s].ticket) :
           IF WorthRecording(pnl, registry[s].source)
           THEN Records(registry[s].ticket, pnl)
           ELSE NothingRecorded
    /\ Drops(s)
    /\ UNCHANGED <<broker, openScalps, unsynced, midnight, positions, pc,
                   counters>>

(* Mutant: nothing is registered from the broker's list.                   *)
LeavesUnknown == UNCHANGED registry

RegistersUnknown == RegistersMissing(positions, "mt5_sync", registry)

(* Once nothing is stale, every symbol of the list is registered.          *)
ReverseReconcile ==
    /\ pc \in {"reconcile", "reconcile_only"}
    /\ Stale = {}
    /\ RegistersUnknown
    /\ pc' = IF pc = "reconcile" THEN "closing" ELSE "closing_only"
    /\ UNCHANGED <<broker, openScalps, unsynced, cb, halted, midnight,
                   positions, counters, recorded>>

(* _close_trade on a position of the list, for a time exit or the exit     *)
(* optimizer, provided its symbol is still held: the ticket of the list is *)
(* closed, and the entry of its symbol dropped whatever its ticket.  A     *)
(* position that is no longer open cannot be closed and nothing changes.   *)
CloseTrade(t, pnl) ==
    /\ pc \in {"closing", "closing_only"}
    /\ t \in positions
    /\ Open(t)
    /\ Held(broker[t].symbol)
    /\ broker' = [broker EXCEPT ![t].status = "closed", ![t].pnl = pnl]
    /\ Records(t, pnl)
    /\ Drops(broker[t].symbol)
    /\ UNCHANGED <<openScalps, unsynced, midnight, positions, pc, counters>>

ManagingEnds ==
    /\ pc \in {"closing", "closing_only"}
    /\ pc' = IF pc = "closing" THEN "scalp" ELSE "asleep"
    /\ positions' = {}
    /\ UNCHANGED <<broker, registry, openScalps, unsynced, cb, halted,
                   midnight, counters, recorded>>

----------------------------------------------------------------------------
(* The scalper.                                                            *)

(* check_portfolio_limits                                                  *)
PortfolioHasRoom == Cardinality(Registered) < MaxConcurrent

(* Mutant: blocked_symbols is never set.                                   *)
NothingBlocked(s) == FALSE

(* scalper.blocked_symbols, the keys of the registry as the scan starts.   *)
Blocked(s) == Held(s)

(* _check_safety, where it lets the scalper trade.                         *)
Safe ==
    /\ Admits(cb)
    /\ Cardinality(openScalps) < ScalperMax
    /\ PortfolioHasRoom

(* scan_and_execute places at most one order.                              *)
ScalpOpens(t, s) ==
    /\ pc = "scalp"
    /\ Safe
    /\ ~Blocked(s)
    /\ Fills(t, s, "scalper")
    /\ openScalps' = openScalps \cup {t}
    /\ cb' = AfterCheck(cb)
    /\ pc' = "refresh"
    /\ UNCHANGED <<registry, unsynced, halted, midnight, positions, counters,
                   recorded>>

(* The scan goes on with the next group as if nothing had been bought.     *)
ScalpUnanswered(t, s) ==
    /\ pc = "scalp"
    /\ Safe
    /\ ~Blocked(s)
    /\ FillsUnanswered(t, s, "scalper")
    /\ cb' = AfterCheck(cb)
    /\ UNCHANGED <<registry, openScalps, unsynced, halted, midnight, positions,
                   pc, outsiders, restarts, days, recorded>>

(* No signal, or not safe; _check_safety may return before it asks the     *)
(* breaker.                                                                *)
NoScalp ==
    /\ pc = "scalp"
    /\ cb' \in {cb, AfterCheck(cb)}
    /\ pc' = "refresh"
    /\ UNCHANGED <<broker, registry, openScalps, unsynced, halted, midnight,
                   positions, counters, recorded>>

(* refresh_trade_statuses: a scalp the broker does not return is closed.   *)
RefreshScalps ==
    /\ pc = "refresh"
    /\ \E read \in SUBSET Tickets :
           /\ Reads(read)
           /\ openScalps' = openScalps \cap read
           /\ unsynced' = unsynced \cup (openScalps \ read)
    /\ pc' = "sync"
    /\ UNCHANGED <<broker, registry, cb, halted, midnight, positions,
                   outsiders, restarts, days, recorded>>

(* Mutant: the entry of the history is not marked.                         *)
LeavesUnsynced(t) == UNCHANGED unsynced

MarksSynced(t) == unsynced' = unsynced \ {t}

(* _sync_scalp_results, one entry of the history: it is recorded whoever   *)
(* has recorded it before, and the scalper's entry of the symbol dropped.  *)
SyncScalp(t) ==
    /\ pc = "sync"
    /\ t \in unsynced
    /\ \E pnl \in DealsOf(t) :
           IF pnl # 0 THEN Records(t, pnl) ELSE NothingRecorded
    /\ MarksSynced(t)
    /\ LET s == broker[t].symbol
       IN  registry' = IF registry[s].source = "scalper"
                       THEN [registry EXCEPT ![s] = NotHeld]
                       ELSE registry
    /\ UNCHANGED <<broker, openScalps, midnight, positions, pc, counters>>

(* Mutant: scalps are not registered.                                      *)
LeavesScalps == UNCHANGED registry

RegistersOpenScalps == RegistersMissing(openScalps, "scalper", registry)

(* The end of run_cycle's scalper block: scalps become registered.         *)
RegisterScalps ==
    /\ pc = "sync"
    /\ unsynced = {}
    /\ RegistersOpenScalps
    /\ pc' = "main"
    /\ UNCHANGED <<broker, openScalps, unsynced, cb, halted, midnight,
                   positions, counters, recorded>>

----------------------------------------------------------------------------
(* The main engine: _execute_trade for a signal of the list.               *)

RegistersTrade(t, s) ==
    registry' = [registry EXCEPT ![s] = [ticket |-> t, source |-> "engine"]]

(* The tests of run_cycle on each signal.                                  *)
SignalAllowed(s) ==
    /\ PortfolioHasRoom
    /\ ~Held(s)
    /\ s \notin SymbolsOf(openScalps)

MainOpens(t, s) ==
    /\ pc = "main"
    /\ SignalAllowed(s)
    /\ Fills(t, s, "engine")
    /\ RegistersTrade(t, s)
    /\ UNCHANGED <<openScalps, unsynced, cb, halted, midnight, positions, pc,
                   counters, recorded>>

(* The next signal is tried as if nothing had been bought.                 *)
MainUnanswered(t, s) ==
    /\ pc = "main"
    /\ SignalAllowed(s)
    /\ FillsUnanswered(t, s, "engine")
    /\ UNCHANGED <<program, pc, outsiders, restarts, days, recorded>>

----------------------------------------------------------------------------

World ==
    \/ \E t \in Tickets, s \in Symbols : OutsiderOpens(t, s)
    \/ \E t \in Tickets, pnl \in PnLs : PositionCloses(t, pnl)
    \/ Tick
    \/ MidnightPasses
    \/ DailyStatusResets
    \/ Restart

Cycle ==
    \/ DailyGate
    \/ BreakerGate
    \/ ReadPositions
    \/ \E s \in Symbols : ReconcileStale(s)
    \/ ReverseReconcile
    \/ \E t \in Tickets, pnl \in PnLs : CloseTrade(t, pnl)
    \/ ManagingEnds
    \/ \E t \in Tickets, s \in Symbols :
           ScalpOpens(t, s) \/ ScalpUnanswered(t, s)
    \/ NoScalp
    \/ RefreshScalps
    \/ \E t \in Tickets : SyncScalp(t)
    \/ RegisterScalps
    \/ \E t \in Tickets, s \in Symbols :
           MainOpens(t, s) \/ MainUnanswered(t, s)
    \/ LeavesCycle

Next == World \/ Cycle

Spec == Init /\ [][Next]_vars

----------------------------------------------------------------------------
(* Properties.                                                             *)

Locations ==
    {"asleep", "allowed", "manage", "manage_only", "reconcile",
     "reconcile_only", "closing", "closing_only", "scalp", "refresh", "sync",
     "main"}

(* Every variable keeps its type.                                          *)
TypeOK ==
    /\ broker \in [Tickets -> [status : {"unused", "open", "closed"},
                               symbol : Symbols \cup {NoSymbol},
                               owner  : {"nobody", "engine", "scalper",
                                         "outsider"},
                               pnl    : Int]]
    /\ registry \in [Symbols -> {NotHeld} \cup
                         [ticket : Tickets,
                          source : {"engine", "scalper", "mt5_sync"}]]
    /\ openScalps \subseteq Tickets
    /\ unsynced \subseteq Tickets
    /\ cb \in Breakers
    /\ halted \in BOOLEAN /\ midnight \in BOOLEAN
    /\ pc \in Locations
    /\ positions \subseteq Tickets
    /\ outsiders \in Nat /\ faults \in Nat
    /\ restarts \in Nat /\ days \in Nat
    /\ recorded \in [Tickets -> Nat]

(* The positions of the engine and of its scalper.                         *)
OwnOpen == {t \in Tickets : Open(t) /\ broker[t].owner # "outsider"}

OwnOn(s) == {t \in OwnOpen : broker[t].symbol = s}

(* Engine and scalper hold at most one position of a symbol between them,  *)
(* whatever closes, crashes or is abandoned in the middle of a cycle: the  *)
(* cross-dedup of run_cycle and the reconciliation do their work together. *)
(* A failed read, an order whose answer is lost, or one sent past the      *)
(* engine, costs one more at most.                                         *)
NoDoubleUp ==
    \A s \in Symbols : Cardinality(OwnOn(s)) <= 1 + faults + outsiders

(* Nor do they hold more positions at the broker than max_concurrent_trades*)
(* although the limit is checked on the registry (check_portfolio_limits). *)
(* A failed read empties the registry and lets it be filled once more; an  *)
(* order that was filled unanswered is in no registry.                     *)
PortfolioBounded ==
    Cardinality(OwnOpen) <= MaxConcurrent * (1 + faults) + outsiders

(* Where the main engine sends its orders, the registry has every symbol   *)
(* the two hold, unless a read has failed, an answer was lost or others    *)
(* trade.                                                                  *)
MainSeesEveryPosition ==
    faults = 0 /\ outsiders = 0 /\ pc = "main"
        => SymbolsOf(OwnOpen) \subseteq Registered

(* No result is recorded for a position that is still open, although a     *)
(* partial close has given it one, also when others trade the same symbols *)
(* and whatever crashes: it takes a read that failed.                      *)
RecordedOnlyClosed ==
    \A t \in Tickets : recorded[t] > 0 /\ Open(t) => faults > 0

(* A position enters the results once, one of the scalper at most twice:   *)
(* by _manage_existing_positions and by _sync_scalp_results.  A failed     *)
(* read, which takes the position for closed, lets it in once more.        *)
CountedOnceOrTwice ==
    \A t \in Tickets :
        recorded[t] <= (IF broker[t].owner = "scalper" THEN 2 ELSE 1) + faults

Losers == {t \in Tickets : recorded[t] > 0 /\ broker[t].pnl < 0}

(* An open breaker stands for as many losing positions, counting each once,*)
(* as docs/superpowers/specs/MTF_CASCADING_SCALPER says: "Circuit breaker  *)
(* (3 consecutive losses ...".                                             *)
BreakerOpensOnDistinctLosses ==
    cb.state = "OPEN" => Cardinality(Losers) >= LossLimit
============================================================================
