-------------------------- MODULE EngineLifecycle --------------------------
(***************************************************************************)
(* Who runs the live engine of unified_engine.py, and what starting it     *)
(* does to the positions it already manages.                               *)
(*                                                                         *)
(* The startup hook creates one thread, which calls start() and then runs  *)
(* cycles for as long as engine.running.  /engine/stop clears the flag;    *)
(* /engine/start calls start() on an API thread, whatever has become of    *)
(* the engine's thread, and start() reads the broker's positions and       *)
(* writes a fresh entry for each into risk.open_positions, the dictionary  *)
(* the engine's thread works on.  A cycle holds the entry of the position  *)
(* it manages (rm_pos) while it asks the broker for a partial close.       *)
(*                                                                         *)
(* A position is taken to be the only one of its symbol; module            *)
(* TradingEngine is about symbols that have several.  What pauses a cycle, *)
(* lets it trade or reach a partial target is a choice.  A read of the     *)
(* positions that fails is an empty list (misreads).                       *)
(***************************************************************************)
EXTENDS Integers, FiniteSets

CONSTANTS
    Positions,      \* the positions that ever exist
    NoPosition,
    ApiThreads,     \* threads of the server that may serve /engine/start
    MaxStarts,      \* bound on calls of /engine/start
    MaxFaults,      \* bound on exceptions in a cycle
    MaxMisreads     \* bound on reads of the positions that fail

ASSUME NamesAssumption == NoPosition \notin Positions
ASSUME BoundsAssumption ==
    MaxStarts \in Nat /\ MaxFaults \in Nat /\ MaxMisreads \in Nat
ASSUME ThreadsAssumption == IsFiniteSet(ApiThreads)

VARIABLES
    running,    \* engine.running
    pc,         \* where the engine's thread is
    seen,       \* the positions it has read: in start(), in a cycle
    stale,      \* stale_symbols, those still to be reconciled
    rm_pos,     \* the position whose entry it holds
    orphan,     \* that entry has been replaced in the registry since
    api,        \* where each API thread is
    apiSeen,    \* the positions it has read
    registry,   \* risk.open_positions: absent, fresh or partial_tp_done
    broker,     \* unused, open, closed
    starts, faults, misreads,   \* counters of the bounded events
    partials,   \* history: partial closes of each position
    recorded    \* history: results recorded for each position

thread == <<pc, seen, stale, rm_pos, orphan>>
apis == <<api, apiSeen>>
world == <<broker, starts, faults, misreads, partials, recorded>>
vars == <<running, thread, apis, registry, world>>

Opened == {p \in Positions : broker[p] = "open"}
Held(p) == registry[p] # "absent"

(* A new process; positions of the last one may still be open.             *)
Init ==
    /\ running = FALSE
    /\ pc = "starting"
    /\ seen = {} /\ stale = {}
    /\ rm_pos = NoPosition
    /\ orphan = FALSE
    /\ api = [a \in ApiThreads |-> "idle"]
    /\ apiSeen = [a \in ApiThreads |-> {}]
    /\ registry = [p \in Positions |-> "absent"]
    /\ broker \in [Positions -> {"unused", "open"}]
    /\ starts = 0 /\ faults = 0 /\ misreads = 0
    /\ partials = [p \in Positions |-> 0]
    /\ recorded = [p \in Positions |-> 0]

----------------------------------------------------------------------------
(* The broker.                                                             *)

PositionCloses(p) ==
    /\ broker[p] = "open"
    /\ broker' = [broker EXCEPT ![p] = "closed"]
    /\ UNCHANGED <<running, thread, apis, registry, starts, faults, misreads,
                   partials, recorded>>

(* MT5Client.get_positions answers with the positions, or with an empty    *)
(* list when the terminal does not answer.                                 *)
Reads(list) ==
    \/ list = Opened /\ UNCHANGED misreads
    \/ /\ misreads < MaxMisreads
       /\ list = {} /\ misreads' = misreads + 1

----------------------------------------------------------------------------
(* start(), on the engine's thread.                                        *)

(* mt5.connect, then get_positions; a failed connection ends the thread.   *)
ThreadConnects ==
    /\ pc = "starting"
    /\ \/ pc' = "registering" /\ Reads(seen')
       \/ pc' = "ended" /\ UNCHANGED <<seen, misreads>>
    /\ UNCHANGED <<running, stale, rm_pos, orphan, apis, registry, broker,
                   starts, faults, partials, recorded>>

ThreadRegisters(p) ==
    /\ pc = "registering"
    /\ p \in seen
    /\ registry' = [registry EXCEPT ![p] = "fresh"]
    /\ seen' = seen \ {p}
    /\ UNCHANGED <<running, pc, stale, rm_pos, orphan, apis, world>>

ThreadStarted ==
    /\ pc = "registering"
    /\ seen = {}
    /\ running' = TRUE
    /\ pc' = "loop"
    /\ UNCHANGED <<seen, stale, rm_pos, orphan, apis, registry, world>>

----------------------------------------------------------------------------
(* The endpoints.                                                          *)

ApiStop ==
    /\ running' = FALSE
    /\ UNCHANGED <<thread, apis, registry, world>>

(* start_engine; a running engine is left alone.                           *)
ApiStart(a) ==
    /\ api[a] = "idle"
    /\ starts < MaxStarts
    /\ ~running
    /\ starts' = starts + 1
    /\ api' = [api EXCEPT ![a] = "starting"]
    /\ UNCHANGED <<running, thread, apiSeen, registry, broker, faults, misreads,
                   partials, recorded>>

(* The endpoint answers "started" also when start() could not connect.     *)
ApiConnects(a) ==
    /\ api[a] = "starting"
    /\ \/ \E list \in {Opened, {}} :
             /\ Reads(list)
             /\ api' = [api EXCEPT ![a] = "registering"]
             /\ apiSeen' = [apiSeen EXCEPT ![a] = list]
       \/ /\ api' = [api EXCEPT ![a] = "idle"]
          /\ UNCHANGED <<apiSeen, misreads>>
    /\ UNCHANGED <<running, thread, registry, broker, starts, faults, partials,
                   recorded>>

(* One entry is replaced; the engine's thread may hold the one it replaces.*)
ApiRegisters(a, p) ==
    /\ api[a] = "registering"
    /\ p \in apiSeen[a]
    /\ registry' = [registry EXCEPT ![p] = "fresh"]
    /\ orphan' = (orphan \/ rm_pos = p)
    /\ apiSeen' = [apiSeen EXCEPT ![a] = @ \ {p}]
    /\ UNCHANGED <<running, pc, seen, stale, rm_pos, api, world>>

ApiStarted(a) ==
    /\ api[a] = "registering"
    /\ apiSeen[a] = {}
    /\ running' = TRUE
    /\ api' = [api EXCEPT ![a] = "idle"]
    /\ UNCHANGED <<thread, apiSeen, registry, world>>

----------------------------------------------------------------------------
(* run_engine's loop and run_cycle, on the engine's thread.                *)

LoopTest == IF running THEN "cycle" ELSE "ended"

Loops ==
    /\ pc \in {"loop", "paused", "sleeping"}
    /\ pc' = IF pc = "loop" THEN LoopTest ELSE "loop"
    /\ UNCHANGED <<running, seen, stale, rm_pos, orphan, apis, registry, world>>

(* A pause of the drawdown, the breaker or the equity curve returns before *)
(* the positions are managed.                                              *)
Gates ==
    /\ pc = "cycle"
    /\ \/ pc' = "paused" /\ UNCHANGED <<seen, misreads>>
       \/ pc' = "reading" /\ Reads(seen')
    /\ UNCHANGED <<running, stale, rm_pos, orphan, apis, registry, broker,
                   starts, faults, partials, recorded>>

(* Mutant: no entry is ever stale.                                         *)
NothingStale == {}

StaleEntries == {p \in Positions : Held(p)} \ seen

FindStale ==
    /\ pc = "reading"
    /\ stale' = StaleEntries
    /\ pc' = "reconciling"
    /\ UNCHANGED <<running, seen, rm_pos, orphan, apis, registry, world>>

(* Mutant: the entry is left in place.                                     *)
LeavesEntry(p) == UNCHANGED registry

DropsEntry(p) == registry' = [registry EXCEPT ![p] = "absent"]

(* What the position's deals add up to is recorded, unless it is nothing.  *)
(* They add up to something for an open position too, taken for closed by  *)
(* a read that failed: its commission, what was closed of it in part.      *)
Reconcile(p) ==
    /\ pc = "reconciling"
    /\ p \in stale
    /\ recorded' \in {recorded, [recorded EXCEPT ![p] = @ + 1]}
    /\ DropsEntry(p)
    /\ stale' = stale \ {p}
    /\ UNCHANGED <<running, pc, seen, rm_pos, orphan, apis, broker, starts,
                   faults, misreads, partials>>

ReverseReconcile ==
    /\ pc = "reconciling"
    /\ stale = {}
    /\ registry' = [p \in Positions |->
           IF p \in seen /\ ~Held(p) THEN "fresh" ELSE registry[p]]
    /\ pc' = "managing"
    /\ UNCHANGED <<running, seen, stale, rm_pos, orphan, apis, world>>

(* One position of the list: nothing to do, or nothing that succeeds.      *)
LeavesPosition(p) ==
    /\ pc = "managing"
    /\ p \in seen
    /\ seen' = seen \ {p}
    /\ UNCHANGED <<running, pc, stale, rm_pos, orphan, apis, registry, world>>

(* _close_trade, for the exit optimizer or the time exit.                  *)
CloseTrade(p) ==
    /\ pc = "managing"
    /\ p \in seen
    /\ Held(p)
    /\ broker[p] = "open"
    /\ broker' = [broker EXCEPT ![p] = "closed"]
    /\ recorded' = [recorded EXCEPT ![p] = @ + 1]
    /\ registry' = [registry EXCEPT ![p] = "absent"]
    /\ seen' = seen \ {p}
    /\ UNCHANGED <<running, pc, stale, rm_pos, orphan, apis, starts, faults,
                   misreads, partials>>

(* The partial target is reached, and the entry says it was not before.    *)
TakesEntry(p) ==
    /\ pc = "managing"
    /\ p \in seen
    /\ registry[p] = "fresh"
    /\ rm_pos' = p
    /\ orphan' = FALSE
    /\ pc' = "partial"
    /\ seen' = seen \ {p}
    /\ UNCHANGED <<running, stale, apis, registry, world>>

(* Mutant: partial_tp_done is not set.                                     *)
ForgetsPartial == UNCHANGED registry

MarksPartial ==
    registry' = IF orphan THEN registry
                ELSE [registry EXCEPT ![rm_pos] = "partial_tp_done"]

(* Mutant: the position of the last iteration stays in hand.               *)
KeepsHolding == UNCHANGED <<rm_pos, orphan>>

LetsGo == rm_pos' = NoPosition /\ orphan' = FALSE

(* close_partial, which closes all of a position of the smallest volume;   *)
(* the mark goes to the entry that was held, in the registry or not.       *)
PartialClose ==
    /\ pc = "partial"
    /\ \/ /\ broker[rm_pos] = "open"
          /\ broker' \in {broker, [broker EXCEPT ![rm_pos] = "closed"]}
          /\ partials' = [partials EXCEPT ![rm_pos] = @ + 1]
          /\ MarksPartial
       \/ UNCHANGED <<broker, partials, registry>>
    /\ pc' = "managing"
    /\ LetsGo
    /\ UNCHANGED <<running, seen, stale, apis, starts, faults, misreads, recorded>>

(* Signals, unless the day is over; then sleep.                            *)
ManagingEnds ==
    /\ pc = "managing"
    /\ seen = {}
    /\ pc' \in {"trading", "sleeping"}
    /\ UNCHANGED <<running, seen, stale, rm_pos, orphan, apis, registry, world>>

ExecuteTrade(p) ==
    /\ pc = "trading"
    /\ broker[p] = "unused"
    /\ broker' = [broker EXCEPT ![p] = "open"]
    /\ registry' = [registry EXCEPT ![p] = "fresh"]
    /\ UNCHANGED <<running, thread, apis, starts, faults, misreads, partials,
                   recorded>>

CycleEnds ==
    /\ pc = "trading"
    /\ pc' = "sleeping"
    /\ UNCHANGED <<running, seen, stale, rm_pos, orphan, apis, registry, world>>

(* Mutant: an exception ends the thread.                                   *)
ThreadDies == "ended"

AfterException == "sleeping"

InCycle == {"cycle", "reading", "reconciling", "managing", "partial", "trading"}

Exception ==
    /\ pc \in InCycle
    /\ faults < MaxFaults
    /\ faults' = faults + 1
    /\ pc' = AfterException
    /\ seen' = {} /\ stale' = {}
    /\ LetsGo
    /\ UNCHANGED <<running, apis, registry, broker, starts, misreads, partials,
                   recorded>>

----------------------------------------------------------------------------

ThreadStep ==
    \/ ThreadConnects
    \/ \E p \in Positions : ThreadRegisters(p)
    \/ ThreadStarted
    \/ Loops
    \/ Gates
    \/ FindStale
    \/ \E p \in Positions : Reconcile(p)
    \/ ReverseReconcile
    \/ \E p \in Positions : LeavesPosition(p)
    \/ \E p \in Positions : CloseTrade(p)
    \/ \E p \in Positions : TakesEntry(p)
    \/ PartialClose
    \/ ManagingEnds
    \/ \E p \in Positions : ExecuteTrade(p)
    \/ CycleEnds
    \/ Exception

ApiStep(a) ==
    \/ ApiConnects(a)
    \/ \E p \in Positions : ApiRegisters(a, p)
    \/ ApiStarted(a)

Next ==
    \/ ThreadStep
    \/ \E a \in ApiThreads : ApiStep(a)
    \/ \E a \in ApiThreads : ApiStart(a)
    \/ ApiStop
    \/ \E p \in Positions : PositionCloses(p)

(* Threads are scheduled, sleeps end and calls of the terminal return.     *)
(* Nobody has to stop or start the engine.                                 *)
Fairness ==
    /\ WF_vars(ThreadStep)
    /\ \A a \in ApiThreads : WF_vars(ApiStep(a))

Spec == Init /\ [][Next]_vars /\ Fairness

----------------------------------------------------------------------------
(* Properties.                                                             *)

InLoop == InCycle \cup {"loop", "paused", "sleeping"}

(* Every variable keeps its type, and an entry is held only while a        *)
(* partial close is under way.                                             *)
TypeOK ==
    /\ running \in BOOLEAN
    /\ pc \in InLoop \cup {"starting", "registering", "ended"}
    /\ seen \subseteq Positions /\ stale \subseteq Positions
    /\ rm_pos \in Positions \cup {NoPosition}
    /\ rm_pos \in Positions <=> pc = "partial"
    /\ orphan \in BOOLEAN
    /\ api \in [ApiThreads -> {"idle", "starting", "registering"}]
    /\ apiSeen \in [ApiThreads -> SUBSET Positions]
    /\ registry \in [Positions -> {"absent", "fresh", "partial_tp_done"}]
    /\ broker \in [Positions -> {"unused", "open", "closed"}]
    /\ starts \in Nat /\ faults \in Nat /\ misreads \in Nat
    /\ partials \in [Positions -> Nat] /\ recorded \in [Positions -> Nat]

(* A result is recorded once, however often the engine is stopped.  It is  *)
(* recorded once more at most for each call of /engine/start, whose list   *)
(* may be older than the reconciliation that dropped the position, and for *)
(* each failed read, after which it is dropped and registered anew.        *)
CountsPaidFor == \A p \in Positions : recorded[p] <= 1 + starts + misreads

(* The partial target is taken once, and once more at most for each call   *)
(* of /engine/start and each failed read: both replace the entry that      *)
(* remembers it, the one under the hands of a cycle if need be.            *)
PartialsPaidFor == \A p \in Positions : partials[p] <= 1 + starts + misreads

(* Once the engine's thread is in its loop, a running engine begins        *)
(* another cycle, whatever exception a cycle ends with.                    *)
ServesWhileRunning ==
    pc \in InLoop /\ running ~> pc = "cycle" \/ ~running

(* An entry whose position has closed leaves the registry, unless cycles   *)
(* are paused before they get there or the thread has ended.               *)
StaleEntriesLeave ==
    \A p \in Positions :
        pc \in InLoop /\ Held(p) /\ broker[p] = "closed"
            ~> ~Held(p) \/ pc \in {"paused", "ended"}

(* "/api/v1/engine/start | POST | Start engine" (README.md): a running     *)
(* engine begins a cycle.  A thread that has left its loop is gone.        *)
StartIsServed == running ~> pc = "cycle" \/ ~running
============================================================================
