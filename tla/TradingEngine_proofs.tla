----------------------- MODULE TradingEngine_proofs -----------------------
(***************************************************************************)
(* Proofs about TradingEngine, for every value of its constants: its type  *)
(* invariant, whose results are recorded and how often, that engine and    *)
(* scalper do not double up, and that their portfolio stays bounded.       *)
(***************************************************************************)
EXTENDS TradingEngine, FiniteSetTheorems, TLAPS

----------------------------------------------------------------------------
(* The operators of the breaker keep its type.                             *)

LEMMA InitialBreakerType == InitialBreaker \in Breakers
  BY CooldownAssumption, RecoveryWinsAssumption
  DEF InitialBreaker, Breakers, BreakerStates

LEMMA AfterLossType == ASSUME NEW b \in Breakers PROVE AfterLoss(b) \in Breakers
<1>1. /\ b.losses + 1 \in Nat /\ b.recoveries \in 0 .. RecoveryWins - 1
      /\ b.age \in 0 .. Cooldown /\ 0 \in 0 .. Cooldown
      /\ b.state \in BreakerStates /\ "OPEN" \in BreakerStates
  BY CooldownAssumption DEF Breakers, BreakerStates
<1>2. CASE b.losses + 1 >= LossLimit
  BY <1>1, <1>2 DEF AfterLoss, Breakers
<1>3. CASE ~(b.losses + 1 >= LossLimit)
  BY <1>1, <1>3 DEF AfterLoss, Breakers
<1> QED BY <1>2, <1>3

LEMMA AfterWinType == ASSUME NEW b \in Breakers PROVE AfterWin(b) \in Breakers
<1>1. /\ b.wins + 1 \in Nat /\ b.recoveries \in Nat
      /\ b.recoveries < RecoveryWins /\ 0 \in 0 .. RecoveryWins - 1
      /\ b.state \in BreakerStates /\ "CLOSED" \in BreakerStates
      /\ b.age \in 0 .. Cooldown
  BY RecoveryWinsAssumption DEF Breakers, BreakerStates
<1>2. [b EXCEPT !.wins = b.wins + 1, !.losses = 0] \in Breakers
  BY <1>1 DEF Breakers
<1>3. CASE b.state # "HALF_OPEN"
  BY <1>2, <1>3 DEF AfterWin
<1>4. CASE b.state = "HALF_OPEN" /\ b.recoveries + 1 >= RecoveryWins
  BY <1>1, <1>2, <1>4 DEF AfterWin, Breakers
<1>5. CASE b.state = "HALF_OPEN" /\ ~(b.recoveries + 1 >= RecoveryWins)
  <2>1. b.recoveries + 1 \in 0 .. RecoveryWins - 1
    BY <1>1, <1>5, RecoveryWinsAssumption
  <2>2. AfterWin(b) = [[b EXCEPT !.wins = b.wins + 1, !.losses = 0]
                          EXCEPT !.recoveries = b.recoveries + 1]
    BY <1>5 DEF AfterWin
  <2> QED BY <1>2, <2>1, <2>2 DEF Breakers
<1> QED BY <1>3, <1>4, <1>5

LEMMA AfterResultType ==
  ASSUME NEW b \in Breakers, NEW pnl \in Int
  PROVE  AfterResult(b, pnl) \in Breakers
  BY AfterLossType, AfterWinType DEF AfterResult

LEMMA AfterCheckType == ASSUME NEW b \in Breakers PROVE AfterCheck(b) \in Breakers
  BY DEF AfterCheck, Breakers, BreakerStates

LEMMA OlderType == ASSUME NEW b \in Breakers PROVE Older(b) \in Breakers
  BY CooldownAssumption DEF Older, Breakers, BreakerStates

----------------------------------------------------------------------------

BrokerPositions ==
    [status : {"unused", "open", "closed"}, symbol : Symbols \cup {NoSymbol},
     owner : {"nobody", "engine", "scalper", "outsider"}, pnl : Int]

Entries ==
    {NotHeld} \cup [ticket : Tickets, source : {"engine", "scalper", "mt5_sync"}]

----------------------------------------------------------------------------
(* What the helpers of several actions do to the types.                    *)

LEMMA FillsType ==
  ASSUME TypeOK, NEW t \in Tickets, NEW s \in Symbols,
         NEW owner \in {"engine", "scalper", "outsider"}, Fills(t, s, owner)
  PROVE  broker' \in [Tickets -> BrokerPositions]
  BY DEF TypeOK, Fills, BrokerPositions

LEMMA ClosingType ==
  ASSUME TypeOK, NEW t \in Tickets, NEW pnl \in Int
  PROVE  [broker EXCEPT ![t].status = "closed", ![t].pnl = pnl]
             \in [Tickets -> BrokerPositions]
<1>1. /\ broker \in [Tickets -> BrokerPositions]
      /\ broker[t] \in BrokerPositions
  BY DEF TypeOK, BrokerPositions
<1>2. [broker[t] EXCEPT !.status = "closed", !.pnl = pnl] \in BrokerPositions
  BY <1>1 DEF BrokerPositions
<1>3. [broker EXCEPT ![t].status = "closed", ![t].pnl = pnl]
        = [broker EXCEPT ![t] = [broker[t] EXCEPT !.status = "closed",
                                                  !.pnl = pnl]]
  BY <1>1
<1> HIDE DEF BrokerPositions
<1> QED BY <1>1, <1>2, <1>3

LEMMA DealsOfType ==
  ASSUME TypeOK, NEW t \in Tickets
  PROVE  DealsOf(t) \subseteq Int /\ ResultOf(t) \subseteq Int
<1>1. broker[t].pnl \in Int
  BY DEF TypeOK
<1>2. DealsOf(t) \subseteq Int
  <2>1. CASE Open(t)
    BY <2>1, PnLsAssumption DEF DealsOf
  <2>2. CASE ~Open(t)
    BY <1>1, <2>2 DEF DealsOf
  <2> QED BY <2>1, <2>2
<1> QED BY <1>2, PnLsAssumption DEF ResultOf

LEMMA RecordsType ==
  ASSUME TypeOK, NEW t \in Tickets, NEW pnl \in Int, Records(t, pnl)
  PROVE  cb' \in Breakers /\ halted' \in BOOLEAN /\ recorded' \in [Tickets -> Nat]
<1>1. cb' \in Breakers
  BY AfterResultType DEF TypeOK, Records
<1>2. halted' \in BOOLEAN
  BY DEF TypeOK, Records
<1>3. recorded' \in [Tickets -> Nat]
  BY DEF TypeOK, Records
<1> QED BY <1>1, <1>2, <1>3

(* Whatever is registered from a list of tickets, the registry keeps its   *)
(* type.                                                                   *)
LEMMA RegistersMissingType ==
  ASSUME NEW tickets \in SUBSET Tickets,
         NEW source \in {"engine", "scalper", "mt5_sync"},
         NEW held \in [Symbols -> Entries],
         RegistersMissing(tickets, source, held)
  PROVE  registry' \in [Symbols -> Entries]
<1>1. PICK pick \in [Symbols -> tickets \cup {NoTicket}] :
          registry' = [s \in Symbols |->
              IF pick[s] = NoTicket THEN held[s]
              ELSE [ticket |-> pick[s], source |-> source]]
  BY DEF RegistersMissing
<1>2. ASSUME NEW s \in Symbols
      PROVE  (IF pick[s] = NoTicket THEN held[s]
              ELSE [ticket |-> pick[s], source |-> source]) \in Entries
  <2>1. held[s] \in Entries
    OBVIOUS
  <2>2. CASE pick[s] # NoTicket
    BY <2>2 DEF Entries
  <2> QED BY <2>1, <2>2
<1> HIDE DEF Entries
<1> QED BY <1>1, <1>2

LEMMA NothingHeldType ==
  /\ NotHeld \in Entries
  /\ [s \in Symbols |-> NotHeld] \in [Symbols -> Entries]
  BY DEF Entries

LEMMA ReadsType ==
  ASSUME TypeOK, NEW result, Reads(result)
  PROVE  result \in SUBSET Tickets /\ faults' \in Nat
  BY DEF TypeOK, Reads

----------------------------------------------------------------------------
(* Type correctness: one step for each action.                             *)

LEMMA InitTypeOK == ASSUME Init PROVE TypeOK
<1>1. broker \in [Tickets -> BrokerPositions]
  BY DEF Init, NoPosition, BrokerPositions
<1>2. registry \in [Symbols -> Entries]
  BY NothingHeldType DEF Init
<1> QED
  BY <1>1, <1>2, InitialBreakerType
  DEF Init, TypeOK, BrokerPositions, Entries, Locations

LEMMA WorldTypeOK == ASSUME TypeOK, World PROVE TypeOK'
<1> USE DEF counters, program
<1>1. ASSUME NEW t \in Tickets, NEW s \in Symbols, OutsiderOpens(t, s)
      PROVE  TypeOK'
  BY <1>1, FillsType DEF TypeOK, OutsiderOpens, BrokerPositions
<1>2. ASSUME NEW t \in Tickets, NEW pnl \in PnLs, PositionCloses(t, pnl)
      PROVE  TypeOK'
  BY <1>2, ClosingType, PnLsAssumption
  DEF TypeOK, PositionCloses, BrokerPositions
<1>3. CASE Tick
  BY <1>3, OlderType DEF TypeOK, Tick
<1>4. CASE MidnightPasses
  BY <1>4 DEF TypeOK, MidnightPasses
<1>5. CASE DailyStatusResets
  BY <1>5 DEF TypeOK, DailyStatusResets
<1>6. CASE Restart
  <2>1. faults' \in Nat /\ registry' \in [Symbols -> Entries]
    <3>1. PICK read \in SUBSET Tickets :
              /\ Reads(read)
              /\ RegistersMissing({t \in read : broker[t].owner # "scalper"},
                                  "engine", [s \in Symbols |-> NotHeld])
      BY <1>6 DEF Restart
    <3>2. {t \in read : broker[t].owner # "scalper"} \in SUBSET Tickets
      OBVIOUS
    <3> QED BY <3>1, <3>2, ReadsType, RegistersMissingType, NothingHeldType
  <2>2. restarts' \in Nat /\ cb' \in Breakers /\ pc' \in Locations
    BY <1>6, InitialBreakerType DEF TypeOK, Restart, Locations
  <2> QED BY <1>6, <2>1, <2>2 DEF TypeOK, Restart, Entries
<1> QED BY <1>1, <1>2, <1>3, <1>4, <1>5, <1>6 DEF World

LEMMA CycleTypeOK == ASSUME TypeOK, Cycle PROVE TypeOK'
<1> USE DEF counters, program, Locations
<1>1. CASE DailyGate
  BY <1>1 DEF TypeOK, DailyGate
<1>2. CASE BreakerGate
  BY <1>2, AfterCheckType DEF TypeOK, BreakerGate
<1>3. CASE ReadPositions
  BY <1>3, ReadsType DEF TypeOK, ReadPositions
<1>4. ASSUME NEW s \in Symbols, ReconcileStale(s) PROVE TypeOK'
  <2>1. registry' \in [Symbols -> Entries]
    BY <1>4, NothingHeldType DEF TypeOK, ReconcileStale, Drops, Entries
  <2>2. cb' \in Breakers /\ halted' \in BOOLEAN /\ recorded' \in [Tickets -> Nat]
    <3>1. PICK pnl \in ResultOf(registry[s].ticket) :
              IF WorthRecording(pnl, registry[s].source)
              THEN Records(registry[s].ticket, pnl)
              ELSE NothingRecorded
      BY <1>4 DEF ReconcileStale
    <3>2. CASE NothingRecorded
      BY <3>2 DEF TypeOK, NothingRecorded
    <3>3. CASE Records(registry[s].ticket, pnl)
      <4>1. registry[s].ticket \in Tickets
        BY <1>4 DEF TypeOK, ReconcileStale, Stale, Registered, Held
      <4>2. pnl \in Int
        BY <4>1, DealsOfType
      <4> QED BY <3>3, <4>1, <4>2, RecordsType
    <3> QED BY <3>1, <3>2, <3>3
  <2> QED BY <1>4, <2>1, <2>2 DEF TypeOK, ReconcileStale, Entries
<1>5. CASE ReverseReconcile
  <2>1. registry' \in [Symbols -> Entries]
    BY <1>5, RegistersMissingType
    DEF TypeOK, ReverseReconcile, RegistersUnknown, Entries
  <2> QED BY <1>5, <2>1 DEF TypeOK, ReverseReconcile, Entries
<1>6. ASSUME NEW t \in Tickets, NEW pnl \in PnLs, CloseTrade(t, pnl)
      PROVE  TypeOK'
  <2>1. registry' \in [Symbols -> Entries]
    BY <1>6, NothingHeldType DEF TypeOK, CloseTrade, Drops, Entries
  <2>2. broker' \in [Tickets -> BrokerPositions]
    BY <1>6, ClosingType, PnLsAssumption DEF CloseTrade
  <2>3. cb' \in Breakers /\ halted' \in BOOLEAN /\ recorded' \in [Tickets -> Nat]
    BY <1>6, RecordsType, PnLsAssumption DEF CloseTrade
  <2> QED BY <1>6, <2>1, <2>2, <2>3
      DEF TypeOK, CloseTrade, Entries, BrokerPositions
<1>7. CASE ManagingEnds
  BY <1>7 DEF TypeOK, ManagingEnds
<1>8. ASSUME NEW t \in Tickets, NEW s \in Symbols, ScalpOpens(t, s)
      PROVE  TypeOK'
  BY <1>8, FillsType, AfterCheckType DEF TypeOK, ScalpOpens, BrokerPositions
<1>9. CASE NoScalp
  BY <1>9, AfterCheckType DEF TypeOK, NoScalp
<1>10. CASE RefreshScalps
  <2>1. faults' \in Nat
    BY <1>10, ReadsType DEF RefreshScalps
  <2>2. openScalps' \subseteq Tickets /\ unsynced' \subseteq Tickets
    BY <1>10 DEF TypeOK, RefreshScalps
  <2> QED BY <1>10, <2>1, <2>2 DEF TypeOK, RefreshScalps
<1>11. ASSUME NEW t \in Tickets, SyncScalp(t) PROVE TypeOK'
  <2>1. registry' \in [Symbols -> Entries]
    BY <1>11, NothingHeldType DEF TypeOK, SyncScalp, Entries
  <2>2. cb' \in Breakers /\ halted' \in BOOLEAN /\ recorded' \in [Tickets -> Nat]
    <3>1. PICK pnl \in DealsOf(t) :
              IF pnl # 0 THEN Records(t, pnl) ELSE NothingRecorded
      BY <1>11 DEF SyncScalp
    <3>2. CASE NothingRecorded
      BY <3>2 DEF TypeOK, NothingRecorded
    <3>3. CASE Records(t, pnl)
      BY <3>3, DealsOfType, RecordsType
    <3> QED BY <3>1, <3>2, <3>3
  <2>3. unsynced' \subseteq Tickets
    BY <1>11 DEF TypeOK, SyncScalp, MarksSynced
  <2> QED BY <1>11, <2>1, <2>2, <2>3 DEF TypeOK, SyncScalp, Entries
<1>12. CASE RegisterScalps
  <2>1. registry' \in [Symbols -> Entries]
    BY <1>12, RegistersMissingType
    DEF TypeOK, RegisterScalps, RegistersOpenScalps, Entries
  <2> QED BY <1>12, <2>1 DEF TypeOK, RegisterScalps, Entries
<1>13. ASSUME NEW t \in Tickets, NEW s \in Symbols, MainOpens(t, s)
       PROVE  TypeOK'
  BY <1>13, FillsType DEF TypeOK, MainOpens, RegistersTrade, BrokerPositions
<1>14. CASE LeavesCycle
  BY <1>14 DEF TypeOK, LeavesCycle
<1>15. ASSUME NEW t \in Tickets, NEW s \in Symbols, ScalpUnanswered(t, s)
       PROVE  TypeOK'
  BY <1>15, FillsType, AfterCheckType
  DEF TypeOK, ScalpUnanswered, FillsUnanswered, BrokerPositions
<1>16. ASSUME NEW t \in Tickets, NEW s \in Symbols, MainUnanswered(t, s)
       PROVE  TypeOK'
  BY <1>16, FillsType
  DEF TypeOK, MainUnanswered, FillsUnanswered, BrokerPositions
<1> QED
  BY <1>1, <1>2, <1>3, <1>4, <1>5, <1>6, <1>7, <1>8, <1>9, <1>10, <1>11,
     <1>12, <1>13, <1>14, <1>15, <1>16
  DEF Cycle

(* Every behaviour of engine, scalper and broker is type correct, whatever *)
(* the tickets, symbols, results and limits.                               *)
THEOREM TypeCorrect == Spec => []TypeOK
<1>1. TypeOK /\ [Next]_vars => TypeOK'
  <2>1. ASSUME TypeOK, UNCHANGED vars PROVE TypeOK'
    BY <2>1 DEF vars, program, counters, TypeOK
  <2> QED BY <2>1, WorldTypeOK, CycleTypeOK DEF Next
<1> QED BY <1>1, InitTypeOK, PTL DEF Spec

----------------------------------------------------------------------------
(* Which results are recorded.                                             *)

Reconciling == {"reconcile", "reconcile_only"}

Used(t) == broker[t].status # "unused"
Scalp(t) == broker[t].owner = "scalper"

(* Entries are of positions that were opened, for the symbol they are      *)
(* filed under; one of an open position is in the list the reconciliation  *)
(* works on, unless a read has failed.                                     *)
EntryFiled(s) ==
    Held(s) =>
        /\ broker[registry[s].ticket].symbol = s
        /\ Used(registry[s].ticket)
        /\ registry[s].source = "scalper" => Scalp(registry[s].ticket)
        /\ pc \in Reconciling /\ faults = 0 /\ Open(registry[s].ticket)
               => registry[s].ticket \in positions

(* So is what the scalper knows and what a read returned.                  *)
ListsFiled ==
    /\ \A t \in openScalps \cup unsynced : Used(t) /\ Scalp(t)
    /\ openScalps \cap unsynced = {}
    /\ \A t \in unsynced : Open(t) => faults > 0
    /\ \A t \in positions : Used(t)

PositionFiled(t) ==
    IF Used(t) THEN broker[t].symbol \in Symbols
    ELSE recorded[t] = 0 /\ broker[t] = NoPosition

Filed ==
    /\ \A s \in Symbols : EntryFiled(s)
    /\ ListsFiled
    /\ \A t \in Tickets : PositionFiled(t)

Entered(t) == \E s \in Symbols : registry[s].ticket = t

(* The engine may still record t: it is open, or entered, or about to be   *)
(* entered from a list that was read while it was open.                    *)
Recordable(t) ==
    \/ Open(t)
    \/ Entered(t)
    \/ pc \in Reconciling /\ t \in positions
    \/ pc = "sync" /\ t \in openScalps

(* The scalper may: t is in its history or on the way there.               *)
Syncable(t) == t \in openScalps \cup unsynced

(* A failed read is about to take an open position for a closed one.       *)
Hidden(t) ==
    pc \in Reconciling /\ Entered(t) /\ Open(t) /\ t \notin positions

One(condition) == IF condition THEN 1 ELSE 0

Budgeted(t) ==
    IF Scalp(t)
    THEN recorded[t] + One(Recordable(t)) + One(Syncable(t)) + One(Hidden(t))
             <= 2 + faults
    ELSE recorded[t] + One(Recordable(t)) + One(Hidden(t)) <= 1 + faults

Results ==
    /\ TypeOK
    /\ Filed
    /\ RecordedOnlyClosed
    /\ \A t \in Tickets : Budgeted(t)

----------------------------------------------------------------------------
(* What the helpers of several actions do.                                 *)

LEMMA EntryOf ==
  ASSUME TypeOK, NEW s \in Symbols
  PROVE  /\ Held(s) <=> registry[s].ticket \in Tickets
         /\ Held(s) => registry[s].source # "none"
<1>1. registry[s] \in Entries
  BY DEF TypeOK, Entries
<1>2. CASE registry[s] = NotHeld
  BY <1>2, NamesAssumption DEF NotHeld, Held
<1>3. CASE registry[s] # NotHeld
  BY <1>1, <1>3 DEF Entries, Held
<1> QED BY <1>2, <1>3

(* What never changes of a position once it has been opened, and that it   *)
(* does not open twice.                                                    *)
Kept(t) ==
    /\ broker'[t].symbol = broker[t].symbol
    /\ broker'[t].owner = broker[t].owner
    /\ Used(t)' <=> Used(t)
    /\ Open(t)' => Open(t)
    /\ broker[t] = NoPosition => broker'[t] = NoPosition

LEMMA FillsEffect ==
  ASSUME TypeOK, NEW t \in Tickets, NEW s \in Symbols,
         NEW owner \in {"engine", "scalper", "outsider"}, Fills(t, s, owner)
  PROVE  /\ ~Used(t) /\ ~Open(t)
         /\ Used(t)' /\ Open(t)'
         /\ broker'[t].symbol = s /\ broker'[t].owner = owner
         /\ \A u \in Tickets \ {t} : broker'[u] = broker[u]
<1>1. broker \in [Tickets -> BrokerPositions] /\ broker[t] = NoPosition
  BY DEF TypeOK, Fills, BrokerPositions
<1>2. broker' = [broker EXCEPT ![t] =
          [status |-> "open", symbol |-> s, owner |-> owner, pnl |-> 0]]
  BY DEF Fills
<1>3. broker'[t] =
          [status |-> "open", symbol |-> s, owner |-> owner, pnl |-> 0]
  BY <1>1, <1>2
<1> QED BY <1>1, <1>2, <1>3 DEF Used, Open, NoPosition

LEMMA ClosingEffect ==
  ASSUME TypeOK, NEW t \in Tickets, NEW pnl \in Int, Open(t),
         broker' = [broker EXCEPT ![t].status = "closed", ![t].pnl = pnl]
  PROVE  /\ ~Open(t)'
         /\ \A u \in Tickets : Kept(u)
         /\ \A u \in Tickets \ {t} : broker'[u] = broker[u]
<1>1. broker \in [Tickets -> BrokerPositions] /\ broker[t] \in BrokerPositions
  BY DEF TypeOK, BrokerPositions
<1>2. broker' = [broker EXCEPT ![t] = [broker[t] EXCEPT !.status = "closed",
                                                       !.pnl = pnl]]
  BY <1>1
<1>3. /\ broker'[t].status = "closed"
      /\ broker'[t].symbol = broker[t].symbol
      /\ broker'[t].owner = broker[t].owner
  BY <1>1, <1>2 DEF BrokerPositions
<1>4. \A u \in Tickets \ {t} : broker'[u] = broker[u]
  BY <1>1, <1>2
<1>5. Used(t) /\ Used(t)' /\ broker[t] # NoPosition /\ ~Open(t)'
  BY <1>3 DEF Used, Open, NoPosition
<1> QED BY <1>3, <1>4, <1>5 DEF Kept, Used, Open

LEMMA SameBroker ==
  ASSUME UNCHANGED broker PROVE \A t \in Tickets : Kept(t)
  BY DEF Kept, Used, Open

(* An entry is either the one before or of a ticket of the list, and every *)
(* symbol of the list has one.                                             *)
LEMMA RegistersMissingEffect ==
  ASSUME NEW tickets \in SUBSET Tickets, NEW source, NEW held,
         RegistersMissing(tickets, source, held)
  PROVE  \A s \in Symbols :
             \/ /\ registry'[s] = held[s]
                /\ s \in SymbolsOf(tickets) => held[s] # NotHeld
             \/ /\ registry'[s].ticket \in tickets
                /\ broker[registry'[s].ticket].symbol = s
                /\ registry'[s].source = source
                /\ held[s] = NotHeld
<1>1. PICK pick \in [Symbols -> tickets \cup {NoTicket}] :
          /\ \A s \in Symbols :
                 IF s \in SymbolsOf(tickets) /\ held[s] = NotHeld
                 THEN pick[s] \in tickets /\ broker[pick[s]].symbol = s
                 ELSE pick[s] = NoTicket
          /\ registry' = [s \in Symbols |->
                 IF pick[s] = NoTicket THEN held[s]
                 ELSE [ticket |-> pick[s], source |-> source]]
  BY DEF RegistersMissing
<1>2. SUFFICES ASSUME NEW s \in Symbols
               PROVE  \/ /\ registry'[s] = held[s]
                         /\ s \in SymbolsOf(tickets) => held[s] # NotHeld
                      \/ /\ registry'[s].ticket \in tickets
                         /\ broker[registry'[s].ticket].symbol = s
                         /\ registry'[s].source = source
                         /\ held[s] = NotHeld
  OBVIOUS
<1>3. CASE s \in SymbolsOf(tickets) /\ held[s] = NotHeld
  <2>1. pick[s] \in tickets /\ broker[pick[s]].symbol = s
    BY <1>1, <1>3
  <2>2. pick[s] # NoTicket
    BY <2>1, NamesAssumption
  <2>3. registry'[s] = [ticket |-> pick[s], source |-> source]
    BY <1>1, <2>2
  <2> QED BY <1>3, <2>1, <2>3
<1>4. CASE ~(s \in SymbolsOf(tickets) /\ held[s] = NotHeld)
  BY <1>1, <1>4
<1> QED BY <1>3, <1>4

----------------------------------------------------------------------------
(* The budgets of the tickets.                                             *)

LEMMA OneType == \A c \in BOOLEAN : One(c) \in {0, 1}
  BY DEF One

(* A step may not record anything of t and make it recordable again.       *)
NoMoreOf(t) ==
    /\ Scalp(t)' <=> Scalp(t)
    /\ Recordable(t)' => Recordable(t)
    /\ Syncable(t)' => Syncable(t)

LEMMA BudgetKept ==
  ASSUME TypeOK, TypeOK', NEW t \in Tickets, Budgeted(t), NoMoreOf(t),
         recorded'[t] = recorded[t], faults' \in {faults, faults + 1},
         Hidden(t)' => Hidden(t) \/ faults' = faults + 1
  PROVE  Budgeted(t)'
<1> DEFINE r == recorded[t]
           f == faults
           ff == faults'
<1>1. r \in Nat /\ f \in Nat /\ ff \in Nat /\ r = recorded[t]'
  BY DEF TypeOK
<1>2. CASE Scalp(t)
  <2>1. r + One(Recordable(t)) + One(Syncable(t)) + One(Hidden(t)) <= 2 + f
    BY <1>2 DEF Budgeted
  <2>2. r + One(Recordable(t)') + One(Syncable(t)') + One(Hidden(t)') <= 2 + ff
    <3> HIDE DEF r, f, ff
    <3>1. ff \in {f, f + 1} /\ (Hidden(t)' => Hidden(t) \/ ff = f + 1)
      BY DEF f, ff
    <3> QED BY <1>1, <2>1, <3>1 DEF NoMoreOf, One
  <2> QED BY <1>1, <1>2, <2>2 DEF Budgeted, NoMoreOf, One
<1>3. CASE ~Scalp(t)
  <2>1. r + One(Recordable(t)) + One(Hidden(t)) <= 1 + f
    BY <1>3 DEF Budgeted
  <2>2. r + One(Recordable(t)') + One(Hidden(t)') <= 1 + ff
    <3> HIDE DEF r, f, ff
    <3>1. ff \in {f, f + 1} /\ (Hidden(t)' => Hidden(t) \/ ff = f + 1)
      BY DEF f, ff
    <3> QED BY <1>1, <2>1, <3>1 DEF NoMoreOf, One
  <2> QED BY <1>1, <1>3, <2>2 DEF Budgeted, NoMoreOf, One
<1> QED BY <1>2, <1>3

(* Recording a result uses up one of the ways to record it.                *)
LEMMA BudgetSpent ==
  ASSUME TypeOK, TypeOK', NEW t \in Tickets, Budgeted(t), NoMoreOf(t),
         recorded'[t] = recorded[t] + 1, faults' = faults,
         Hidden(t)' => Hidden(t),
         \/ Recordable(t) /\ ~Recordable(t)'
         \/ Scalp(t) /\ Syncable(t) /\ ~Syncable(t)'
         \/ Hidden(t) /\ ~Hidden(t)'
  PROVE  Budgeted(t)'
<1> DEFINE r == recorded[t]
           f == faults
<1>1. r \in Nat /\ f \in Nat /\ recorded[t]' = r + 1
  BY DEF TypeOK
<1>2. CASE Scalp(t)
  <2>1. r + One(Recordable(t)) + One(Syncable(t)) + One(Hidden(t)) <= 2 + f
    BY <1>2 DEF Budgeted
  <2>2. (r + 1) + One(Recordable(t)') + One(Syncable(t)') + One(Hidden(t)')
            <= 2 + f
    <3> HIDE DEF r, f
    <3> QED BY <1>1, <2>1 DEF NoMoreOf, One
  <2> QED BY <1>1, <1>2, <2>2 DEF Budgeted, NoMoreOf, One
<1>3. CASE ~Scalp(t)
  <2>1. r + One(Recordable(t)) + One(Hidden(t)) <= 1 + f
    BY <1>3 DEF Budgeted
  <2>2. (r + 1) + One(Recordable(t)') + One(Hidden(t)') <= 1 + f
    <3> HIDE DEF r, f
    <3> QED BY <1>1, <1>3, <2>1 DEF NoMoreOf, One
  <2> QED BY <1>1, <1>3, <2>2 DEF Budgeted, NoMoreOf, One
<1> QED BY <1>2, <1>3

(* A position that has just been opened has its whole budget.              *)
LEMMA BudgetOpened ==
  ASSUME TypeOK, TypeOK', NEW t \in Tickets,
         recorded'[t] = 0, ~Hidden(t)'
  PROVE  Budgeted(t)'
<1> DEFINE f == faults'
<1>1. f \in Nat
  BY DEF TypeOK
<1>2. /\ 0 + One(Recordable(t)') + One(Syncable(t)') + One(Hidden(t)') <= 2 + f
      /\ 0 + One(Recordable(t)') + 0 <= 1 + f
  <2> HIDE DEF f
  <2> QED BY <1>1 DEF One
<1> QED BY <1>2 DEF Budgeted, One

(* A step that records nothing and opens nothing keeps all but Filed.      *)
LEMMA CalmStep ==
  ASSUME Results, TypeOK', Filed', UNCHANGED recorded,
         \A t \in Tickets : Kept(t) /\ NoMoreOf(t),
         faults' \in {faults, faults + 1},
         \A t \in Tickets : Hidden(t)' => Hidden(t) \/ faults' = faults + 1
  PROVE  Results'
<1>1. RecordedOnlyClosed'
  <2>1. faults \in Nat /\ faults' \in Nat
    BY DEF Results, TypeOK
  <2>2. faults > 0 => faults' > 0
    BY <2>1
  <2> QED BY <2>2 DEF RecordedOnlyClosed, Results, Kept
<1>2. \A t \in Tickets : Budgeted(t)'
  BY BudgetKept DEF Results
<1> QED BY <1>1, <1>2 DEF Results

LEMMA KeptNoMore ==
  ASSUME NEW t \in Tickets, Kept(t) PROVE Scalp(t)' <=> Scalp(t)
  BY DEF Kept, Scalp

----------------------------------------------------------------------------
(* A position is opened.                                                   *)

LEMMA OpeningStep ==
  ASSUME Results, TypeOK', Filed', NEW t \in Tickets, NEW s \in Symbols,
         NEW owner \in {"engine", "scalper", "outsider"}, Fills(t, s, owner),
         UNCHANGED recorded, faults' \in {faults, faults + 1}, ~Hidden(t)',
         \A u \in Tickets \ {t} : NoMoreOf(u) /\ (Hidden(u)' => Hidden(u))
  PROVE  Results'
<1>1. /\ ~Used(t)
      /\ \A u \in Tickets \ {t} : broker'[u] = broker[u]
  BY FillsEffect DEF Results
<1>2. recorded[t] = 0
  BY <1>1 DEF Results, Filed, ListsFiled, PositionFiled
<1>3. RecordedOnlyClosed'
  <2>1. SUFFICES ASSUME NEW u \in Tickets, recorded[u] > 0, Open(u)'
                 PROVE  faults' > 0
    BY DEF RecordedOnlyClosed
  <2>2. u # t /\ broker'[u] = broker[u]
    BY <1>1, <1>2, <2>1
  <2>3. faults > 0 /\ faults \in Nat
    BY <2>1, <2>2 DEF Results, RecordedOnlyClosed, Open, TypeOK
  <2> QED BY <2>3
<1>4. ASSUME NEW u \in Tickets PROVE Budgeted(u)'
  <2>1. CASE u = t
    BY <1>2, <2>1, BudgetOpened DEF Results
  <2>2. CASE u # t
    BY <2>2, BudgetKept DEF Results
  <2> QED BY <2>1, <2>2
<1> QED BY <1>3, <1>4 DEF Results

(* A position that is opened leaves the lists and the others as they were. *)
LEMMA OpeningFiled ==
  ASSUME Results, NEW t \in Tickets, NEW s \in Symbols,
         NEW owner \in {"engine", "scalper", "outsider"}, Fills(t, s, owner),
         UNCHANGED recorded
  PROVE  /\ ~Used(t)
         /\ \A u \in openScalps \cup unsynced \cup positions :
                u # t /\ broker'[u] = broker[u]
         /\ \A u \in Tickets : PositionFiled(u)'
<1>1. /\ ~Used(t) /\ Used(t)' /\ broker'[t].symbol = s
      /\ \A u \in Tickets \ {t} : broker'[u] = broker[u]
  BY FillsEffect DEF Results
<1>2. \A u \in openScalps \cup unsynced \cup positions :
          u \in Tickets /\ Used(u)
  BY DEF Results, TypeOK, Filed, ListsFiled
<1>3. PositionFiled(t)'
  BY <1>1 DEF PositionFiled
<1>4. ASSUME NEW u \in Tickets \ {t} PROVE PositionFiled(u)'
  BY <1>1 DEF Results, Filed, PositionFiled, Used
<1> QED BY <1>1, <1>2, <1>3, <1>4

LEMMA OutsiderOpensResults ==
  ASSUME Results, TypeOK', NEW t \in Tickets, NEW s \in Symbols,
         OutsiderOpens(t, s)
  PROVE  Results'
<1>1. /\ ~Used(t) /\ ~Open(t) /\ Used(t)' /\ broker'[t].owner = "outsider"
      /\ \A u \in Tickets \ {t} : broker'[u] = broker[u]
  BY FillsEffect DEF Results, OutsiderOpens
<1>2. /\ Fills(t, s, "outsider")
      /\ UNCHANGED <<registry, openScalps, unsynced, positions, pc, faults,
                     recorded>>
  BY DEF OutsiderOpens, program
<1>3. Filed'
  <2>1. \A r \in Symbols : Held(r) =>
            /\ registry[r].ticket \in Tickets
            /\ registry[r].ticket # t
    BY <1>1, EntryOf DEF Results, Filed, EntryFiled
  <2>2. ASSUME NEW r \in Symbols PROVE EntryFiled(r)'
    BY <1>1, <1>2, <2>1 DEF Results, Filed, EntryFiled, Used, Open, Scalp, Held
  <2>3. ListsFiled'
    <3>1. \A u \in openScalps \cup unsynced \cup positions :
              broker'[u] = broker[u]
      BY <1>2, OpeningFiled
    <3> QED BY <1>2, <3>1 DEF Results, Filed, ListsFiled, Used, Open, Scalp
  <2>4. \A u \in Tickets : PositionFiled(u)'
    BY <1>2, OpeningFiled
  <2> QED BY <2>2, <2>3, <2>4 DEF Filed
<1>4. ~Hidden(t)'
  <2>1. ~Entered(t)
    BY <1>1, EntryOf DEF Results, Filed, EntryFiled, Entered
  <2> QED BY <1>2, <2>1 DEF Hidden, Entered
<1>5. ASSUME NEW u \in Tickets \ {t}
      PROVE  NoMoreOf(u) /\ (Hidden(u)' => Hidden(u))
  BY <1>1, <1>2
  DEF NoMoreOf, Recordable, Syncable, Hidden, Entered, Open, Scalp
<1> QED BY <1>2, <1>3, <1>4, <1>5, OpeningStep

LEMMA ScalpOpensResults ==
  ASSUME Results, TypeOK', NEW t \in Tickets, NEW s \in Symbols,
         ScalpOpens(t, s)
  PROVE  Results'
<1>1. /\ ~Used(t) /\ ~Open(t) /\ Used(t)' /\ broker'[t].owner = "scalper"
      /\ \A u \in Tickets \ {t} : broker'[u] = broker[u]
  BY FillsEffect DEF Results, ScalpOpens
<1>2. /\ Fills(t, s, "scalper")
      /\ UNCHANGED <<registry, unsynced, positions, faults, recorded>>
      /\ openScalps' = openScalps \cup {t}
      /\ pc = "scalp" /\ pc' = "refresh"
  BY DEF ScalpOpens, counters
<1>3. Filed'
  <2>1. \A r \in Symbols : Held(r) =>
            /\ registry[r].ticket \in Tickets
            /\ registry[r].ticket # t
    BY <1>1, EntryOf DEF Results, Filed, EntryFiled
  <2>2. pc' \notin Reconciling
    BY <1>2 DEF Reconciling
  <2>3. ASSUME NEW r \in Symbols PROVE EntryFiled(r)'
    BY <1>1, <1>2, <2>1, <2>2 DEF Results, Filed, EntryFiled, Used, Scalp, Held
  <2>4. ListsFiled'
    <3>1. \A u \in openScalps \cup unsynced \cup positions :
              u # t /\ broker'[u] = broker[u]
      BY <1>2, OpeningFiled
    <3>2. \A u \in openScalps' \cup unsynced' : Used(u)' /\ Scalp(u)'
      BY <1>1, <1>2, <3>1 DEF Results, Filed, ListsFiled, Used, Scalp
    <3>3. \A u \in unsynced' : Open(u)' => faults' > 0
      BY <1>2, <3>1 DEF Results, Filed, ListsFiled, Open
    <3>4. \A u \in positions' : Used(u)'
      BY <1>2, <3>1 DEF Results, Filed, ListsFiled, Used
    <3>5. openScalps' \cap unsynced' = {}
      BY <1>2, <3>1 DEF Results, Filed, ListsFiled
    <3> QED BY <3>2, <3>3, <3>4, <3>5 DEF ListsFiled
  <2>5. \A u \in Tickets : PositionFiled(u)'
    BY <1>2, OpeningFiled
  <2> QED BY <2>3, <2>4, <2>5 DEF Filed
<1>4. \A u \in Tickets : ~Hidden(u)'
  BY <1>2 DEF Hidden, Reconciling
<1>5. ASSUME NEW u \in Tickets \ {t} PROVE NoMoreOf(u)
  BY <1>1, <1>2
  DEF NoMoreOf, Recordable, Syncable, Entered, Open, Scalp, Reconciling
<1> QED BY <1>2, <1>3, <1>4, <1>5, OpeningStep

LEMMA MainOpensResults ==
  ASSUME Results, TypeOK', NEW t \in Tickets, NEW s \in Symbols,
         MainOpens(t, s)
  PROVE  Results'
<1>1. /\ ~Used(t) /\ ~Open(t) /\ Used(t)'
      /\ broker'[t].owner = "engine" /\ broker'[t].symbol = s
      /\ \A u \in Tickets \ {t} : broker'[u] = broker[u]
  BY FillsEffect DEF Results, MainOpens
<1>2. /\ Fills(t, s, "engine")
      /\ UNCHANGED <<openScalps, unsynced, positions, pc, faults, recorded>>
      /\ registry' = [registry EXCEPT ![s] =
                          [ticket |-> t, source |-> "engine"]]
      /\ pc = "main" /\ pc' \notin Reconciling
  BY DEF MainOpens, RegistersTrade, counters, Reconciling
<1>3. /\ registry'[s] = [ticket |-> t, source |-> "engine"]
      /\ \A r \in Symbols \ {s} : registry'[r] = registry[r]
  BY <1>2 DEF Results, TypeOK
<1>4. Filed'
  <2>1. \A r \in Symbols : Held(r) =>
            /\ registry[r].ticket \in Tickets
            /\ registry[r].ticket # t
    BY <1>1, EntryOf DEF Results, Filed, EntryFiled
  <2>2. ASSUME NEW r \in Symbols \ {s} PROVE EntryFiled(r)'
    BY <1>1, <1>2, <1>3, <2>1
    DEF Results, Filed, EntryFiled, Used, Scalp, Held
  <2>3. EntryFiled(s)'
    <3>1. registry'[s].ticket = t /\ registry'[s].source # "scalper"
      BY <1>3
    <3>2. broker'[registry'[s].ticket].symbol = s /\ Used(registry[s].ticket)'
      BY <1>1, <3>1 DEF Used
    <3> QED BY <1>2, <3>1, <3>2 DEF EntryFiled, Used, Reconciling
  <2>4. ListsFiled'
    <3>1. UNCHANGED <<openScalps, unsynced, positions, faults>>
      BY <1>2
    <3>2. \A u \in openScalps \cup unsynced \cup positions :
              broker'[u] = broker[u]
      BY <1>2, OpeningFiled
    <3> QED BY <3>1, <3>2 DEF Results, Filed, ListsFiled, Used, Open, Scalp
  <2>5. \A u \in Tickets : PositionFiled(u)'
    BY <1>2, OpeningFiled
  <2> QED BY <2>2, <2>3, <2>4, <2>5 DEF Filed
<1>5. \A u \in Tickets : ~Hidden(u)'
  BY <1>2 DEF Hidden
<1>6. ASSUME NEW u \in Tickets \ {t} PROVE NoMoreOf(u)
  BY <1>1, <1>2, <1>3
  DEF NoMoreOf, Recordable, Syncable, Entered, Open, Scalp, Reconciling
<1> QED BY <1>2, <1>4, <1>5, <1>6, OpeningStep

(* An order that is filled and not answered changes nothing the engine     *)
(* knows, and leaves it where it was.                                      *)
Unanswered(t, s) == ScalpUnanswered(t, s) \/ MainUnanswered(t, s)

LEMMA UnansweredEffect ==
  ASSUME NEW t \in Tickets, NEW s \in Symbols, Unanswered(t, s)
  PROVE  /\ \E owner \in {"engine", "scalper"} : Fills(t, s, owner)
         /\ UNCHANGED <<registry, openScalps, unsynced, positions, pc,
                        outsiders, recorded>>
         /\ faults' = faults + 1
         /\ ~Held(s) /\ PortfolioHasRoom
         /\ pc = "scalp" \/ (pc = "main" /\ s \notin SymbolsOf(openScalps))
<1>1. CASE ScalpUnanswered(t, s)
  <2>1. Fills(t, s, "scalper")
    BY <1>1 DEF ScalpUnanswered, FillsUnanswered
  <2>2. \E owner \in {"engine", "scalper"} : Fills(t, s, owner)
    BY <2>1
  <2>3. /\ UNCHANGED <<registry, openScalps, unsynced, positions, pc,
                       outsiders, recorded>>
        /\ faults' = faults + 1
        /\ pc = "scalp"
    BY <1>1 DEF ScalpUnanswered, FillsUnanswered
  <2>4. ~Held(s) /\ PortfolioHasRoom
    BY <1>1 DEF ScalpUnanswered, Safe, Blocked
  <2>5. pc = "scalp" \/ (pc = "main" /\ s \notin SymbolsOf(openScalps))
    BY <2>3
  <2> QED BY <2>2, <2>3, <2>4, <2>5
<1>2. CASE MainUnanswered(t, s)
  <2>1. Fills(t, s, "engine")
    BY <1>2 DEF MainUnanswered, FillsUnanswered
  <2>2. \E owner \in {"engine", "scalper"} : Fills(t, s, owner)
    BY <2>1
  <2>3. /\ UNCHANGED <<registry, openScalps, unsynced, positions, pc,
                       outsiders, recorded>>
        /\ faults' = faults + 1
        /\ pc = "main"
    BY <1>2 DEF MainUnanswered, FillsUnanswered, program
  <2>4. ~Held(s) /\ PortfolioHasRoom /\ s \notin SymbolsOf(openScalps)
    BY <1>2 DEF MainUnanswered, SignalAllowed
  <2> QED BY <2>2, <2>3, <2>4
<1> QED BY <1>1, <1>2 DEF Unanswered

LEMMA UnansweredResults ==
  ASSUME Results, TypeOK', NEW t \in Tickets, NEW s \in Symbols,
         Unanswered(t, s)
  PROVE  Results'
<1>1. PICK owner \in {"engine", "scalper"} : Fills(t, s, owner)
  BY UnansweredEffect
<1>2. /\ ~Used(t) /\ ~Open(t) /\ Used(t)'
      /\ \A u \in Tickets \ {t} : broker'[u] = broker[u]
  BY <1>1, FillsEffect DEF Results
<1>3. /\ UNCHANGED <<registry, openScalps, unsynced, positions, pc, recorded>>
      /\ faults' = faults + 1
      /\ pc \notin Reconciling \cup {"sync"}
  BY UnansweredEffect DEF Reconciling
<1>4. Filed'
  <2>1. \A r \in Symbols : Held(r) =>
            /\ registry[r].ticket \in Tickets
            /\ registry[r].ticket # t
    BY <1>2, EntryOf DEF Results, Filed, EntryFiled
  <2>2. ASSUME NEW r \in Symbols PROVE EntryFiled(r)'
    BY <1>2, <1>3, <2>1 DEF Results, Filed, EntryFiled, Used, Scalp, Held
  <2>3. ListsFiled'
    <3>1. \A u \in openScalps \cup unsynced \cup positions :
              broker'[u] = broker[u]
      BY <1>1, <1>3, OpeningFiled
    <3>2. faults' > 0
      BY <1>3 DEF Results, TypeOK
    <3> QED BY <1>3, <3>1, <3>2 DEF Results, Filed, ListsFiled, Used, Scalp
  <2>4. \A u \in Tickets : PositionFiled(u)'
    BY <1>1, <1>3, OpeningFiled
  <2> QED BY <2>2, <2>3, <2>4 DEF Filed
<1>5. \A u \in Tickets : ~Hidden(u)'
  BY <1>3 DEF Hidden
<1>6. ASSUME NEW u \in Tickets \ {t} PROVE NoMoreOf(u)
  BY <1>2, <1>3 DEF NoMoreOf, Recordable, Syncable, Entered, Open, Scalp
<1> QED BY <1>1, <1>3, <1>4, <1>5, <1>6, OpeningStep

----------------------------------------------------------------------------
(* No position is opened.                                                  *)

(* An entry that stays is filed as before, an emptied one need not be.     *)
LEMMA EntryStays ==
  ASSUME Results, \A t \in Tickets : Kept(t), NEW s \in Symbols,
         registry'[s] = registry[s] \/ registry'[s] = NotHeld,
         \/ pc' \notin Reconciling
         \/ pc \in Reconciling /\ UNCHANGED <<positions, faults>>
  PROVE  EntryFiled(s)'
<1>1. CASE Held(s)'
  <2>1. registry'[s] = registry[s] /\ Held(s)
    BY <1>1 DEF Held
  <2>2. registry[s].ticket \in Tickets
    BY <2>1, EntryOf DEF Results
  <2>3. EntryFiled(s) /\ Kept(registry[s].ticket)
    BY <2>2 DEF Results, Filed
  <2> QED BY <2>1, <2>3 DEF EntryFiled, Kept, Used, Open, Scalp
<1>2. CASE ~Held(s)'
  BY <1>2 DEF EntryFiled
<1> QED BY <1>1, <1>2

LEMMA ListsStay ==
  ASSUME Results, \A t \in Tickets : Kept(t),
         openScalps' \subseteq openScalps,
         unsynced' \subseteq openScalps \cup unsynced,
         openScalps' \cap unsynced' = {},
         faults' \in {faults, faults + 1},
         \A t \in unsynced' \ unsynced : Open(t) => faults' > 0,
         \A t \in positions' : t \in Tickets /\ (Open(t) \/ t \in positions)
  PROVE  ListsFiled'
<1>1. ASSUME NEW t \in openScalps' \cup unsynced' PROVE Used(t)' /\ Scalp(t)'
  <2>1. t \in Tickets /\ Used(t) /\ Scalp(t)
    BY DEF Results, TypeOK, Filed, ListsFiled
  <2> QED BY <2>1 DEF Kept, Used, Scalp
<1>2. ASSUME NEW t \in positions' PROVE Used(t)'
  <2>1. t \in Tickets /\ Used(t)
    BY DEF Results, Filed, ListsFiled, Open, Used
  <2> QED BY <2>1 DEF Kept, Used
<1>3. ASSUME NEW t \in unsynced', Open(t)' PROVE faults' > 0
  <2>1. t \in Tickets /\ faults \in Nat
    BY DEF Results, TypeOK
  <2>2. Open(t)
    BY <1>3, <2>1 DEF Kept
  <2>3. CASE t \in unsynced
    BY <2>1, <2>2, <2>3 DEF Results, Filed, ListsFiled
  <2>4. CASE t \notin unsynced
    BY <2>2, <2>4
  <2> QED BY <2>3, <2>4
<1> QED BY <1>1, <1>2, <1>3 DEF ListsFiled

LEMMA PositionsStay ==
  ASSUME Results, \A t \in Tickets : Kept(t),
         \A t \in Tickets : recorded'[t] = recorded[t] \/ Used(t)
  PROVE  \A t \in Tickets : PositionFiled(t)'
<1>1. ASSUME NEW t \in Tickets PROVE PositionFiled(t)'
  <2>1. PositionFiled(t) /\ Kept(t)
    BY DEF Results, Filed
  <2>2. CASE Used(t)
    BY <2>1, <2>2 DEF PositionFiled, Kept
  <2>3. CASE ~Used(t)
    BY <2>1, <2>3 DEF PositionFiled, Kept
  <2> QED BY <2>2, <2>3
<1> QED BY <1>1

(* The steps that leave the engine's and the scalper's view alone.         *)
LEMMA IdleStep ==
  ASSUME Results, TypeOK', \A t \in Tickets : Kept(t),
         UNCHANGED <<registry, openScalps, unsynced, faults, recorded>>,
         \/ UNCHANGED <<pc, positions>>
         \/ pc' \notin Reconciling \cup {"sync"} /\ positions' \subseteq positions
  PROVE  Results'
<1>1. Filed'
  <2>1. \A s \in Symbols : EntryFiled(s)'
    BY EntryStays
  <2>2. openScalps \cap unsynced = {} /\ positions' \subseteq Tickets
    BY DEF Results, Filed, ListsFiled, TypeOK
  <2>3. ListsFiled' /\ \A u \in Tickets : PositionFiled(u)'
    BY <2>2, ListsStay, PositionsStay
  <2> QED BY <2>1, <2>3 DEF Filed
<1>2. ASSUME NEW t \in Tickets
      PROVE  NoMoreOf(t) /\ (Hidden(t)' => Hidden(t))
  <2>1. Entered(t)' <=> Entered(t)
    BY DEF Entered
  <2>2. Kept(t)
    OBVIOUS
  <2>3. Recordable(t)' => Recordable(t)
    BY <2>1, <2>2 DEF Recordable, Kept
  <2>4. Hidden(t)' => Hidden(t)
    BY <2>1, <2>2 DEF Hidden, Kept
  <2> QED BY <2>2, <2>3, <2>4, KeptNoMore DEF NoMoreOf, Syncable
<1> QED BY <1>1, <1>2, CalmStep

LEMMA PositionClosesResults ==
  ASSUME Results, TypeOK', NEW t \in Tickets, NEW pnl \in PnLs,
         PositionCloses(t, pnl)
  PROVE  Results'
<1>1. \A u \in Tickets : Kept(u)
  BY ClosingEffect, PnLsAssumption DEF Results, PositionCloses
<1> QED BY <1>1, IdleStep DEF PositionCloses, program, counters

LEMMA IdleResults ==
  ASSUME Results, TypeOK',
         \/ Tick \/ MidnightPasses \/ DailyStatusResets
         \/ LeavesCycle \/ DailyGate \/ BreakerGate \/ ManagingEnds \/ NoScalp
         \/ UNCHANGED vars
  PROVE  Results'
<1> USE SameBroker, IdleStep DEF counters, program
<1>1. CASE Tick \/ MidnightPasses \/ DailyStatusResets
  BY <1>1 DEF Tick, MidnightPasses, DailyStatusResets
<1>2. CASE LeavesCycle \/ ManagingEnds \/ NoScalp
  BY <1>2 DEF LeavesCycle, ManagingEnds, NoScalp, Reconciling
<1>3. CASE DailyGate \/ BreakerGate
  BY <1>3 DEF DailyGate, BreakerGate, Reconciling
<1>4. CASE UNCHANGED vars
  BY <1>4 DEF vars
<1> QED BY <1>1, <1>2, <1>3, <1>4

----------------------------------------------------------------------------
(* The positions are read, or symbols registered.                          *)

LEMMA ReadsEffect ==
  ASSUME TypeOK, NEW result, Reads(result)
  PROVE  /\ faults' \in {faults, faults + 1}
         /\ faults' = 0 => faults' = faults
         /\ \A t \in result : t \in Tickets /\ Open(t)
         /\ faults' = faults => result = {t \in Tickets : Open(t)}
<1>1. faults \in Nat /\ faults + 1 # faults /\ faults + 1 # 0
  BY DEF TypeOK
<1>2. CASE result = {t \in Tickets : Open(t)} /\ faults' = faults
  BY <1>2
<1>3. CASE faults' = faults + 1 /\ result = {}
  BY <1>1, <1>3
<1> QED BY <1>2, <1>3 DEF Reads

LEMMA RestartResults == ASSUME Results, TypeOK', Restart PROVE Results'
<1>1. PICK read \in SUBSET Tickets :
          /\ Reads(read)
          /\ RegistersMissing({t \in read : broker[t].owner # "scalper"},
                              "engine", [s \in Symbols |-> NotHeld])
  BY DEF Restart
<1> DEFINE found == {t \in read : broker[t].owner # "scalper"}
<1>2. /\ faults' \in {faults, faults + 1}
      /\ \A t \in found : t \in Tickets /\ Open(t)
  BY <1>1, ReadsEffect DEF Results
<1>3. \A s \in Symbols :
          \/ registry'[s] = NotHeld
          \/ /\ registry'[s].ticket \in found
             /\ broker[registry'[s].ticket].symbol = s
             /\ registry'[s].source = "engine"
  BY <1>1, RegistersMissingEffect
<1>4. /\ UNCHANGED <<broker, recorded>>
      /\ openScalps' = {} /\ unsynced' = {} /\ positions' = {}
      /\ pc' \notin Reconciling \cup {"sync"}
  BY DEF Restart, Reconciling
<1>5. \A t \in Tickets : Kept(t)
  BY <1>4, SameBroker
<1> HIDE DEF found
<1>6. Filed'
  <2>1. ASSUME NEW s \in Symbols PROVE EntryFiled(s)'
    <3>1. CASE registry'[s] = NotHeld
      BY <3>1 DEF EntryFiled, Held
    <3>2. CASE /\ registry'[s].ticket \in found
               /\ broker[registry'[s].ticket].symbol = s
               /\ registry'[s].source = "engine"
      BY <1>2, <1>4, <3>2 DEF EntryFiled, Used, Open
    <3> QED BY <1>3, <3>1, <3>2
  <2>2. ListsFiled'
    BY <1>4 DEF ListsFiled
  <2>3. \A u \in Tickets : PositionFiled(u)'
    BY <1>4, <1>5, PositionsStay
  <2> QED BY <2>1, <2>2, <2>3 DEF Filed
<1>7. ASSUME NEW t \in Tickets PROVE NoMoreOf(t) /\ ~Hidden(t)'
  <2>1. Entered(t)' => Open(t)
    BY <1>2, <1>3, NamesAssumption DEF Entered, NotHeld
  <2>2. Recordable(t)' => Recordable(t)
    BY <1>4, <1>5, <2>1 DEF Recordable, Kept
  <2> QED BY <1>4, <1>5, <2>2, KeptNoMore DEF NoMoreOf, Syncable, Hidden
<1> QED BY <1>2, <1>4, <1>5, <1>6, <1>7, CalmStep

LEMMA ReadPositionsResults ==
  ASSUME Results, TypeOK', ReadPositions PROVE Results'
<1>1. /\ faults' \in {faults, faults + 1}
      /\ faults' = 0 => faults' = faults
      /\ \A t \in positions' : t \in Tickets /\ Open(t)
      /\ faults' = faults => positions' = {t \in Tickets : Open(t)}
  BY ReadsEffect DEF Results, ReadPositions
<1>2. /\ UNCHANGED <<broker, registry, openScalps, unsynced, recorded>>
      /\ pc' # "sync"
  BY DEF ReadPositions
<1>3. \A t \in Tickets : Kept(t)
  BY <1>2, SameBroker
<1>4. Filed'
  <2>1. ASSUME NEW s \in Symbols, Held(s)' PROVE EntryFiled(s)'
    <3>1. /\ EntryFiled(s) /\ Held(s) /\ registry'[s] = registry[s]
          /\ registry[s].ticket \in Tickets
      BY <1>2, <2>1, EntryOf DEF Results, Filed, Held
    <3>2. faults' = 0 /\ Open(registry[s].ticket)
              => registry[s].ticket \in positions'
      BY <1>1, <3>1
    <3> QED BY <1>2, <3>1, <3>2 DEF EntryFiled, Used, Open, Scalp
  <2>2. ListsFiled'
    BY <1>1, <1>2, <1>3, ListsStay DEF Results, Filed, ListsFiled
  <2>3. \A u \in Tickets : PositionFiled(u)'
    BY <1>2, <1>3, PositionsStay
  <2> QED BY <2>1, <2>2, <2>3 DEF Filed, EntryFiled
<1>5. ASSUME NEW t \in Tickets
      PROVE  NoMoreOf(t) /\ (Hidden(t)' => faults' = faults + 1)
  <2>1. Entered(t)' <=> Entered(t)
    BY <1>2 DEF Entered
  <2>2. Open(t)' <=> Open(t)
    BY <1>2 DEF Open
  <2>3. Recordable(t)' => Recordable(t)
    BY <1>1, <1>2, <2>1, <2>2 DEF Recordable
  <2>4. Hidden(t)' => faults' = faults + 1
    BY <1>1, <2>2 DEF Hidden
  <2> QED BY <1>2, <1>3, <2>3, <2>4, KeptNoMore DEF NoMoreOf, Syncable
<1> QED BY <1>1, <1>2, <1>3, <1>4, <1>5, CalmStep

LEMMA RefreshScalpsResults ==
  ASSUME Results, TypeOK', RefreshScalps PROVE Results'
<1>1. PICK read \in SUBSET Tickets :
          /\ Reads(read)
          /\ openScalps' = openScalps \cap read
          /\ unsynced' = unsynced \cup (openScalps \ read)
  BY DEF RefreshScalps
<1>2. /\ faults' \in {faults, faults + 1}
      /\ \A t \in read : t \in Tickets /\ Open(t)
      /\ \A t \in Tickets \ read : Open(t) => faults' > 0
  <2>1. /\ faults' \in {faults, faults + 1} /\ faults \in Nat
        /\ \A t \in read : t \in Tickets /\ Open(t)
        /\ faults' = faults => read = {t \in Tickets : Open(t)}
    BY <1>1, ReadsEffect DEF Results, TypeOK
  <2>2. faults' = faults + 1 => faults' > 0
    BY <2>1
  <2> QED BY <2>1, <2>2
<1>3. /\ UNCHANGED <<broker, registry, recorded, positions>>
      /\ pc' = "sync" /\ pc' \notin Reconciling
  BY DEF RefreshScalps, Reconciling
<1>4. \A t \in Tickets : Kept(t)
  BY <1>3, SameBroker
<1>5. Filed'
  <2>1. \A s \in Symbols : EntryFiled(s)'
    BY <1>3, <1>4, EntryStays
  <2>2. /\ openScalps' \subseteq openScalps
        /\ unsynced' \subseteq openScalps \cup unsynced
        /\ openScalps' \cap unsynced' = {}
        /\ \A t \in positions' : t \in Tickets /\ t \in positions
    BY <1>1, <1>3 DEF Results, Filed, ListsFiled, TypeOK
  <2>5. \A t \in unsynced' \ unsynced : Open(t) => faults' > 0
    BY <1>1, <1>2 DEF Results, TypeOK
  <2>3. ListsFiled'
    BY <1>2, <1>4, <2>2, <2>5, ListsStay
  <2>4. \A u \in Tickets : PositionFiled(u)'
    BY <1>3, <1>4, PositionsStay
  <2> QED BY <2>1, <2>3, <2>4 DEF Filed
<1>6. ASSUME NEW t \in Tickets PROVE NoMoreOf(t) /\ ~Hidden(t)'
  <2>1. Entered(t)' <=> Entered(t)
    BY <1>3 DEF Entered
  <2>2. Recordable(t)' => Recordable(t)
    BY <1>1, <1>2, <1>3, <1>4, <2>1 DEF Recordable, Kept
  <2>3. Syncable(t)' => Syncable(t)
    BY <1>1 DEF Syncable
  <2> QED BY <1>3, <1>4, <2>2, <2>3, KeptNoMore DEF NoMoreOf, Hidden
<1> QED BY <1>2, <1>3, <1>4, <1>5, <1>6, CalmStep

(* Symbols are registered from a list of positions that were used already  *)
(* to say that they may be recorded.                                       *)
LEMMA RegisteringResults ==
  ASSUME Results, TypeOK', NEW tickets \in SUBSET Tickets,
         NEW source \in {"engine", "scalper", "mt5_sync"},
         RegistersMissing(tickets, source, registry),
         \A t \in tickets : Used(t) /\ Recordable(t)
                            /\ (source = "scalper" => Scalp(t)),
         UNCHANGED <<broker, openScalps, unsynced, positions, faults,
                     recorded>>,
         pc' \notin Reconciling \cup {"sync"}
  PROVE  Results'
<1>1. \A s \in Symbols :
          \/ registry'[s] = registry[s]
          \/ /\ registry'[s].ticket \in tickets
             /\ broker[registry'[s].ticket].symbol = s
             /\ registry'[s].source = source
  <2> DEFINE held == registry
  <2>1. RegistersMissing(tickets, source, held)
    OBVIOUS
  <2> HIDE DEF held
  <2>2. \A s \in Symbols :
          \/ registry'[s] = held[s]
          \/ /\ registry'[s].ticket \in tickets
             /\ broker[registry'[s].ticket].symbol = s
             /\ registry'[s].source = source
    BY <2>1, RegistersMissingEffect
  <2> QED BY <2>2 DEF held
<1>2. \A t \in Tickets : Kept(t)
  BY SameBroker
<1>3. Filed'
  <2>1. ASSUME NEW s \in Symbols PROVE EntryFiled(s)'
    <3>1. CASE registry'[s] = registry[s]
      BY <1>2, <3>1, EntryStays
    <3>2. CASE /\ registry'[s].ticket \in tickets
               /\ broker[registry'[s].ticket].symbol = s
               /\ registry'[s].source = source
      BY <3>2 DEF EntryFiled, Used, Scalp
    <3> QED BY <1>1, <3>1, <3>2
  <2>2. ListsFiled'
    BY <1>2, ListsStay DEF Results, Filed, ListsFiled, TypeOK
  <2>3. \A u \in Tickets : PositionFiled(u)'
    BY <1>2, PositionsStay
  <2> QED BY <2>1, <2>2, <2>3 DEF Filed
<1>4. ASSUME NEW t \in Tickets PROVE NoMoreOf(t) /\ ~Hidden(t)'
  <2>1. Entered(t)' => Entered(t) \/ t \in tickets
    BY <1>1 DEF Entered
  <2>2. Recordable(t)' => Recordable(t)
    BY <1>2, <2>1 DEF Recordable, Kept
  <2> QED BY <1>2, <2>2, KeptNoMore DEF NoMoreOf, Syncable, Hidden
<1> QED BY <1>2, <1>3, <1>4, CalmStep

LEMMA ReverseReconcileResults ==
  ASSUME Results, TypeOK', ReverseReconcile PROVE Results'
<1>1. \A t \in positions : Used(t) /\ Recordable(t)
  BY DEF ReverseReconcile, Results, Filed, ListsFiled, Recordable, Reconciling
<1>2. positions \in SUBSET Tickets
  BY DEF Results, TypeOK
<1> QED
  BY <1>1, <1>2, RegisteringResults
  DEF ReverseReconcile, RegistersUnknown, counters, Reconciling

LEMMA RegisterScalpsResults ==
  ASSUME Results, TypeOK', RegisterScalps PROVE Results'
<1>1. \A t \in openScalps : Used(t) /\ Recordable(t) /\ Scalp(t)
  BY DEF RegisterScalps, Results, Filed, ListsFiled, Recordable
<1>2. openScalps \in SUBSET Tickets
  BY DEF Results, TypeOK
<1> QED
  BY <1>1, <1>2, RegisteringResults
  DEF RegisterScalps, RegistersOpenScalps, counters, Reconciling

----------------------------------------------------------------------------
(* A result is recorded.                                                   *)

(* A step that records one position, using up what pays for it.            *)
LEMMA RecordingStep ==
  ASSUME Results, TypeOK', Filed', NEW t \in Tickets,
         \A u \in Tickets : Kept(u),
         \A u \in Tickets : NoMoreOf(u),
         \A u \in Tickets : Hidden(u)' => Hidden(u),
         faults' = faults,
         recorded'[t] = recorded[t] + 1,
         \A u \in Tickets \ {t} : recorded'[u] = recorded[u],
         ~Open(t)' \/ faults > 0,
         \/ Recordable(t) /\ ~Recordable(t)'
         \/ Scalp(t) /\ Syncable(t) /\ ~Syncable(t)'
         \/ Hidden(t) /\ ~Hidden(t)'
  PROVE  Results'
<1>1. RecordedOnlyClosed'
  <2>1. ASSUME NEW u \in Tickets, recorded'[u] > 0, Open(u)'
        PROVE  faults > 0
    <3>1. CASE u = t
      BY <2>1, <3>1
    <3>2. CASE u # t
      <4>1. recorded[u] > 0 /\ Open(u)
        BY <2>1, <3>2 DEF Kept
      <4> QED BY <4>1 DEF Results, RecordedOnlyClosed, Kept
    <3> QED BY <3>1, <3>2
  <2> QED BY <2>1 DEF RecordedOnlyClosed
<1>2. Budgeted(t)'
  BY BudgetSpent DEF Results
<1>3. ASSUME NEW u \in Tickets \ {t} PROVE Budgeted(u)'
  BY BudgetKept DEF Results
<1>4. \A u \in Tickets : Budgeted(u)'
  BY <1>2, <1>3
<1> QED BY <1>1, <1>4 DEF Results

LEMMA ReconcileStaleResults ==
  ASSUME Results, TypeOK', NEW s \in Symbols, ReconcileStale(s)
  PROVE  Results'
<1>1. /\ Held(s) /\ s \notin SymbolsOf(positions) /\ pc \in Reconciling
      /\ UNCHANGED <<broker, openScalps, unsynced, positions, pc, faults>>
  BY DEF ReconcileStale, Stale, Registered, Reconciling, counters
<1>2. PICK t \in Tickets : t = registry[s].ticket /\ broker[t].symbol = s
  BY <1>1, EntryOf DEF Results, Filed, EntryFiled
<1>3. t \notin positions
  BY <1>1, <1>2 DEF SymbolsOf
<1>4. /\ registry'[s] = NotHeld
      /\ \A r \in Symbols \ {s} : registry'[r] = registry[r]
  BY DEF ReconcileStale, Drops, Results, TypeOK
<1>5. \A u \in Tickets : Entered(u)' => Entered(u)
  BY <1>4, NamesAssumption DEF Entered, NotHeld
<1>6. ~Entered(t)'
  <2>1. ASSUME NEW r \in Symbols \ {s} PROVE registry[r].ticket # t
    BY <1>2, EntryOf DEF Results, Filed, EntryFiled
  <2> QED BY <1>2, <1>4, <2>1, NamesAssumption DEF Entered, NotHeld
<1>7. \A u \in Tickets : Kept(u)
  BY <1>1, SameBroker
<1>8. \/ UNCHANGED recorded
      \/ recorded' = [recorded EXCEPT ![t] = @ + 1]
  <2>1. PICK pnl \in ResultOf(t) : IF WorthRecording(pnl, registry[s].source)
                                   THEN Records(t, pnl) ELSE NothingRecorded
    BY <1>2 DEF ReconcileStale
  <2> QED BY <2>1 DEF Records, NothingRecorded
<1>9. Open(t) => faults > 0
  <2>1. faults \in Nat
    BY DEF Results, TypeOK
  <2> QED BY <1>1, <1>2, <1>3, <2>1 DEF Results, Filed, EntryFiled
<1>10. Entered(t)
  BY <1>2 DEF Entered
<1>11. Filed'
  <2>1. ASSUME NEW r \in Symbols PROVE EntryFiled(r)'
    BY <1>1, <1>4, <1>7, EntryStays
  <2>2. ListsFiled'
    BY <1>1, <1>7, ListsStay DEF Results, Filed, ListsFiled, TypeOK
  <2>3. \A u \in Tickets : recorded'[u] = recorded[u] \/ Used(u)
    <3>1. Used(t)
      BY <1>1, <1>2 DEF Results, Filed, EntryFiled
    <3> QED BY <1>8, <3>1 DEF Results, TypeOK
  <2>4. \A u \in Tickets : PositionFiled(u)'
    BY <1>7, <2>3, PositionsStay
  <2> QED BY <2>1, <2>2, <2>4 DEF Filed
<1>12. ASSUME NEW u \in Tickets
       PROVE  NoMoreOf(u) /\ (Hidden(u)' => Hidden(u))
  <2>1. Open(u)' <=> Open(u)
    BY <1>1 DEF Open
  <2>2. Recordable(u)' => Recordable(u)
    BY <1>1, <1>5, <2>1 DEF Recordable
  <2>3. Hidden(u)' => Hidden(u)
    BY <1>1, <1>5, <2>1 DEF Hidden
  <2> QED BY <1>1, <1>7, <2>2, <2>3, KeptNoMore DEF NoMoreOf, Syncable
<1>13. ~Open(t)' => Recordable(t) /\ ~Recordable(t)'
  <2>1. pc' # "sync"
    BY <1>1 DEF Reconciling
  <2> QED BY <1>1, <1>3, <1>6, <1>10, <2>1 DEF Recordable
<1>14. Open(t)' => Open(t) /\ Hidden(t) /\ ~Hidden(t)'
  BY <1>1, <1>3, <1>6, <1>10 DEF Hidden, Open
<1>15. CASE UNCHANGED recorded
  BY <1>1, <1>7, <1>11, <1>12, <1>15, CalmStep
<1>16. CASE recorded' = [recorded EXCEPT ![t] = @ + 1]
  <2>1. /\ recorded'[t] = recorded[t] + 1
        /\ \A u \in Tickets \ {t} : recorded'[u] = recorded[u]
    BY <1>16 DEF Results, TypeOK
  <2>2. CASE ~Open(t)'
    BY <1>1, <1>7, <1>11, <1>12, <1>13, <2>1, <2>2, RecordingStep
  <2>3. CASE Open(t)'
    <3>1. faults > 0
      BY <1>9, <1>14, <2>3
    <3> QED BY <1>1, <1>7, <1>11, <1>12, <1>14, <2>1, <2>3, <3>1,
            RecordingStep
  <2> QED BY <2>2, <2>3
<1> QED BY <1>8, <1>15, <1>16

LEMMA CloseTradeResults ==
  ASSUME Results, TypeOK', NEW t \in Tickets, NEW pnl \in PnLs,
         CloseTrade(t, pnl)
  PROVE  Results'
<1> DEFINE s == broker[t].symbol
<1>1. /\ Open(t) /\ Used(t) /\ Held(s)
      /\ pc \in {"closing", "closing_only"}
      /\ UNCHANGED <<openScalps, unsynced, positions, pc, faults>>
      /\ recorded' = [recorded EXCEPT ![t] = @ + 1]
  BY DEF CloseTrade, counters, Records, Open, Used
<1>2. /\ ~Open(t)'
      /\ \A u \in Tickets : Kept(u)
  BY ClosingEffect, PnLsAssumption DEF Results, CloseTrade
<1>3. s \in Symbols
  BY <1>1 DEF Results, Filed, PositionFiled
<1>4. Drops(s)
  BY DEF CloseTrade
<1> HIDE DEF s
<1>5. /\ registry'[s] = NotHeld
      /\ \A r \in Symbols \ {s} : registry'[r] = registry[r]
  BY <1>3, <1>4 DEF Drops, Results, TypeOK
<1>6. \A u \in Tickets : Entered(u)' => Entered(u)
  BY <1>5, NamesAssumption DEF Entered, NotHeld
<1>7. ~Entered(t)'
  <2>1. ASSUME NEW r \in Symbols \ {s} PROVE registry[r].ticket # t
    BY EntryOf DEF Results, Filed, EntryFiled, s
  <2> QED BY <1>5, <2>1, NamesAssumption DEF Entered, NotHeld
<1>8. Filed'
  <2>1. ASSUME NEW r \in Symbols PROVE EntryFiled(r)'
    BY <1>1, <1>2, <1>5, EntryStays DEF Reconciling
  <2>2. ListsFiled'
    BY <1>1, <1>2, ListsStay DEF Results, Filed, ListsFiled, TypeOK
  <2>3. \A u \in Tickets : recorded'[u] = recorded[u] \/ Used(u)
    BY <1>1 DEF Results, TypeOK
  <2>4. \A u \in Tickets : PositionFiled(u)'
    BY <1>2, <2>3, PositionsStay
  <2> QED BY <2>1, <2>2, <2>4 DEF Filed
<1>9. ASSUME NEW u \in Tickets PROVE NoMoreOf(u) /\ ~Hidden(u)'
  <2>1. Recordable(u)' => Recordable(u)
    BY <1>1, <1>2, <1>6 DEF Recordable, Kept
  <2> QED BY <1>1, <1>2, <2>1, KeptNoMore
      DEF NoMoreOf, Syncable, Hidden, Reconciling
<1>10. Recordable(t) /\ ~Recordable(t)'
  BY <1>1, <1>2, <1>7 DEF Recordable, Reconciling
<1>11. /\ recorded'[t] = recorded[t] + 1
       /\ \A u \in Tickets \ {t} : recorded'[u] = recorded[u]
  BY <1>1 DEF Results, TypeOK
<1> QED BY <1>1, <1>2, <1>8, <1>9, <1>10, <1>11, RecordingStep

LEMMA SyncScalpResults ==
  ASSUME Results, TypeOK', NEW t \in Tickets, SyncScalp(t)
  PROVE  Results'
<1>1. /\ t \in unsynced /\ pc = "sync"
      /\ UNCHANGED <<broker, openScalps, positions, pc, faults>>
      /\ unsynced' = unsynced \ {t}
      /\ \A s \in Symbols : registry'[s] = registry[s] \/ registry'[s] = NotHeld
  BY DEF SyncScalp, MarksSynced, counters, Results, TypeOK
<1>2. \/ UNCHANGED recorded
      \/ recorded' = [recorded EXCEPT ![t] = @ + 1]
  BY DEF SyncScalp, Records, NothingRecorded
<1>3. \A u \in Tickets : Kept(u)
  BY <1>1, SameBroker
<1>4. Filed'
  <2>1. ASSUME NEW r \in Symbols PROVE EntryFiled(r)'
    BY <1>1, <1>3, EntryStays DEF Reconciling
  <2>2. ListsFiled'
    BY <1>1, <1>3, ListsStay DEF Results, Filed, ListsFiled, TypeOK
  <2>3. \A u \in Tickets : recorded'[u] = recorded[u] \/ Used(u)
    <3>1. Used(t)
      BY <1>1 DEF Results, Filed, ListsFiled
    <3> QED BY <1>2, <3>1 DEF Results, TypeOK
  <2>4. \A u \in Tickets : PositionFiled(u)'
    BY <1>3, <2>3, PositionsStay
  <2> QED BY <2>1, <2>2, <2>4 DEF Filed
<1>5. ASSUME NEW u \in Tickets PROVE NoMoreOf(u) /\ ~Hidden(u)'
  <2>1. Entered(u)' => Entered(u)
    BY <1>1, NamesAssumption DEF Entered, NotHeld
  <2>2. Recordable(u)' => Recordable(u)
    BY <1>1, <1>3, <2>1 DEF Recordable, Kept
  <2>3. Syncable(u)' => Syncable(u)
    BY <1>1 DEF Syncable
  <2> QED BY <1>1, <1>3, <2>2, <2>3, KeptNoMore
      DEF NoMoreOf, Hidden, Reconciling
<1>6. Scalp(t) /\ Syncable(t) /\ ~Syncable(t)'
  <2>1. t \notin openScalps /\ Scalp(t)
    BY <1>1 DEF Results, Filed, ListsFiled
  <2> QED BY <1>1, <2>1 DEF Syncable
<1>7. ~Open(t)' \/ faults > 0
  BY <1>1 DEF Results, Filed, ListsFiled, Open
<1>8. CASE UNCHANGED recorded
  BY <1>1, <1>3, <1>4, <1>5, <1>8, CalmStep
<1>9. CASE recorded' = [recorded EXCEPT ![t] = @ + 1]
  <2>1. /\ recorded'[t] = recorded[t] + 1
        /\ \A u \in Tickets \ {t} : recorded'[u] = recorded[u]
    BY <1>9 DEF Results, TypeOK
  <2> QED BY <1>1, <1>3, <1>4, <1>5, <1>6, <1>7, <1>9, <2>1, RecordingStep
<1> QED BY <1>2, <1>8, <1>9

----------------------------------------------------------------------------
(* The invariant, and what it says.                                        *)

LEMMA InitResults == ASSUME Init PROVE Results
<1>1. TypeOK
  BY InitTypeOK
<1>2. \A s \in Symbols : ~Held(s) /\ registry[s].ticket = NoTicket
  BY DEF Init, Held, NotHeld
<1>3. \A t \in Tickets :
          ~Used(t) /\ ~Open(t) /\ ~Scalp(t) /\ recorded[t] = 0
  BY DEF Init, NoPosition, Used, Open, Scalp
<1>4. Filed
  BY <1>2, <1>3 DEF Init, Filed, EntryFiled, ListsFiled, PositionFiled
<1>5. RecordedOnlyClosed
  BY <1>3 DEF RecordedOnlyClosed
<1>6. ASSUME NEW t \in Tickets PROVE Budgeted(t)
  <2>1. faults = 0 /\ ~Hidden(t)
    BY <1>3 DEF Init, Hidden
  <2> QED BY <1>3, <2>1 DEF Budgeted, One
<1> QED BY <1>1, <1>4, <1>5, <1>6 DEF Results

LEMMA StepResults == ASSUME Results, [Next]_vars PROVE Results'
<1>1. TypeOK'
  BY WorldTypeOK, CycleTypeOK DEF Results, Next, vars, program, counters, TypeOK
<1>2. CASE World
  BY <1>1, <1>2, OutsiderOpensResults, PositionClosesResults, IdleResults,
     RestartResults
  DEF World
<1>3. CASE Cycle
  BY <1>1, <1>3, IdleResults, ReadPositionsResults, ReconcileStaleResults,
     ReverseReconcileResults, CloseTradeResults, ScalpOpensResults,
     RefreshScalpsResults, SyncScalpResults, RegisterScalpsResults,
     MainOpensResults, UnansweredResults
  DEF Cycle, Unanswered
<1>4. CASE UNCHANGED vars
  BY <1>1, <1>4, IdleResults
<1> QED BY <1>2, <1>3, <1>4 DEF Next

LEMMA ResultsInvariant == Spec => []Results
  BY InitResults, StepResults, PTL DEF Spec

(* No result is recorded for a position that is still open, also one that  *)
(* was closed in part, unless a read has failed                            *)
(* (_manage_existing_positions), whatever the tickets, the symbols, the    *)
(* outsiders and the crashes.                                              *)
THEOREM OnlyClosedRecorded == Spec => []RecordedOnlyClosed
<1>1. Results => RecordedOnlyClosed
  BY DEF Results
<1> QED BY <1>1, ResultsInvariant, PTL

(* A position enters the daily results at most once, a scalp at most twice,*)
(* and either once more for each fault (record_trade_result).              *)
THEOREM CountedAtMostTwice == Spec => []CountedOnceOrTwice
<1>1. ASSUME Results PROVE CountedOnceOrTwice
  <2>1. ASSUME NEW t \in Tickets, Scalp(t) PROVE recorded[t] <= 2 + faults
    <3> DEFINE r == recorded[t]
               f == faults
    <3>1. r \in Nat /\ f \in Nat
      BY <1>1 DEF Results, TypeOK
    <3>2. r + One(Recordable(t)) + One(Syncable(t)) + One(Hidden(t)) <= 2 + f
      BY <1>1, <2>1 DEF Results, Budgeted
    <3> HIDE DEF r, f
    <3>3. r <= 2 + f
      BY <3>1, <3>2 DEF One
    <3> QED BY <3>3 DEF r, f
  <2>2. ASSUME NEW t \in Tickets, ~Scalp(t) PROVE recorded[t] <= 1 + faults
    <3> DEFINE r == recorded[t]
               f == faults
    <3>1. r \in Nat /\ f \in Nat
      BY <1>1 DEF Results, TypeOK
    <3>2. r + One(Recordable(t)) + One(Hidden(t)) <= 1 + f
      BY <1>1, <2>2 DEF Results, Budgeted
    <3> HIDE DEF r, f
    <3>3. r <= 1 + f
      BY <3>1, <3>2 DEF One
    <3> QED BY <3>3 DEF r, f
  <2> QED BY <2>1, <2>2 DEF CountedOnceOrTwice, Scalp
<1> QED BY <1>1, ResultsInvariant, PTL
----------------------------------------------------------------------------
(* Engine and scalper do not double up.                                    *)

OpenOn(s) == {t \in Tickets : Open(t) /\ broker[t].symbol = s}
Outsiders == {t \in Tickets : broker[t].owner = "outsider"}

Unmanaged == {"asleep", "allowed", "manage", "manage_only"}
Managed   == {"closing", "closing_only", "scalp", "refresh", "sync", "main"}

(* The engine's view of symbol s may hide a position of its own: when it   *)
(* reconciles, because the list lacks it; later, because no entry stands   *)
(* for it; and once the scalper has scanned, because neither an entry nor  *)
(* a scalp does (until the scalps are refreshed, one that is still open).  *)
Seen(s) ==
    \/ pc \in Reconciling /\ s \in SymbolsOf(positions)
    \/ pc \in Managed /\ Held(s)
    \/ pc = "refresh" /\ \E t \in openScalps : Open(t) /\ broker[t].symbol = s
    \/ pc \in {"sync", "main"} /\ s \in SymbolsOf(openScalps)

Blind(s) ==
    /\ pc \notin Unmanaged
    /\ OwnOn(s) # {}
    /\ ~Seen(s)

(* The synchronization may drop an entry of s for a scalp that has closed, *)
(* and blind the engine to another position of s.                          *)
DropThreatens(s) ==
    \/ /\ registry[s].source = "scalper"
       /\ s \in SymbolsOf(unsynced \cup {t \in openScalps : ~Open(t)})
    \/ pc = "sync" /\ s \in SymbolsOf({t \in openScalps : ~Open(t)})

Paid(s) ==
    Cardinality(OpenOn(s)) + One(Blind(s)) + One(DropThreatens(s))
        <= 1 + faults + outsiders

(* The engine holds a position of s, sees it, and nothing is about to make *)
(* it forget: s counts against its limit, and stays counted.               *)
Secure(s) == OwnOn(s) # {} /\ ~Blind(s) /\ ~DropThreatens(s)
SecureKept(s) == Secure(s) => Secure(s)'

Dedup ==
    /\ Results
    /\ Cardinality(Outsiders) <= outsiders
    /\ pc = "main" => SymbolsOf(openScalps) \subseteq Registered
    /\ \A s \in Symbols : Paid(s)

----------------------------------------------------------------------------
(* What a step may do to what is paid for a symbol.                        *)

LEMMA TicketsFinite ==
  ASSUME NEW S \in SUBSET Tickets
  PROVE  IsFiniteSet(S) /\ Cardinality(S) \in Nat
  BY TicketsAssumption, FS_Subset, FS_CardinalityType

LEMMA OpenOnFinite ==
  ASSUME NEW s
  PROVE  /\ IsFiniteSet(OpenOn(s)) /\ Cardinality(OpenOn(s)) \in Nat
         /\ IsFiniteSet(OpenOn(s)') /\ Cardinality(OpenOn(s)') \in Nat
<1>1. OpenOn(s) \in SUBSET Tickets /\ OpenOn(s)' \in SUBSET Tickets
  BY DEF OpenOn
<1> QED BY <1>1, TicketsFinite

(* Nothing gets worse.                                                     *)
LEMMA PaidKept ==
  ASSUME TypeOK, TypeOK', NEW s \in Symbols, Paid(s),
         OpenOn(s)' \subseteq OpenOn(s), outsiders' = outsiders,
         faults' \in {faults, faults + 1},
         Blind(s)' => Blind(s), DropThreatens(s)' => DropThreatens(s)
  PROVE  Paid(s)'
<1> DEFINE k == Cardinality(OpenOn(s))
           kk == Cardinality(OpenOn(s)')
           n == 1 + faults + outsiders
           nn == 1 + faults' + outsiders'
<1>1. k \in Nat /\ kk \in Nat /\ kk <= k
  BY OpenOnFinite, FS_Subset
<1>2. n \in Nat /\ nn \in Nat /\ nn >= n
  <2> DEFINE f == faults
             ff == faults'
             o == outsiders
  <2>1. /\ f \in Nat /\ ff \in Nat /\ ff \in {f, f + 1}
        /\ o \in Nat /\ outsiders' = o
    BY DEF TypeOK
  <2>2. n = 1 + f + o /\ nn = 1 + ff + o
    BY <2>1
  <2> HIDE DEF f, ff, o, n, nn
  <2> QED BY <2>1, <2>2
<1>3. k + One(Blind(s)) + One(DropThreatens(s)) <= n
  BY DEF Paid
<1>4. kk + One(Blind(s)') + One(DropThreatens(s)') <= nn
  <2> HIDE DEF k, kk, n, nn
  <2> QED BY <1>1, <1>2, <1>3 DEF One
<1> QED BY <1>4 DEF Paid, One

(* A failed read pays for one thing that does.                             *)
LEMMA PaidFault ==
  ASSUME TypeOK, TypeOK', NEW s \in Symbols, Paid(s),
         OpenOn(s)' = OpenOn(s), outsiders' = outsiders,
         faults' = faults + 1,
         \/ Blind(s)' => Blind(s)
         \/ DropThreatens(s)' => DropThreatens(s)
  PROVE  Paid(s)'
<1> DEFINE k == Cardinality(OpenOn(s))
           kk == Cardinality(OpenOn(s)')
           n == 1 + faults + outsiders
           nn == 1 + faults' + outsiders'
<1>1. k \in Nat /\ kk = k
  BY OpenOnFinite
<1>2. n \in Nat /\ nn = n + 1
  BY DEF TypeOK
<1>3. k + One(Blind(s)) + One(DropThreatens(s)) <= n
  BY DEF Paid
<1>4. kk + One(Blind(s)') + One(DropThreatens(s)') <= nn
  <2> HIDE DEF k, kk, n, nn
  <2> QED BY <1>1, <1>2, <1>3 DEF One
<1> QED BY <1>4 DEF Paid, One

(* So does a position that closes.                                         *)
LEMMA PaidClosed ==
  ASSUME TypeOK, TypeOK', NEW s \in Symbols, Paid(s),
         NEW t \in OpenOn(s), OpenOn(s)' = OpenOn(s) \ {t},
         UNCHANGED <<outsiders, faults>>,
         \/ Blind(s)' => Blind(s)
         \/ DropThreatens(s)' => DropThreatens(s)
  PROVE  Paid(s)'
<1> DEFINE k == Cardinality(OpenOn(s))
           kk == Cardinality(OpenOn(s)')
           n == 1 + faults + outsiders
           nn == 1 + faults' + outsiders'
<1>1. k \in Nat /\ kk \in Nat /\ kk + 1 = k
  <2>1. k \in Nat /\ kk \in Nat /\ IsFiniteSet(OpenOn(s))
    BY OpenOnFinite
  <2>2. Cardinality(OpenOn(s) \ {t}) = Cardinality(OpenOn(s)) - 1
    BY <2>1, FS_RemoveElement
  <2>3. kk = k - 1
    BY <2>2
  <2> HIDE DEF k, kk
  <2> QED BY <2>1, <2>3
<1>2. n \in Nat /\ nn = n
  BY DEF TypeOK
<1>3. k + One(Blind(s)) + One(DropThreatens(s)) <= n
  BY DEF Paid
<1>4. kk + One(Blind(s)') + One(DropThreatens(s)') <= nn
  <2> HIDE DEF k, kk, n, nn
  <2> QED BY <1>1, <1>2, <1>3 DEF One
<1> QED BY <1>4 DEF Paid, One

(* An entry that is dropped as was threatened blinds, and threatens no more.*)
LEMMA PaidDropped ==
  ASSUME TypeOK, TypeOK', NEW s \in Symbols, Paid(s),
         OpenOn(s)' = OpenOn(s), UNCHANGED <<outsiders, faults>>,
         DropThreatens(s),
         ~(Blind(s)' /\ DropThreatens(s)'), ~Blind(s) 
  PROVE  Paid(s)'
<1> DEFINE k == Cardinality(OpenOn(s))
           kk == Cardinality(OpenOn(s)')
           n == 1 + faults + outsiders
           nn == 1 + faults' + outsiders'
<1>1. k \in Nat /\ kk = k
  BY OpenOnFinite
<1>2. n \in Nat /\ nn = n
  BY DEF TypeOK
<1>3. k + One(Blind(s)) + One(DropThreatens(s)) <= n
  BY DEF Paid
<1>4. kk + One(Blind(s)') + One(DropThreatens(s)') <= nn
  <2> HIDE DEF k, kk, n, nn
  <2> QED BY <1>1, <1>2, <1>3 DEF One
<1> QED BY <1>4 DEF Paid, One

(* An order sent past the engine pays for itself.                          *)
LEMMA PaidOutside ==
  ASSUME TypeOK, TypeOK', NEW s \in Symbols, Paid(s),
         NEW t, OpenOn(s)' \subseteq OpenOn(s) \cup {t},
         faults' = faults, outsiders' = outsiders + 1,
         Blind(s)' => Blind(s), DropThreatens(s)' => DropThreatens(s)
  PROVE  Paid(s)'
<1> DEFINE k == Cardinality(OpenOn(s))
           kk == Cardinality(OpenOn(s)')
           n == 1 + faults + outsiders
           nn == 1 + faults' + outsiders'
<1>1. k \in Nat /\ kk \in Nat /\ kk <= k + 1
  <2>1. /\ IsFiniteSet(OpenOn(s) \cup {t})
        /\ Cardinality(OpenOn(s) \cup {t}) \in {k, k + 1}
    BY OpenOnFinite, FS_AddElement
  <2>2. /\ kk <= Cardinality(OpenOn(s) \cup {t})
        /\ k \in Nat /\ kk \in Nat
    BY <2>1, OpenOnFinite, FS_Subset
  <2> QED BY <2>1, <2>2
<1>2. n \in Nat /\ nn = n + 1
  BY DEF TypeOK
<1>3. k + One(Blind(s)) + One(DropThreatens(s)) <= n
  BY DEF Paid
<1>4. kk + One(Blind(s)') + One(DropThreatens(s)') <= nn
  <2> HIDE DEF k, kk, n, nn
  <2> QED BY <1>1, <1>2, <1>3 DEF One
<1> QED BY <1>4 DEF Paid, One

(* An order of the engine or its scalper: either nothing of the symbol is  *)
(* open but what outsiders hold, or the order was blind, and that paid.    *)
LEMMA PaidOpened ==
  ASSUME TypeOK, TypeOK', NEW s \in Symbols, Paid(s),
         NEW t, OpenOn(s)' \subseteq OpenOn(s) \cup {t},
         UNCHANGED <<outsiders, faults>>,
         Cardinality(Outsiders) <= outsiders,
         OwnOn(s) = {} \/ Blind(s),
         ~Blind(s)', ~DropThreatens(s)'
  PROVE  Paid(s)'
<1> DEFINE k == Cardinality(OpenOn(s))
           kk == Cardinality(OpenOn(s)')
           f == faults
           o == outsiders
<1>1. k \in Nat /\ kk \in Nat /\ kk <= k + 1
  <2>1. /\ IsFiniteSet(OpenOn(s) \cup {t})
        /\ Cardinality(OpenOn(s) \cup {t}) \in {k, k + 1}
    BY OpenOnFinite, FS_AddElement
  <2>2. /\ kk <= Cardinality(OpenOn(s) \cup {t})
        /\ k \in Nat /\ kk \in Nat
    BY <2>1, OpenOnFinite, FS_Subset
  <2> QED BY <2>1, <2>2
<1>2. f \in Nat /\ o \in Nat
  BY DEF TypeOK
<1>3. kk <= 1 + f + o
  <2>1. CASE OwnOn(s) = {}
    <3>1. OpenOn(s) \subseteq Outsiders
      BY <2>1 DEF OpenOn, OwnOn, OwnOpen, Outsiders
    <3>2. Outsiders \in SUBSET Tickets
      BY DEF Outsiders
    <3>3. k <= Cardinality(Outsiders) /\ Cardinality(Outsiders) \in Nat
      BY <3>1, <3>2, TicketsFinite, FS_Subset
    <3>4. Cardinality(Outsiders) <= o
      OBVIOUS
    <3>5. k <= o
      <4> HIDE DEF k, o
      <4> QED BY <1>2, <1>1, <3>3, <3>4
    <3> HIDE DEF k, kk, f, o
    <3> QED BY <1>1, <1>2, <3>5
  <2>2. CASE Blind(s)
    <3>1. k + 1 + One(DropThreatens(s)) <= 1 + f + o
      BY <2>2 DEF Paid, One
    <3> HIDE DEF k, kk, f, o
    <3> QED BY <1>1, <1>2, <3>1 DEF One
  <2> QED BY <2>1, <2>2
<1>4. kk + 0 + 0 <= 1 + faults' + outsiders'
  <2>1. faults' = f /\ outsiders' = o
    OBVIOUS
  <2> HIDE DEF kk, f, o
  <2> QED BY <1>1, <1>2, <1>3, <2>1
<1> QED BY <1>4 DEF Paid, One

(* One that is filled unanswered leaves the engine blind, and is paid for  *)
(* by the fault.                                                           *)
LEMMA PaidUnanswered ==
  ASSUME TypeOK, TypeOK', NEW s \in Symbols, Paid(s),
         NEW t, OpenOn(s)' \subseteq OpenOn(s) \cup {t},
         outsiders' = outsiders, faults' = faults + 1,
         Cardinality(Outsiders) <= outsiders,
         OwnOn(s) = {} \/ Blind(s),
         ~DropThreatens(s)'
  PROVE  Paid(s)'
<1> DEFINE k == Cardinality(OpenOn(s))
           kk == Cardinality(OpenOn(s)')
           f == faults
           o == outsiders
<1>1. k \in Nat /\ kk \in Nat /\ kk <= k + 1
  <2>1. /\ IsFiniteSet(OpenOn(s) \cup {t})
        /\ Cardinality(OpenOn(s) \cup {t}) \in {k, k + 1}
    BY OpenOnFinite, FS_AddElement
  <2>2. /\ kk <= Cardinality(OpenOn(s) \cup {t})
        /\ k \in Nat /\ kk \in Nat
    BY <2>1, OpenOnFinite, FS_Subset
  <2> QED BY <2>1, <2>2
<1>2. f \in Nat /\ o \in Nat
  BY DEF TypeOK
<1>3. kk <= 1 + f + o
  <2>1. CASE OwnOn(s) = {}
    <3>1. OpenOn(s) \subseteq Outsiders
      BY <2>1 DEF OpenOn, OwnOn, OwnOpen, Outsiders
    <3>2. Outsiders \in SUBSET Tickets
      BY DEF Outsiders
    <3>3. k <= Cardinality(Outsiders) /\ Cardinality(Outsiders) \in Nat
      BY <3>1, <3>2, TicketsFinite, FS_Subset
    <3>4. Cardinality(Outsiders) <= o
      OBVIOUS
    <3>5. k <= o
      <4> HIDE DEF k, o
      <4> QED BY <1>2, <1>1, <3>3, <3>4
    <3> HIDE DEF k, kk, f, o
    <3> QED BY <1>1, <1>2, <3>5
  <2>2. CASE Blind(s)
    <3>1. k + 1 + One(DropThreatens(s)) <= 1 + f + o
      BY <2>2 DEF Paid, One
    <3> HIDE DEF k, kk, f, o
    <3> QED BY <1>1, <1>2, <3>1 DEF One
  <2> QED BY <2>1, <2>2
<1>4. kk + One(Blind(s)') + 0 <= 1 + faults' + outsiders'
  <2>1. faults' = f + 1 /\ outsiders' = o
    OBVIOUS
  <2> HIDE DEF kk, f, o
  <2> QED BY <1>1, <1>2, <1>3, <2>1 DEF One
<1> QED BY <1>4 DEF Paid, One

LEMMA SecureStays ==
  ASSUME NEW s, OwnOn(s)' = OwnOn(s),
         Blind(s)' => Blind(s), DropThreatens(s)' => DropThreatens(s)
  PROVE  SecureKept(s)
  BY DEF SecureKept, Secure

----------------------------------------------------------------------------
(* What is paid for a symbol and whether it stays secure, action by action.*)

LEMMA SameOpen ==
  ASSUME UNCHANGED broker
  PROVE  /\ \A s \in Symbols : OpenOn(s)' = OpenOn(s) /\ OwnOn(s)' = OwnOn(s)
         /\ \A t \in Tickets : Open(t)' <=> Open(t)
  BY DEF OpenOn, OwnOn, OwnOpen, Open

LEMMA IdlePaid ==
  ASSUME Dedup, TypeOK', NEW s \in Symbols,
         UNCHANGED <<broker, registry, openScalps, unsynced, outsiders,
                     faults>>,
         \/ UNCHANGED <<pc, positions>>
         \/ pc' \in Unmanaged
         \/ pc = "closing" /\ pc' = "scalp"
         \/ pc = "scalp" /\ pc' = "refresh"
  PROVE  Paid(s)' /\ SecureKept(s)
<1>1. OpenOn(s)' = OpenOn(s) /\ OwnOn(s)' = OwnOn(s)
  BY SameOpen
<1>2. Blind(s)' => Blind(s)
  <2>1. CASE UNCHANGED <<pc, positions>>
    BY <1>1, <2>1 DEF Blind, Seen, Held, SymbolsOf, Open
  <2>2. CASE pc' \in Unmanaged
    BY <2>2 DEF Blind
  <2>3. CASE \/ pc = "closing" /\ pc' = "scalp"
             \/ pc = "scalp" /\ pc' = "refresh"
    BY <1>1, <2>3 DEF Blind, Seen, Held, Unmanaged, Managed, Reconciling
  <2> QED BY <2>1, <2>2, <2>3
<1>3. DropThreatens(s)' => DropThreatens(s)
  <2>1. pc' = "sync" => pc = "sync"
    BY DEF Unmanaged
  <2> QED BY <2>1 DEF DropThreatens, SymbolsOf, Open
<1> QED BY <1>1, <1>2, <1>3, PaidKept, SecureStays DEF Dedup, Results

LEMMA OutsiderOpensPaid ==
  ASSUME Dedup, TypeOK', NEW t \in Tickets, NEW r \in Symbols,
         OutsiderOpens(t, r), NEW s \in Symbols
  PROVE  Paid(s)' /\ SecureKept(s)
<1>1. /\ ~Used(t) /\ ~Open(t) /\ broker'[t].owner = "outsider"
      /\ \A u \in Tickets \ {t} : broker'[u] = broker[u]
      /\ \A u \in openScalps \cup unsynced \cup positions :
             u # t /\ broker'[u] = broker[u]
  BY FillsEffect, OpeningFiled DEF Dedup, Results, OutsiderOpens
<1>2. /\ UNCHANGED <<registry, openScalps, unsynced, positions, pc, faults>>
      /\ outsiders' = outsiders + 1
  BY DEF OutsiderOpens, program
<1>3. /\ OpenOn(s)' \subseteq OpenOn(s) \cup {t}
      /\ OwnOn(s)' = OwnOn(s)
  BY <1>1 DEF OpenOn, OwnOn, OwnOpen, Open
<1>4. Blind(s)' => Blind(s)
  <2>1. Seen(s) => Seen(s)'
    BY <1>1, <1>2 DEF Seen, Held, SymbolsOf, Open
  <2> QED BY <1>2, <1>3, <2>1 DEF Blind
<1>5. DropThreatens(s)' => DropThreatens(s)
  BY <1>1, <1>2 DEF DropThreatens, SymbolsOf, Open
<1> QED BY <1>2, <1>3, <1>4, <1>5, PaidOutside, SecureStays DEF Dedup, Results

(* What the closing of a position does to its symbol and to the others.    *)
LEMMA ClosedOpenOn ==
  ASSUME TypeOK, NEW t \in Tickets, NEW pnl \in Int, Open(t),
         broker' = [broker EXCEPT ![t].status = "closed", ![t].pnl = pnl],
         NEW s \in Symbols
  PROVE  /\ OwnOn(s)' \subseteq OwnOn(s)
         /\ IF broker[t].symbol = s
            THEN t \in OpenOn(s) /\ OpenOn(s)' = OpenOn(s) \ {t}
            ELSE OpenOn(s)' = OpenOn(s) /\ OwnOn(s)' = OwnOn(s)
<1>1. /\ ~Open(t)'
      /\ \A u \in Tickets : Kept(u)
      /\ \A u \in Tickets \ {t} : broker'[u] = broker[u]
  BY ClosingEffect
<1>2. \A u \in Tickets \ {t} : Open(u)' <=> Open(u)
  BY <1>1 DEF Open
<1>3. OwnOn(s)' \subseteq OwnOn(s)
  BY <1>1 DEF OwnOn, OwnOpen, Kept
<1>4. CASE broker[t].symbol = s
  BY <1>1, <1>2, <1>3, <1>4 DEF OpenOn, Kept
<1>5. CASE broker[t].symbol # s
  <2>1. OpenOn(s)' = OpenOn(s)
    BY <1>1, <1>2, <1>5 DEF OpenOn, Kept
  <2>2. \A u \in Tickets : u \in OwnOn(s)' <=> u \in OwnOn(s)
    BY <1>1, <1>2, <1>5 DEF OwnOn, OwnOpen, Kept
  <2>3. OwnOn(s)' = OwnOn(s)
    BY <2>2 DEF OwnOn, OwnOpen
  <2> QED BY <1>5, <2>1, <2>3
<1> QED BY <1>4, <1>5, <1>3

LEMMA PositionClosesPaid ==
  ASSUME Dedup, TypeOK', NEW t \in Tickets, NEW pnl \in PnLs,
         PositionCloses(t, pnl), NEW s \in Symbols
  PROVE  Paid(s)' /\ (broker[t].symbol # s => SecureKept(s))
<1>1. /\ ~Open(t)'
      /\ \A u \in Tickets : Kept(u)
      /\ \A u \in Tickets \ {t} : broker'[u] = broker[u]
  BY ClosingEffect, PnLsAssumption DEF Dedup, Results, PositionCloses
<1>2. /\ Open(t)
      /\ UNCHANGED <<registry, openScalps, unsynced, positions, pc, faults,
                     outsiders>>
  BY DEF PositionCloses, program, counters
<1>3. /\ OwnOn(s)' \subseteq OwnOn(s)
      /\ IF broker[t].symbol = s
         THEN t \in OpenOn(s) /\ OpenOn(s)' = OpenOn(s) \ {t}
         ELSE OpenOn(s)' = OpenOn(s) /\ OwnOn(s)' = OwnOn(s)
  BY ClosedOpenOn, PnLsAssumption DEF Dedup, Results, PositionCloses
<1>4. /\ positions \subseteq Tickets /\ openScalps \subseteq Tickets
      /\ unsynced \subseteq Tickets
      /\ \A u \in Tickets : broker'[u].symbol = broker[u].symbol
  BY <1>1 DEF Dedup, Results, TypeOK, Kept
<1>5. CASE broker[t].symbol # s
  <2>1. Blind(s)' => Blind(s)
    <3>1. Seen(s) => Seen(s)'
      BY <1>1, <1>2, <1>4, <1>5 DEF Seen, Held, SymbolsOf, Open
    <3> QED BY <1>2, <1>3, <3>1 DEF Blind
  <2>2. DropThreatens(s)' => DropThreatens(s)
    BY <1>1, <1>2, <1>4, <1>5 DEF DropThreatens, SymbolsOf, Open
  <2> QED BY <1>2, <1>3, <1>5, <2>1, <2>2, PaidKept, SecureStays DEF Dedup, Results
<1>6. CASE broker[t].symbol = s
  <2>1. CASE pc # "refresh"
    <3>1. Blind(s)' => Blind(s)
      <4>1. Seen(s) => Seen(s)'
        BY <1>1, <1>2, <1>4, <2>1 DEF Seen, Held, SymbolsOf
      <4> QED BY <1>2, <1>3, <4>1 DEF Blind
    <3> QED BY <1>2, <1>3, <1>6, <3>1, PaidClosed DEF Dedup, Results
  <2>2. CASE pc = "refresh" /\ Held(s)
    <3>1. ~Blind(s)'
      BY <1>2, <2>2 DEF Blind, Seen, Held, Managed
    <3> QED BY <1>2, <1>3, <1>6, <3>1, PaidClosed DEF Dedup, Results
  <2>3. CASE pc = "refresh" /\ ~Held(s)
    <3>1. ~DropThreatens(s)'
      BY <1>2, <2>3 DEF DropThreatens, Held, NotHeld
    <3> QED BY <1>2, <1>3, <1>6, <3>1, PaidClosed DEF Dedup, Results
  <2> QED BY <2>1, <2>2, <2>3
<1> QED BY <1>5, <1>6

LEMMA RestartPaid ==
  ASSUME Dedup, TypeOK', Restart, NEW s \in Symbols
  PROVE  Paid(s)' /\ (faults' = faults => SecureKept(s))
<1>1. PICK read \in SUBSET Tickets :
          /\ Reads(read)
          /\ RegistersMissing({t \in read : broker[t].owner # "scalper"},
                              "engine", [r \in Symbols |-> NotHeld])
  BY DEF Restart
<1>2. faults' \in {faults, faults + 1}
  BY <1>1, ReadsEffect DEF Dedup, Results
<1>3. registry'[s].source # "scalper"
  <2> DEFINE found == {t \in read : broker[t].owner # "scalper"}
             none == [r \in Symbols |-> NotHeld]
  <2>1. found \in SUBSET Tickets /\ none[s] = NotHeld
        /\ RegistersMissing(found, "engine", none)
    BY <1>1
  <2> HIDE DEF found, none
  <2>2. registry'[s] = none[s] \/ registry'[s].source = "engine"
    BY <2>1, RegistersMissingEffect
  <2> QED BY <2>1, <2>2 DEF NotHeld
<1>4. UNCHANGED broker /\ outsiders' = outsiders /\ pc' = "asleep"
  BY DEF Restart
<1>5. ~Blind(s)' /\ ~DropThreatens(s)'
  BY <1>3, <1>4 DEF Blind, DropThreatens, Unmanaged
<1>6. OpenOn(s)' = OpenOn(s) /\ OwnOn(s)' = OwnOn(s)
  BY <1>4, SameOpen
<1> QED BY <1>2, <1>4, <1>5, <1>6, PaidKept, SecureStays DEF Dedup, Results

LEMMA ReadPositionsPaid ==
  ASSUME Dedup, TypeOK', ReadPositions, NEW s \in Symbols
  PROVE  Paid(s)' /\ (faults' = faults => SecureKept(s))
<1>1. /\ faults' \in {faults, faults + 1}
      /\ faults' = faults => positions' = {t \in Tickets : Open(t)}
  BY ReadsEffect DEF Dedup, Results, ReadPositions
<1>2. /\ UNCHANGED <<broker, registry, openScalps, unsynced, outsiders>>
      /\ pc' \in Reconciling
  BY DEF ReadPositions, Reconciling
<1>3. OpenOn(s)' = OpenOn(s) /\ OwnOn(s)' = OwnOn(s)
  BY <1>2, SameOpen
<1>4. DropThreatens(s)' => DropThreatens(s)
  BY <1>2 DEF DropThreatens, SymbolsOf, Open, Reconciling
<1>5. CASE faults' = faults
  <2>1. ~Blind(s)'
    <3>1. OwnOn(s)' # {} => \E t \in positions' : broker'[t].symbol = s
      BY <1>1, <1>2, <1>3, <1>5 DEF OwnOn, OwnOpen
    <3> QED BY <1>2, <3>1 DEF Blind, Seen, SymbolsOf
  <2> QED BY <1>1, <1>2, <1>3, <1>4, <2>1, PaidKept, SecureStays DEF Dedup, Results
<1>6. CASE faults' = faults + 1
  <2>1. faults' # faults
    BY <1>6 DEF Dedup, Results, TypeOK
  <2> QED BY <1>2, <1>3, <1>4, <1>6, <2>1, PaidFault DEF Dedup, Results
<1> QED BY <1>1, <1>5, <1>6

LEMMA ReconcileStalePaid ==
  ASSUME Dedup, TypeOK', NEW r \in Symbols, ReconcileStale(r),
         NEW s \in Symbols
  PROVE  Paid(s)' /\ SecureKept(s)
<1>1. /\ pc \in Reconciling
      /\ UNCHANGED <<broker, openScalps, unsynced, positions, pc, faults,
                     outsiders>>
      /\ registry'[s] = registry[s] \/ registry'[s] = NotHeld
  BY DEF ReconcileStale, Drops, counters, Reconciling, Dedup, Results, TypeOK
<1>2. OpenOn(s)' = OpenOn(s) /\ OwnOn(s)' = OwnOn(s)
  BY <1>1, SameOpen
<1>3. Blind(s)' => Blind(s)
  <2>1. Seen(s) => Seen(s)'
    BY <1>1 DEF Seen, SymbolsOf, Reconciling, Managed
  <2> QED BY <1>1, <1>2, <2>1 DEF Blind
<1>4. DropThreatens(s)' => DropThreatens(s)
  BY <1>1 DEF DropThreatens, SymbolsOf, Open, NotHeld
<1> QED BY <1>1, <1>2, <1>3, <1>4, PaidKept, SecureStays DEF Dedup, Results

LEMMA ReverseReconcilePaid ==
  ASSUME Dedup, TypeOK', ReverseReconcile, NEW s \in Symbols
  PROVE  Paid(s)' /\ SecureKept(s)
<1>1. /\ pc \in Reconciling /\ pc' \in {"closing", "closing_only"}
      /\ UNCHANGED <<broker, openScalps, unsynced, faults, outsiders>>
      /\ RegistersMissing(positions, "mt5_sync", registry)
  BY DEF ReverseReconcile, RegistersUnknown, counters, Reconciling
<1>2. /\ s \in SymbolsOf(positions) => Held(s)'
      /\ registry'[s] = registry[s] \/ registry'[s].source = "mt5_sync"
  <2> DEFINE held == registry
  <2>1. RegistersMissing(positions, "mt5_sync", held)
    BY <1>1
  <2>2. positions \in SUBSET Tickets
    BY DEF Dedup, Results, TypeOK
  <2> HIDE DEF held
  <2>3. \/ /\ registry'[s] = held[s]
           /\ s \in SymbolsOf(positions) => held[s] # NotHeld
        \/ /\ registry'[s].ticket \in positions
           /\ registry'[s].source = "mt5_sync"
    BY <2>1, <2>2, RegistersMissingEffect
  <2> QED BY <2>3 DEF held, Held, NotHeld
<1>3. OpenOn(s)' = OpenOn(s) /\ OwnOn(s)' = OwnOn(s)
  BY <1>1, SameOpen
<1>4. Blind(s)' => Blind(s)
  <2>1. Seen(s) => Seen(s)'
    BY <1>1, <1>2 DEF Seen, Reconciling, Managed
  <2>2. pc \notin Unmanaged
    BY <1>1 DEF Reconciling, Unmanaged
  <2> QED BY <1>3, <2>1, <2>2 DEF Blind
<1>5. DropThreatens(s)' => DropThreatens(s)
  <2>1. registry'[s].source = "scalper" => registry'[s] = registry[s]
    BY <1>2
  <2> QED BY <1>1, <2>1 DEF DropThreatens, SymbolsOf, Open
<1> QED BY <1>1, <1>3, <1>4, <1>5, PaidKept, SecureStays DEF Dedup, Results

LEMMA CloseTradePaid ==
  ASSUME Dedup, TypeOK', NEW t \in Tickets, NEW pnl \in PnLs,
         CloseTrade(t, pnl), NEW s \in Symbols
  PROVE  Paid(s)' /\ (broker[t].symbol # s => SecureKept(s))
<1>1. /\ ~Open(t)'
      /\ \A u \in Tickets : Kept(u)
      /\ \A u \in Tickets \ {t} : broker'[u] = broker[u]
  BY ClosingEffect, PnLsAssumption DEF Dedup, Results, CloseTrade
<1>2. /\ Open(t) /\ Drops(broker[t].symbol)
      /\ UNCHANGED <<openScalps, unsynced, positions, pc, faults, outsiders>>
      /\ pc \in {"closing", "closing_only"}
  BY DEF CloseTrade, counters
<1>3. /\ OwnOn(s)' \subseteq OwnOn(s)
      /\ IF broker[t].symbol = s
         THEN t \in OpenOn(s) /\ OpenOn(s)' = OpenOn(s) \ {t}
         ELSE OpenOn(s)' = OpenOn(s) /\ OwnOn(s)' = OwnOn(s)
  BY ClosedOpenOn, PnLsAssumption DEF Dedup, Results, CloseTrade
<1>4. /\ openScalps \subseteq Tickets /\ unsynced \subseteq Tickets
      /\ \A u \in Tickets : broker'[u].symbol = broker[u].symbol
  BY <1>1 DEF Dedup, Results, TypeOK, Kept
<1>5. CASE broker[t].symbol # s
  <2>1. registry'[s] = registry[s]
    BY <1>2, <1>5 DEF Drops, Dedup, Results, TypeOK
  <2>2. Blind(s)' => Blind(s)
    BY <1>2, <1>3, <2>1 DEF Blind, Seen, Held, Reconciling
  <2>3. DropThreatens(s)' => DropThreatens(s)
    BY <1>1, <1>2, <1>4, <1>5, <2>1 DEF DropThreatens, SymbolsOf, Open
  <2> QED BY <1>2, <1>3, <1>5, <2>2, <2>3, PaidKept, SecureStays DEF Dedup, Results
<1>6. CASE broker[t].symbol = s
  <2>1. registry'[s] = NotHeld
    BY <1>2, <1>6 DEF Drops, Dedup, Results, TypeOK
  <2>2. ~DropThreatens(s)'
    BY <1>2, <2>1 DEF DropThreatens, NotHeld
  <2> QED BY <1>2, <1>3, <1>6, <2>2, PaidClosed DEF Dedup, Results
<1> QED BY <1>5, <1>6

LEMMA ScalpOpensPaid ==
  ASSUME Dedup, TypeOK', NEW t \in Tickets, NEW r \in Symbols,
         ScalpOpens(t, r), NEW s \in Symbols
  PROVE  Paid(s)' /\ (IF s = r THEN ~Secure(s) /\ Secure(s)' ELSE SecureKept(s))
<1>1. /\ ~Used(t) /\ ~Open(t) /\ Open(t)' /\ broker'[t].symbol = r
      /\ broker'[t].owner = "scalper"
      /\ \A u \in Tickets \ {t} : broker'[u] = broker[u]
      /\ \A u \in openScalps \cup unsynced \cup positions :
             u # t /\ broker'[u] = broker[u]
  BY FillsEffect, OpeningFiled DEF Dedup, Results, ScalpOpens
<1>2. /\ pc = "scalp" /\ pc' = "refresh" /\ ~Held(r)
      /\ openScalps' = openScalps \cup {t}
      /\ UNCHANGED <<registry, unsynced, positions, faults, outsiders>>
  BY DEF ScalpOpens, Blocked, counters
<1>3. CASE s = r
  <2>1. OpenOn(s)' \subseteq OpenOn(s) \cup {t}
    BY <1>1 DEF OpenOn, Open
  <2>2. OwnOn(s) = {} \/ Blind(s)
    BY <1>2, <1>3
    DEF Blind, Seen, Held, Unmanaged, Managed, Reconciling
  <2>3. ~Blind(s)'
    BY <1>1, <1>2, <1>3 DEF Blind, Seen
  <2>4. ~DropThreatens(s)'
    BY <1>2, <1>3 DEF DropThreatens, Held, NotHeld
  <2>5. ~Secure(s) /\ Secure(s)'
    <3>1. t \in OwnOn(s)'
      BY <1>1, <1>3 DEF OwnOn, OwnOpen
    <3> QED BY <2>2, <2>3, <2>4, <3>1 DEF Secure
  <2> QED BY <1>2, <1>3, <2>1, <2>2, <2>3, <2>4, <2>5, PaidOpened
      DEF Dedup, Results
<1>4. CASE s # r
  <2>1. /\ OpenOn(s)' = OpenOn(s)
        /\ OwnOn(s)' = OwnOn(s)
    <3>1. \A u \in Tickets : /\ Open(u)' /\ broker'[u].symbol = s
                                    <=> Open(u) /\ broker[u].symbol = s
                             /\ u # t => broker'[u].owner = broker[u].owner
      BY <1>1, <1>4 DEF Open
    <3>2. ~(Open(t)' /\ broker'[t].symbol = s)
      BY <1>1, <1>4
    <3>3. OpenOn(s)' = OpenOn(s)
      BY <3>1 DEF OpenOn
    <3>4. \A u \in Tickets : u \in OwnOn(s)' <=> u \in OwnOn(s)
      BY <3>1, <3>2, <1>1 DEF OwnOn, OwnOpen
    <3>5. OwnOn(s)' = OwnOn(s)
      BY <3>4 DEF OwnOn, OwnOpen
    <3> QED BY <3>3, <3>5
  <2>2. Blind(s)' => Blind(s)
    BY <1>2, <2>1 DEF Blind, Seen, Held, Unmanaged, Managed, Reconciling
  <2>3. DropThreatens(s)' => DropThreatens(s)
    BY <1>1, <1>2, <1>4 DEF DropThreatens, SymbolsOf, Open
  <2>4. SecureKept(s)
    BY <2>1, <2>2, <2>3, SecureStays
  <2>5. UNCHANGED <<faults, outsiders>>
    BY <1>2
  <2>6. Paid(s)'
    BY <2>1, <2>2, <2>3, <2>5, PaidKept DEF Dedup, Results
  <2> QED BY <1>4, <2>4, <2>6
<1> QED BY <1>3, <1>4

LEMMA MainOpensPaid ==
  ASSUME Dedup, TypeOK', NEW t \in Tickets, NEW r \in Symbols,
         MainOpens(t, r), NEW s \in Symbols
  PROVE  Paid(s)' /\ (IF s = r THEN ~Secure(s) /\ Secure(s)' ELSE SecureKept(s))
<1>1. /\ ~Used(t) /\ ~Open(t) /\ Open(t)' /\ broker'[t].symbol = r
      /\ broker'[t].owner = "engine"
      /\ \A u \in Tickets \ {t} : broker'[u] = broker[u]
      /\ \A u \in openScalps \cup unsynced \cup positions :
             u # t /\ broker'[u] = broker[u]
  BY FillsEffect, OpeningFiled DEF Dedup, Results, MainOpens
<1>2. /\ pc = "main" /\ ~Held(r) /\ r \notin SymbolsOf(openScalps)
      /\ registry' = [registry EXCEPT ![r] =
                          [ticket |-> t, source |-> "engine"]]
      /\ UNCHANGED <<pc, openScalps, unsynced, positions, faults, outsiders>>
  BY DEF MainOpens, SignalAllowed, RegistersTrade, counters
<1>3. CASE s = r
  <2>1. OpenOn(s)' \subseteq OpenOn(s) \cup {t}
    BY <1>1 DEF OpenOn, Open
  <2>2. OwnOn(s) = {} \/ Blind(s)
    BY <1>2, <1>3
    DEF Blind, Seen, Held, Unmanaged, Managed, Reconciling
  <2>3. registry'[s] = [ticket |-> t, source |-> "engine"]
    BY <1>2, <1>3 DEF Dedup, Results, TypeOK
  <2>4. registry'[s].source = "engine" /\ registry'[s] # NotHeld
    BY <2>3 DEF NotHeld
  <2>5. ~Blind(s)'
    BY <1>2, <2>4 DEF Blind, Seen, Held, Managed
  <2>6. ~DropThreatens(s)'
    BY <1>2, <2>4 DEF DropThreatens
  <2>7. ~Secure(s) /\ Secure(s)'
    <3>1. t \in OwnOn(s)'
      BY <1>1, <1>3 DEF OwnOn, OwnOpen
    <3> QED BY <2>2, <2>5, <2>6, <3>1 DEF Secure
  <2> QED BY <1>2, <1>3, <2>1, <2>2, <2>5, <2>6, <2>7, PaidOpened
      DEF Dedup, Results
<1>4. CASE s # r
  <2>1. /\ OpenOn(s)' = OpenOn(s)
        /\ OwnOn(s)' = OwnOn(s)
    <3>1. \A u \in Tickets : /\ Open(u)' /\ broker'[u].symbol = s
                                    <=> Open(u) /\ broker[u].symbol = s
                             /\ u # t => broker'[u].owner = broker[u].owner
      BY <1>1, <1>4 DEF Open
    <3>2. ~(Open(t)' /\ broker'[t].symbol = s)
      BY <1>1, <1>4
    <3>3. OpenOn(s)' = OpenOn(s)
      BY <3>1 DEF OpenOn
    <3>4. \A u \in Tickets : u \in OwnOn(s)' <=> u \in OwnOn(s)
      BY <3>1, <3>2, <1>1 DEF OwnOn, OwnOpen
    <3>5. OwnOn(s)' = OwnOn(s)
      BY <3>4 DEF OwnOn, OwnOpen
    <3> QED BY <3>3, <3>5
  <2>2. registry'[s] = registry[s]
    BY <1>2, <1>4 DEF Dedup, Results, TypeOK
  <2>3. SymbolsOf(openScalps)' = SymbolsOf(openScalps)
    BY <1>1, <1>2 DEF SymbolsOf
  <2>4. Blind(s)' => Blind(s)
    BY <1>2, <2>1, <2>2, <2>3 DEF Blind, Seen, Held, Reconciling
  <2>5. DropThreatens(s)' => DropThreatens(s)
    BY <1>1, <1>2, <2>2 DEF DropThreatens, SymbolsOf, Open
  <2>6. SecureKept(s)
    BY <2>1, <2>4, <2>5, SecureStays
  <2>7. UNCHANGED <<faults, outsiders>>
    BY <1>2
  <2>8. Paid(s)'
    BY <2>1, <2>4, <2>5, <2>7, PaidKept DEF Dedup, Results
  <2> QED BY <1>4, <2>6, <2>8
<1> QED BY <1>3, <1>4

LEMMA UnansweredPaid ==
  ASSUME Dedup, TypeOK', NEW t \in Tickets, NEW r \in Symbols,
         Unanswered(t, r), NEW s \in Symbols
  PROVE  Paid(s)'
<1>1. PICK owner \in {"engine", "scalper"} : Fills(t, r, owner)
  BY UnansweredEffect
<1>2. /\ UNCHANGED <<registry, openScalps, unsynced, positions, pc,
                     outsiders, recorded>>
      /\ faults' = faults + 1
      /\ ~Held(r)
      /\ pc = "scalp" \/ (pc = "main" /\ r \notin SymbolsOf(openScalps))
  BY UnansweredEffect
<1>3. /\ ~Used(t) /\ ~Open(t) /\ Open(t)' /\ broker'[t].symbol = r
      /\ \A u \in Tickets \ {t} : broker'[u] = broker[u]
      /\ \A u \in openScalps \cup unsynced \cup positions :
             u # t /\ broker'[u] = broker[u]
  BY <1>1, <1>2, FillsEffect, OpeningFiled DEF Dedup, Results
<1>4. CASE s = r
  <2>1. OpenOn(s)' \subseteq OpenOn(s) \cup {t}
    BY <1>3 DEF OpenOn, Open
  <2>2. OwnOn(s) = {} \/ Blind(s)
    BY <1>2, <1>4
    DEF Blind, Seen, Held, Unmanaged, Managed, Reconciling
  <2>3. ~DropThreatens(s)'
    BY <1>2, <1>4 DEF DropThreatens, Held, NotHeld
  <2> QED BY <1>2, <2>1, <2>2, <2>3, PaidUnanswered DEF Dedup, Results
<1>5. CASE s # r
  <2>1. \A u \in Tickets : /\ Open(u)' /\ broker'[u].symbol = s
                                  <=> Open(u) /\ broker[u].symbol = s
                           /\ u # t => broker'[u].owner = broker[u].owner
    BY <1>3, <1>5 DEF Open
  <2>2. OpenOn(s)' = OpenOn(s)
    BY <2>1 DEF OpenOn
  <2>3. OwnOn(s)' = OwnOn(s)
    <3>1. ~(Open(t)' /\ broker'[t].symbol = s)
      BY <1>3, <1>5
    <3>2. \A u \in Tickets : u \in OwnOn(s)' <=> u \in OwnOn(s)
      BY <2>1, <3>1, <1>3 DEF OwnOn, OwnOpen
    <3> QED BY <3>2 DEF OwnOn, OwnOpen
  <2>4. SymbolsOf(openScalps)' = SymbolsOf(openScalps)
    BY <1>2, <1>3 DEF SymbolsOf
  <2>5. Blind(s)' => Blind(s)
    BY <1>2, <2>3, <2>4 DEF Blind, Seen, Held, Reconciling
  <2>6. DropThreatens(s)' => DropThreatens(s)
    BY <1>2, <1>3 DEF DropThreatens, SymbolsOf, Open
  <2>7. OpenOn(s)' \subseteq OpenOn(s)
    BY <2>2
  <2> QED BY <1>2, <2>5, <2>6, <2>7, PaidKept DEF Dedup, Results
<1> QED BY <1>4, <1>5

LEMMA RefreshScalpsPaid ==
  ASSUME Dedup, TypeOK', RefreshScalps, NEW s \in Symbols
  PROVE  Paid(s)' /\ (faults' = faults => SecureKept(s))
<1>1. PICK read \in SUBSET Tickets :
          /\ Reads(read)
          /\ openScalps' = openScalps \cap read
          /\ unsynced' = unsynced \cup (openScalps \ read)
  BY DEF RefreshScalps
<1>2. /\ faults' \in {faults, faults + 1}
      /\ \A t \in read : t \in Tickets /\ Open(t)
      /\ faults' = faults => read = {t \in Tickets : Open(t)}
  BY <1>1, ReadsEffect DEF Dedup, Results
<1>3. /\ UNCHANGED <<broker, registry, outsiders>>
      /\ pc = "refresh" /\ pc' = "sync"
  BY DEF RefreshScalps
<1>4. /\ OpenOn(s)' = OpenOn(s) /\ OwnOn(s)' = OwnOn(s)
      /\ openScalps \subseteq Tickets
  BY <1>3, SameOpen DEF Dedup, Results, TypeOK
<1>5. CASE faults' = faults
  <2>1. Blind(s)' => Blind(s)
    <3>1. Seen(s) => Seen(s)'
      BY <1>1, <1>2, <1>3, <1>4, <1>5
      DEF Seen, Held, SymbolsOf, Managed, Reconciling
    <3> QED BY <1>3, <1>4, <3>1 DEF Blind, Unmanaged
  <2>2. DropThreatens(s)' => DropThreatens(s)
    BY <1>1, <1>2, <1>3, <1>4, <1>5 DEF DropThreatens, SymbolsOf, Open
  <2> QED BY <1>2, <1>3, <1>4, <2>1, <2>2, PaidKept, SecureStays DEF Dedup, Results
<1>6. CASE faults' = faults + 1
  <2>0. faults' # faults
    BY <1>6 DEF Dedup, Results, TypeOK
  <2>1. CASE Held(s)
    <3>1. ~Blind(s)'
      BY <1>3, <2>1 DEF Blind, Seen, Held, Managed
    <3> QED BY <1>3, <1>4, <1>6, <2>0, <3>1, PaidFault DEF Dedup, Results
  <2>2. CASE ~Held(s)
    <3>1. ~DropThreatens(s)'
      <4>1. {t \in openScalps' : ~Open(t)'} = {}
        BY <1>1, <1>2, <1>3 DEF Open
      <4>2. registry'[s].source # "scalper"
        BY <1>3, <2>2 DEF Held, NotHeld
      <4> QED BY <4>1, <4>2 DEF DropThreatens, SymbolsOf
    <3> QED BY <1>3, <1>4, <1>6, <2>0, <3>1, PaidFault DEF Dedup, Results
  <2> QED BY <2>1, <2>2
<1> QED BY <1>2, <1>5, <1>6

LEMMA SyncScalpPaid ==
  ASSUME Dedup, TypeOK', NEW t \in Tickets, SyncScalp(t), NEW s \in Symbols
  PROVE  Paid(s)' /\ SecureKept(s)
<1>1. /\ t \in unsynced /\ pc = "sync"
      /\ UNCHANGED <<broker, openScalps, positions, pc, faults, outsiders>>
      /\ unsynced' = unsynced \ {t}
  BY DEF SyncScalp, MarksSynced, counters
<1>2. OpenOn(s)' = OpenOn(s) /\ OwnOn(s)' = OwnOn(s)
  BY <1>1, SameOpen
<1>3. \/ registry'[s] = registry[s]
      \/ /\ registry'[s] = NotHeld
         /\ s = broker[t].symbol /\ registry[s].source = "scalper"
  BY DEF SyncScalp, Dedup, Results, TypeOK
<1>4. CASE registry'[s] = registry[s]
  <2>1. Blind(s)' => Blind(s)
    BY <1>1, <1>2, <1>4 DEF Blind, Seen, Held, SymbolsOf, Reconciling
  <2>2. DropThreatens(s)' => DropThreatens(s)
    BY <1>1, <1>4 DEF DropThreatens, SymbolsOf, Open
  <2> QED BY <1>1, <1>2, <2>1, <2>2, PaidKept, SecureStays DEF Dedup, Results
<1>5. CASE /\ registry'[s] = NotHeld
           /\ s = broker[t].symbol /\ registry[s].source = "scalper"
  <2>1. DropThreatens(s)
    BY <1>1, <1>5 DEF DropThreatens, SymbolsOf
  <2>2. ~Blind(s)
    <3>1. Held(s)
      BY <1>5 DEF Held, NotHeld
    <3> QED BY <1>1, <3>1 DEF Blind, Seen, Managed
  <2>3. ~(Blind(s)' /\ DropThreatens(s)')
    <3>1. DropThreatens(s)' => s \in SymbolsOf(openScalps)
      BY <1>1, <1>5 DEF DropThreatens, NotHeld, SymbolsOf
    <3>2. s \in SymbolsOf(openScalps) => ~Blind(s)'
      BY <1>1 DEF Blind, Seen, SymbolsOf
    <3> QED BY <3>1, <3>2
  <2>4. SecureKept(s)
    BY <2>1 DEF SecureKept, Secure
  <2> QED BY <1>1, <1>2, <2>1, <2>2, <2>3, <2>4, PaidDropped
      DEF Dedup, Results
<1> QED BY <1>3, <1>4, <1>5

LEMMA RegisterScalpsEffect ==
  ASSUME TypeOK, RegisterScalps, NEW s \in Symbols
  PROVE  /\ s \in SymbolsOf(openScalps) => Held(s)'
         /\ Held(s) => Held(s)'
         /\ \/ registry'[s] = registry[s]
            \/ s \in SymbolsOf(openScalps) /\ ~Held(s)
<1> DEFINE held == registry
<1>1. RegistersMissing(openScalps, "scalper", held)
  BY DEF RegisterScalps, RegistersOpenScalps
<1>2. openScalps \in SUBSET Tickets
  BY DEF TypeOK
<1> HIDE DEF held
<1>3. \/ /\ registry'[s] = held[s]
         /\ s \in SymbolsOf(openScalps) => held[s] # NotHeld
      \/ /\ registry'[s].ticket \in openScalps
         /\ broker[registry'[s].ticket].symbol = s
         /\ registry'[s].source = "scalper"
         /\ held[s] = NotHeld
  BY <1>1, <1>2, RegistersMissingEffect
<1> QED BY <1>3 DEF held, Held, NotHeld, SymbolsOf

LEMMA RegisterScalpsPaid ==
  ASSUME Dedup, TypeOK', RegisterScalps, NEW s \in Symbols
  PROVE  Paid(s)' /\ SecureKept(s)
<1>1. /\ pc = "sync" /\ pc' = "main" /\ unsynced' = {}
      /\ UNCHANGED <<broker, openScalps, faults, outsiders>>
  BY DEF RegisterScalps, counters
<1>2. OpenOn(s)' = OpenOn(s) /\ OwnOn(s)' = OwnOn(s)
  BY <1>1, SameOpen
<1>3. Blind(s)' => Blind(s)
  <2>1. Held(s) => Held(s)'
    BY RegisterScalpsEffect DEF Dedup, Results
  <2>2. Seen(s) => Seen(s)'
    BY <1>1, <2>1 DEF Seen, SymbolsOf, Managed, Reconciling
  <2> QED BY <1>1, <1>2, <2>2 DEF Blind, Unmanaged
<1>4. DropThreatens(s)' => DropThreatens(s)
  BY <1>1 DEF DropThreatens, SymbolsOf, Open
<1> QED BY <1>1, <1>2, <1>3, <1>4, PaidKept, SecureStays DEF Dedup, Results

LEMMA IdleActionsPaid ==
  ASSUME Dedup, TypeOK', NEW s \in Symbols,
         \/ Tick \/ MidnightPasses \/ DailyStatusResets
         \/ LeavesCycle \/ DailyGate \/ BreakerGate \/ ManagingEnds \/ NoScalp
         \/ UNCHANGED vars
  PROVE  Paid(s)' /\ SecureKept(s)
<1> USE IdlePaid DEF counters, program, Unmanaged
<1>1. CASE Tick \/ MidnightPasses \/ DailyStatusResets
  BY <1>1 DEF Tick, MidnightPasses, DailyStatusResets
<1>2. CASE LeavesCycle
  BY <1>2 DEF LeavesCycle
<1>3. CASE ManagingEnds
  BY <1>3 DEF ManagingEnds
<1>4. CASE NoScalp
  BY <1>4 DEF NoScalp
<1>5. CASE DailyGate
  <2>1. pc' \in Unmanaged
    BY <1>5 DEF DailyGate
  <2> QED BY <1>5, <2>1 DEF DailyGate
<1>6. CASE BreakerGate
  BY <1>6 DEF BreakerGate
<1>7. CASE UNCHANGED vars
  BY <1>7 DEF vars
<1> QED BY <1>1, <1>2, <1>3, <1>4, <1>5, <1>6, <1>7

LEMMA StepPaid ==
  ASSUME Dedup, TypeOK', [Next]_vars, NEW s \in Symbols PROVE Paid(s)'
<1>1. CASE World
  BY <1>1, OutsiderOpensPaid, PositionClosesPaid, IdleActionsPaid, RestartPaid
  DEF World
<1>2. CASE Cycle
  BY <1>2, IdleActionsPaid, ReadPositionsPaid, ReconcileStalePaid,
     ReverseReconcilePaid, CloseTradePaid, ScalpOpensPaid, RefreshScalpsPaid,
     SyncScalpPaid, RegisterScalpsPaid, MainOpensPaid, UnansweredPaid
  DEF Cycle, Unanswered
<1>3. CASE UNCHANGED vars
  BY <1>3, IdleActionsPaid
<1> QED BY <1>1, <1>2, <1>3 DEF Next

----------------------------------------------------------------------------
(* The rest of the invariant.                                              *)

(* Only an order sent past the engine gives outsiders a position.          *)
LEMMA OutsidersCounted ==
  ASSUME Dedup, TypeOK', [Next]_vars
  PROVE  Cardinality(Outsiders)' <= outsiders'
<1>1. ASSUME NEW t \in Tickets, NEW s \in Symbols, OutsiderOpens(t, s)
      PROVE  Cardinality(Outsiders)' <= outsiders'
  <2> DEFINE c == Cardinality(Outsiders)
             cc == Cardinality(Outsiders')
             o == outsiders
  <2>1. Outsiders' \subseteq Outsiders \cup {t}
    <3>1. \A u \in Tickets \ {t} : broker'[u] = broker[u]
      BY <1>1, FillsEffect DEF Dedup, Results, OutsiderOpens
    <3> QED BY <3>1 DEF Outsiders
  <2>2. Outsiders \in SUBSET Tickets /\ Outsiders \cup {t} \in SUBSET Tickets
        /\ Outsiders' \in SUBSET Tickets
    BY DEF Outsiders
  <2>3. c \in Nat /\ IsFiniteSet(Outsiders)
    BY <2>2, TicketsFinite
  <2>4. cc \in Nat
    BY <2>2, TicketsFinite
  <2>5. Cardinality(Outsiders \cup {t}) \in {c, c + 1}
    BY <2>3, FS_AddElement
  <2>6. cc <= Cardinality(Outsiders \cup {t})
    BY <2>1, <2>2, TicketsFinite, FS_Subset
  <2>7. c <= o /\ o \in Nat /\ outsiders' = o + 1
    BY <1>1 DEF Dedup, Results, TypeOK, OutsiderOpens
  <2>8. cc <= o + 1
    <3> HIDE DEF c, cc, o
    <3> QED BY <2>3, <2>4, <2>5, <2>6, <2>7
  <2> QED BY <2>7, <2>8
<1>2. ASSUME NEW t \in Tickets, NEW s \in Symbols,
             NEW owner \in {"engine", "scalper"}, Fills(t, s, owner),
             outsiders' = outsiders
      PROVE  Cardinality(Outsiders)' <= outsiders'
  <2>1. /\ ~Used(t) /\ broker'[t].owner = owner
        /\ \A u \in Tickets \ {t} : broker'[u] = broker[u]
    BY <1>2, FillsEffect DEF Dedup, Results
  <2>2. broker[t].owner # "outsider"
    BY <1>2 DEF Fills, NoPosition
  <2>3. Outsiders' = Outsiders
    BY <2>1, <2>2 DEF Outsiders
  <2> QED BY <1>2, <2>3 DEF Dedup
<1>3. ASSUME NEW t \in Tickets, NEW pnl \in PnLs, Open(t),
             broker' = [broker EXCEPT ![t].status = "closed", ![t].pnl = pnl],
             outsiders' = outsiders
      PROVE  Cardinality(Outsiders)' <= outsiders'
  <2>1. \A u \in Tickets : Kept(u)
    BY <1>3, ClosingEffect, PnLsAssumption DEF Dedup, Results
  <2>2. Outsiders' = Outsiders
    BY <2>1 DEF Outsiders, Kept
  <2> QED BY <1>3, <2>2 DEF Dedup
<1>4. ASSUME UNCHANGED <<broker, outsiders>>
      PROVE  Cardinality(Outsiders)' <= outsiders'
  <2>1. Outsiders' = Outsiders
    BY <1>4 DEF Outsiders
  <2> QED BY <1>4, <2>1 DEF Dedup
<1>5. CASE World
  <2>1. CASE \/ Tick \/ MidnightPasses \/ DailyStatusResets \/ Restart
    BY <1>4, <2>1
    DEF Tick, MidnightPasses, DailyStatusResets, Restart, counters
  <2>2. ASSUME NEW t \in Tickets, NEW pnl \in PnLs, PositionCloses(t, pnl)
        PROVE  Cardinality(Outsiders)' <= outsiders'
    BY <1>3, <2>2 DEF PositionCloses, counters
  <2> QED BY <1>1, <1>5, <2>1, <2>2 DEF World
<1>6. CASE Cycle
  <2>1. CASE \/ DailyGate \/ BreakerGate \/ ReadPositions
             \/ \E s \in Symbols : ReconcileStale(s)
             \/ ReverseReconcile \/ ManagingEnds \/ NoScalp \/ RefreshScalps
             \/ \E t \in Tickets : SyncScalp(t)
             \/ RegisterScalps \/ LeavesCycle
    BY <1>4, <2>1
    DEF DailyGate, BreakerGate, ReadPositions, ReconcileStale,
        ReverseReconcile, ManagingEnds, NoScalp, RefreshScalps, SyncScalp,
        RegisterScalps, LeavesCycle, counters
  <2>2. ASSUME NEW t \in Tickets, NEW pnl \in PnLs, CloseTrade(t, pnl)
        PROVE  Cardinality(Outsiders)' <= outsiders'
    BY <1>3, <2>2 DEF CloseTrade, counters
  <2>3. ASSUME NEW t \in Tickets, NEW s \in Symbols, ScalpOpens(t, s)
        PROVE  Cardinality(Outsiders)' <= outsiders'
    BY <1>2, <2>3 DEF ScalpOpens, counters
  <2>4. ASSUME NEW t \in Tickets, NEW s \in Symbols, MainOpens(t, s)
        PROVE  Cardinality(Outsiders)' <= outsiders'
    BY <1>2, <2>4 DEF MainOpens, counters
  <2>5. ASSUME NEW t \in Tickets, NEW s \in Symbols, Unanswered(t, s)
        PROVE  Cardinality(Outsiders)' <= outsiders'
    BY <1>2, <2>5, UnansweredEffect
  <2> QED BY <1>6, <2>1, <2>2, <2>3, <2>4, <2>5 DEF Cycle, Unanswered
<1>7. CASE UNCHANGED vars
  BY <1>4, <1>7 DEF vars, counters
<1> QED BY <1>5, <1>6, <1>7 DEF Next

(* The main engine starts with every scalp registered, and drops nothing.  *)
LEMMA ScalpsRegistered ==
  ASSUME Dedup, TypeOK', [Next]_vars, pc' = "main"
  PROVE  SymbolsOf(openScalps)' \subseteq Registered'
<1>1. ASSUME RegisterScalps
      PROVE  SymbolsOf(openScalps)' \subseteq Registered'
  <2>1. SymbolsOf(openScalps)' = SymbolsOf(openScalps)
    BY <1>1 DEF RegisterScalps, SymbolsOf
  <2>2. SymbolsOf(openScalps) \subseteq Symbols
    BY DEF Dedup, Results, Filed, ListsFiled, PositionFiled, TypeOK, SymbolsOf
  <2> QED BY <1>1, <2>1, <2>2, RegisterScalpsEffect
      DEF Dedup, Results, Registered
<1>2. ASSUME NEW t \in Tickets, NEW s \in Symbols, MainOpens(t, s)
      PROVE  SymbolsOf(openScalps)' \subseteq Registered'
  <2>1. SymbolsOf(openScalps)' = SymbolsOf(openScalps)
    <3>1. openScalps' = openScalps
          /\ \A u \in openScalps : broker'[u] = broker[u]
      BY <1>2, OpeningFiled DEF MainOpens, Dedup, Results
    <3> QED BY <3>1 DEF SymbolsOf
  <2>2. pc = "main" /\ Registered \subseteq Registered'
    BY <1>2 DEF MainOpens, RegistersTrade, Registered, Held, NotHeld,
                Dedup, Results, TypeOK
  <2> QED BY <2>1, <2>2 DEF Dedup
<1>3. ASSUME pc = "main", UNCHANGED <<registry, openScalps>>,
             \A t \in Tickets : broker'[t].symbol = broker[t].symbol
                                \/ t \notin openScalps
      PROVE  SymbolsOf(openScalps)' \subseteq Registered'
  <2>1. SymbolsOf(openScalps)' = SymbolsOf(openScalps)
    BY <1>3 DEF SymbolsOf, Dedup, Results, TypeOK
  <2> QED BY <1>3, <2>1 DEF Dedup, Registered, Held
<1>4. CASE World
  <2>1. CASE Tick \/ MidnightPasses \/ DailyStatusResets
    BY <1>3, <2>1 DEF Tick, MidnightPasses, DailyStatusResets
  <2>2. CASE Restart
    BY <2>2 DEF Restart
  <2>3. ASSUME NEW t \in Tickets, NEW pnl \in PnLs, PositionCloses(t, pnl)
        PROVE  SymbolsOf(openScalps)' \subseteq Registered'
    <3>1. \A u \in Tickets : Kept(u)
      BY <2>3, ClosingEffect, PnLsAssumption
      DEF Dedup, Results, PositionCloses
    <3> QED BY <1>3, <2>3, <3>1 DEF PositionCloses, program, Kept
  <2>4. ASSUME NEW t \in Tickets, NEW s \in Symbols, OutsiderOpens(t, s)
        PROVE  SymbolsOf(openScalps)' \subseteq Registered'
    <3>1. \A u \in openScalps : broker'[u] = broker[u]
      BY <2>4, OpeningFiled DEF OutsiderOpens, Dedup, Results
    <3> QED BY <1>3, <2>4, <3>1 DEF OutsiderOpens, program
  <2> QED BY <1>4, <2>1, <2>2, <2>3, <2>4 DEF World
<1>5. CASE Cycle
  <2>1. \/ RegisterScalps
        \/ \E t \in Tickets, s \in Symbols : MainOpens(t, s)
        \/ \E t \in Tickets, s \in Symbols : MainUnanswered(t, s)
    BY <1>5
    DEF Cycle, DailyGate, BreakerGate, ReadPositions, ReconcileStale,
        ReverseReconcile, CloseTrade, ManagingEnds, ScalpOpens, NoScalp,
        ScalpUnanswered, RefreshScalps, SyncScalp, LeavesCycle
  <2>2. ASSUME NEW t \in Tickets, NEW s \in Symbols, MainUnanswered(t, s)
        PROVE  SymbolsOf(openScalps)' \subseteq Registered'
    <3>1. /\ pc = "main" /\ UNCHANGED <<registry, openScalps, recorded>>
          /\ Fills(t, s, "engine")
      BY <2>2 DEF MainUnanswered, FillsUnanswered, program
    <3>2. \A u \in openScalps : broker'[u] = broker[u]
      BY <3>1, OpeningFiled DEF Dedup, Results
    <3> QED BY <1>3, <3>1, <3>2
  <2> QED BY <1>1, <1>2, <2>1, <2>2
<1>6. CASE UNCHANGED vars
  BY <1>3, <1>6 DEF vars, program
<1> QED BY <1>4, <1>5, <1>6 DEF Next

----------------------------------------------------------------------------
(* The invariant, and what it says.                                        *)

LEMMA InitDedup == ASSUME Init PROVE Dedup
<1>1. Results
  BY InitResults
<1>2. Outsiders = {} /\ outsiders = 0 /\ faults = 0 /\ pc = "asleep"
  BY DEF Init, Outsiders, NoPosition
<1>3. Cardinality(Outsiders) <= outsiders
  BY <1>2, FS_EmptySet
<1>4. ASSUME NEW s \in Symbols PROVE Paid(s)
  <2>1. OpenOn(s) = {}
    BY DEF Init, OpenOn, Open, NoPosition
  <2>2. Cardinality(OpenOn(s)) = 0
    BY <2>1, FS_EmptySet
  <2>3. ~Blind(s)
    BY <1>2 DEF Blind, Unmanaged
  <2>4. ~DropThreatens(s)
    BY DEF Init, DropThreatens, NotHeld
  <2> QED BY <1>2, <2>2, <2>3, <2>4 DEF Paid, One
<1> QED BY <1>1, <1>2, <1>3, <1>4 DEF Dedup

LEMMA StepDedup == ASSUME Dedup, [Next]_vars PROVE Dedup'
<1>1. Results'
  BY StepResults DEF Dedup
<1>2. TypeOK'
  BY <1>1 DEF Results
<1>3. Cardinality(Outsiders)' <= outsiders'
  BY <1>2, OutsidersCounted
<1>4. pc' = "main" => SymbolsOf(openScalps)' \subseteq Registered'
  BY <1>2, ScalpsRegistered
<1>5. \A s \in Symbols : Paid(s)'
  BY <1>2, StepPaid
<1> QED BY <1>1, <1>3, <1>4, <1>5 DEF Dedup

LEMMA DedupInvariant == Spec => []Dedup
  BY InitDedup, StepDedup, PTL DEF Spec

(* Engine and scalper hold at most one position of a symbol between them,  *)
(* one more for each fault and for each order sent past the engine         *)
(* (the cross-dedup of run_cycle and _manage_existing_positions), whatever *)
(* the tickets and symbols, and whatever crashes or is abandoned.          *)
THEOREM OnePositionPerSymbol == Spec => []NoDoubleUp
<1>1. ASSUME Dedup PROVE NoDoubleUp
  <2>1. ASSUME NEW s \in Symbols
        PROVE  Cardinality(OwnOn(s)) <= 1 + faults + outsiders
    <3> DEFINE k == Cardinality(OwnOn(s))
               n == Cardinality(OpenOn(s))
               f == faults
               o == outsiders
    <3>1. OwnOn(s) \subseteq OpenOn(s) /\ OwnOn(s) \in SUBSET Tickets
      BY DEF OwnOn, OwnOpen, OpenOn
    <3>2. k <= n /\ k \in Nat /\ n \in Nat
      BY <3>1, TicketsFinite, OpenOnFinite, FS_Subset
    <3>3. f \in Nat /\ o \in Nat
      BY <1>1 DEF Dedup, Results, TypeOK
    <3>4. n + One(Blind(s)) + One(DropThreatens(s)) <= 1 + f + o
      BY <1>1 DEF Dedup, Paid
    <3>5. k <= 1 + f + o
      <4> HIDE DEF k, n, f, o
      <4> QED BY <3>2, <3>3, <3>4 DEF One
    <3> QED BY <3>5
  <2> QED BY <2>1 DEF NoDoubleUp
<1> QED BY <1>1, DedupInvariant, PTL

(* Where _execute_trade sends its orders, the registry has every symbol    *)
(* the engine and the scalper hold, unless a read has failed or others     *)
(* trade.                                                                  *)
THEOREM MainSeesAll == Spec => []MainSeesEveryPosition
<1>1. ASSUME Dedup, faults = 0, outsiders = 0, pc = "main",
             NEW t \in OwnOpen
      PROVE  broker[t].symbol \in Registered
  <2> DEFINE s == broker[t].symbol
             n == Cardinality(OpenOn(s))
  <2>1. t \in OwnOn(s) /\ t \in OpenOn(s) /\ t \in Tickets
    BY DEF OwnOn, OwnOpen, OpenOn
  <2>2. s \in Symbols
    BY <1>1, <2>1
    DEF Dedup, Results, Filed, PositionFiled, OpenOn, Open, Used
  <2>3. n \in Nat /\ n # 0
    BY <2>1, OpenOnFinite, FS_EmptySet
  <2>4. n + One(Blind(s)) + One(DropThreatens(s)) <= 1 + 0 + 0
    BY <1>1, <2>2 DEF Dedup, Paid
  <2>5. ~Blind(s)
    <3> HIDE DEF n
    <3> QED BY <2>3, <2>4 DEF One
  <2>6. Held(s) \/ s \in SymbolsOf(openScalps)
    BY <1>1, <2>1, <2>5 DEF Blind, Seen, Unmanaged, Reconciling
  <2> QED BY <1>1, <2>2, <2>6 DEF Dedup, Registered
<1>2. Dedup => MainSeesEveryPosition
  BY <1>1 DEF MainSeesEveryPosition, SymbolsOf
<1> QED BY <1>2, DedupInvariant, PTL

----------------------------------------------------------------------------
(* The portfolio stays within the limit.  check_portfolio_limits counts    *)
(* the registry, so an order may only be too many where the engine does    *)
(* not see what it holds.  Every open position is therefore set against a  *)
(* secure symbol, or against an allowance: a failed read, which may leave  *)
(* no symbol secure, adds the whole limit to it once, an order sent past   *)
(* the engine adds one.                                                    *)

AllOpen == {t \in Tickets : Open(t)}
SecureSymbols == {s \in Symbols : Secure(s)}
Allowance == MaxConcurrent * faults + outsiders

Bounded ==
    /\ Cardinality(AllOpen) <= MaxConcurrent + Allowance
    /\ Cardinality(AllOpen) <= Cardinality(SecureSymbols) + Allowance

(* Symbols need not be finite; those that the tickets have are.            *)
LEMMA SymbolsFinite ==
  ASSUME NEW b, NEW S \in SUBSET {b[t].symbol : t \in Tickets}
  PROVE  IsFiniteSet(S) /\ Cardinality(S) \in Nat
<1> DEFINE all == {b[t].symbol : t \in Tickets}
           symbol == [t \in Tickets |-> b[t].symbol]
<1>1. symbol \in Surjection(Tickets, all)
  BY DEF Surjection
<1>2. IsFiniteSet(all)
  <2> HIDE DEF symbol, all
  <2> QED BY <1>1, TicketsAssumption, FS_Surjection
<1> QED BY <1>2, FS_Subset, FS_CardinalityType

LEMMA SecureFinite ==
  ASSUME NEW s
  PROVE  /\ IsFiniteSet(SecureSymbols) /\ Cardinality(SecureSymbols) \in Nat
         /\ IsFiniteSet(SecureSymbols') /\ Cardinality(SecureSymbols') \in Nat
         /\ Cardinality(SecureSymbols \ {s}) \in Nat
<1>1. /\ SecureSymbols \subseteq {broker[t].symbol : t \in Tickets}
      /\ SecureSymbols' \subseteq {broker'[t].symbol : t \in Tickets}
  BY DEF SecureSymbols, Secure, OwnOn, OwnOpen
<1>2. SecureSymbols \ {s} \subseteq {broker[t].symbol : t \in Tickets}
  BY <1>1
<1> QED BY <1>1, <1>2, SymbolsFinite

LEMMA RegisteredFinite ==
  ASSUME TypeOK, Filed
  PROVE  IsFiniteSet(Registered) /\ Cardinality(Registered) \in Nat
<1>1. Registered \subseteq {broker[t].symbol : t \in Tickets}
  <2>1. ASSUME NEW s \in Registered
        PROVE  s \in {broker[t].symbol : t \in Tickets}
    <3>1. registry[s].ticket \in Tickets
      BY EntryOf DEF Registered
    <3>2. broker[registry[s].ticket].symbol = s
      BY DEF Filed, EntryFiled, Registered
    <3> QED BY <3>1, <3>2
  <2> QED BY <2>1
<1> QED BY <1>1, SymbolsFinite

LEMMA AllOpenFinite ==
  /\ IsFiniteSet(AllOpen) /\ Cardinality(AllOpen) \in Nat
  /\ IsFiniteSet(AllOpen') /\ Cardinality(AllOpen') \in Nat
<1>1. AllOpen \in SUBSET Tickets /\ AllOpen' \in SUBSET Tickets
  BY DEF AllOpen
<1> QED BY <1>1, TicketsFinite

LEMMA OpenedOne ==
  ASSUME NEW t, AllOpen' \subseteq AllOpen \cup {t}
  PROVE  /\ Cardinality(AllOpen) \in Nat /\ Cardinality(AllOpen') \in Nat
         /\ Cardinality(AllOpen') <= Cardinality(AllOpen) + 1
<1> DEFINE k == Cardinality(AllOpen)
           kk == Cardinality(AllOpen')
           l == Cardinality(AllOpen \cup {t})
<1>1. k \in Nat /\ kk \in Nat
  BY AllOpenFinite
<1>2. IsFiniteSet(AllOpen \cup {t}) /\ l \in {k, k + 1}
  BY AllOpenFinite, FS_AddElement
<1>3. kk <= l
  BY <1>2, FS_Subset
<1>4. kk <= k + 1
  <2> HIDE DEF k, kk, l
  <2> QED BY <1>1, <1>2, <1>3
<1> QED BY <1>1, <1>4

(* How the allowance grows.                                                *)
LEMMA AllowanceGrows ==
  ASSUME TypeOK
  PROVE  /\ Allowance \in Nat
         /\ UNCHANGED <<faults, outsiders>> => Allowance' = Allowance
         /\ faults' = faults + 1 /\ outsiders' = outsiders
                => Allowance' = Allowance + MaxConcurrent
         /\ faults' = faults /\ outsiders' = outsiders + 1
                => Allowance' = Allowance + 1
<1> DEFINE f == faults
           o == outsiders
           m == MaxConcurrent
<1>1. f \in Nat /\ o \in Nat /\ m \in Nat
  BY LimitsAssumption DEF TypeOK
<1>2. m * f \in Nat /\ m * (f + 1) = m * f + m
  <2> HIDE DEF f, o, m
  <2> QED BY <1>1
<1>3. Allowance = m * f + o /\ Allowance' = m * faults' + outsiders'
  BY DEF Allowance
<1>4. ASSUME UNCHANGED <<faults, outsiders>> PROVE Allowance' = Allowance
  BY <1>4 DEF Allowance
<1>5. ASSUME faults' = faults + 1, outsiders' = outsiders
      PROVE  Allowance' = Allowance + MaxConcurrent
  <2>1. Allowance' = m * (f + 1) + o
    BY <1>3, <1>5
  <2> DEFINE p == m * f
             q == m * (f + 1)
  <2>2. p \in Nat /\ q = p + m /\ Allowance = p + o /\ Allowance' = q + o
    BY <1>2, <1>3, <2>1
  <2>3. p + m + o = p + o + m
    <3> HIDE DEF p, m, o
    <3> QED BY <1>1, <2>2
  <2> HIDE DEF p, q, o
  <2> QED BY <2>2, <2>3
<1>6. ASSUME faults' = faults, outsiders' = outsiders + 1
      PROVE  Allowance' = Allowance + 1
  <2> DEFINE p == m * f
  <2>1. p \in Nat /\ Allowance = p + o /\ Allowance' = p + (o + 1)
    BY <1>2, <1>3, <1>6
  <2> HIDE DEF p, o
  <2> QED BY <1>1, <2>1
<1>7. Allowance \in Nat
  <2> DEFINE p == m * f
  <2>1. p \in Nat /\ Allowance = p + o
    BY <1>2, <1>3
  <2> HIDE DEF p, o
  <2> QED BY <1>1, <2>1
<1> QED BY <1>4, <1>5, <1>6, <1>7

----------------------------------------------------------------------------
(* What a step may do to the open positions and the secure symbols.        *)

(* Nothing is opened and no symbol stops being secure.                     *)
LEMMA BoundedKept ==
  ASSUME TypeOK, TypeOK', Bounded, AllOpen' \subseteq AllOpen,
         SecureSymbols \subseteq SecureSymbols',
         UNCHANGED <<faults, outsiders>>
  PROVE  Bounded'
<1> DEFINE k == Cardinality(AllOpen)
           kk == Cardinality(AllOpen')
           n == Cardinality(SecureSymbols)
           nn == Cardinality(SecureSymbols')
           a == Allowance
           m == MaxConcurrent
<1>1. k \in Nat /\ kk \in Nat /\ kk <= k
  BY AllOpenFinite, FS_Subset
<1>2. IsFiniteSet(SecureSymbols') /\ n \in Nat /\ nn \in Nat
  BY SecureFinite
<1>3. n <= nn
  BY <1>2, FS_Subset
<1>4. a \in Nat /\ Allowance' = a /\ m \in Nat
  BY AllowanceGrows, LimitsAssumption
<1>5. k <= m + a /\ k <= n + a
  BY DEF Bounded
<1>6. kk <= m + a /\ kk <= nn + a
  <2> HIDE DEF k, kk, n, nn, a, m
  <2> QED BY <1>1, <1>2, <1>3, <1>4, <1>5
<1> QED BY <1>4, <1>6 DEF Bounded

(* A failed read, whatever it hides.                                       *)
LEMMA BoundedFault ==
  ASSUME TypeOK, TypeOK', Bounded, AllOpen' = AllOpen,
         faults' = faults + 1, outsiders' = outsiders
  PROVE  Bounded'
<1> DEFINE k == Cardinality(AllOpen)
           nn == Cardinality(SecureSymbols')
           a == Allowance
           aa == Allowance'
           m == MaxConcurrent
<1>1. k \in Nat
  BY AllOpenFinite
<1>2. nn \in Nat
  BY SecureFinite
<1>3. a \in Nat /\ aa = a + m /\ m \in Nat
  BY AllowanceGrows, LimitsAssumption
<1>4. k <= m + a
  BY DEF Bounded
<1>5. k <= m + aa /\ k <= nn + aa
  <2> HIDE DEF k, nn, a, aa, m
  <2> QED BY <1>1, <1>2, <1>3, <1>4
<1> QED BY <1>5 DEF Bounded

(* One position closes, and one symbol may stop being secure.              *)
LEMMA BoundedClosed ==
  ASSUME TypeOK, TypeOK', Bounded, NEW t \in AllOpen,
         AllOpen' = AllOpen \ {t},
         NEW s, SecureSymbols \ {s} \subseteq SecureSymbols',
         UNCHANGED <<faults, outsiders>>
  PROVE  Bounded'
<1> DEFINE k == Cardinality(AllOpen)
           kk == Cardinality(AllOpen')
           n == Cardinality(SecureSymbols)
           l == Cardinality(SecureSymbols \ {s})
           nn == Cardinality(SecureSymbols')
           a == Allowance
           m == MaxConcurrent
<1>1. k \in Nat /\ kk \in Nat /\ kk = k - 1
  BY AllOpenFinite, FS_RemoveElement
<1>2. n \in Nat /\ l \in Nat /\ l >= n - 1
  <2>1. IsFiniteSet(SecureSymbols) /\ n \in Nat /\ l \in Nat
    BY SecureFinite
  <2>2. l \in {n, n - 1}
    BY <2>1, FS_RemoveElement
  <2> HIDE DEF n, l
  <2> QED BY <2>1, <2>2
<1>3. nn \in Nat /\ l <= nn
  BY SecureFinite, FS_Subset
<1>4. a \in Nat /\ Allowance' = a /\ m \in Nat
  BY AllowanceGrows, LimitsAssumption
<1>5. k <= m + a /\ k <= n + a
  BY DEF Bounded
<1>6. kk <= m + a /\ kk <= nn + a
  <2> HIDE DEF k, kk, n, l, nn, a, m
  <2> QED BY <1>1, <1>2, <1>3, <1>4, <1>5
<1> QED BY <1>4, <1>6 DEF Bounded

(* An order sent past the engine.                                          *)
LEMMA BoundedOutside ==
  ASSUME TypeOK, TypeOK', Bounded, NEW t, AllOpen' \subseteq AllOpen \cup {t},
         SecureSymbols \subseteq SecureSymbols',
         faults' = faults, outsiders' = outsiders + 1
  PROVE  Bounded'
<1> DEFINE k == Cardinality(AllOpen)
           kk == Cardinality(AllOpen')
           n == Cardinality(SecureSymbols)
           nn == Cardinality(SecureSymbols')
           a == Allowance
           aa == Allowance'
           m == MaxConcurrent
<1>1. k \in Nat /\ kk \in Nat /\ kk <= k + 1
  BY OpenedOne
<1>2. n \in Nat /\ nn \in Nat /\ n <= nn
  BY SecureFinite, FS_Subset
<1>3. a \in Nat /\ aa = a + 1 /\ m \in Nat
  BY AllowanceGrows, LimitsAssumption
<1>4. k <= m + a /\ k <= n + a
  BY DEF Bounded
<1>5. kk <= m + aa /\ kk <= nn + aa
  <2> HIDE DEF k, kk, n, nn, a, aa, m
  <2> QED BY <1>1, <1>2, <1>3, <1>4
<1> QED BY <1>5 DEF Bounded

(* An order of the engine or its scalper, for a symbol that was not secure *)
(* and becomes so, while the registry had room and every secure symbol.    *)
LEMMA BoundedOpened ==
  ASSUME TypeOK, TypeOK', Filed, Bounded, PortfolioHasRoom,
         SecureSymbols \subseteq Registered,
         NEW t, AllOpen' \subseteq AllOpen \cup {t},
         NEW r, r \notin SecureSymbols,
         SecureSymbols \cup {r} \subseteq SecureSymbols',
         UNCHANGED <<faults, outsiders>>
  PROVE  Bounded'
<1> DEFINE k == Cardinality(AllOpen)
           kk == Cardinality(AllOpen')
           n == Cardinality(SecureSymbols)
           nn == Cardinality(SecureSymbols')
           c == Cardinality(Registered)
           a == Allowance
           m == MaxConcurrent
<1>1. k \in Nat /\ kk \in Nat /\ kk <= k + 1
  BY OpenedOne
<1>2. n \in Nat /\ nn \in Nat /\ n + 1 <= nn
  <2>1. /\ IsFiniteSet(SecureSymbols) /\ n \in Nat
        /\ IsFiniteSet(SecureSymbols') /\ nn \in Nat
    BY SecureFinite
  <2>2. Cardinality(SecureSymbols \cup {r}) = n + 1
    BY <2>1, FS_AddElement
  <2>3. Cardinality(SecureSymbols \cup {r}) <= nn
    BY <2>1, FS_Subset
  <2> QED BY <2>1, <2>2, <2>3
<1>3. c \in Nat /\ n <= c /\ c < m
  BY RegisteredFinite, FS_Subset DEF PortfolioHasRoom
<1>4. a \in Nat /\ Allowance' = a /\ m \in Nat
  BY AllowanceGrows, LimitsAssumption
<1>5. k <= n + a
  BY DEF Bounded
<1>6. kk <= m + a /\ kk <= nn + a
  <2> HIDE DEF k, kk, n, nn, c, a, m
  <2> QED BY <1>1, <1>2, <1>3, <1>4, <1>5
<1> QED BY <1>4, <1>6 DEF Bounded

(* One that is filled unanswered, with room in the registry: what a fault  *)
(* adds is no less than one.                                               *)
LEMMA BoundedUnanswered ==
  ASSUME TypeOK, TypeOK', Filed, Bounded, PortfolioHasRoom,
         SecureSymbols \subseteq Registered,
         NEW t, AllOpen' \subseteq AllOpen \cup {t},
         faults' = faults + 1, outsiders' = outsiders
  PROVE  Bounded'
<1> DEFINE k == Cardinality(AllOpen)
           kk == Cardinality(AllOpen')
           n == Cardinality(SecureSymbols)
           nn == Cardinality(SecureSymbols')
           c == Cardinality(Registered)
           a == Allowance
           aa == Allowance'
           m == MaxConcurrent
<1>1. k \in Nat /\ kk \in Nat /\ kk <= k + 1
  BY OpenedOne
<1>2. n \in Nat /\ nn \in Nat
  BY SecureFinite
<1>3. c \in Nat /\ n <= c /\ c < m
  BY RegisteredFinite, FS_Subset DEF PortfolioHasRoom
<1>4. a \in Nat /\ aa = a + m /\ m \in Nat
  BY AllowanceGrows, LimitsAssumption
<1>5. k <= n + a
  BY DEF Bounded
<1>6. kk <= m + aa /\ kk <= nn + aa
  <2> HIDE DEF k, kk, n, nn, c, a, aa, m
  <2> QED BY <1>1, <1>2, <1>3, <1>4, <1>5
<1> QED BY <1>6 DEF Bounded

----------------------------------------------------------------------------
(* The limit, action by action.                                            *)

LEMMA SecureSymbolsKept ==
  ASSUME \A s \in Symbols : SecureKept(s)
  PROVE  SecureSymbols \subseteq SecureSymbols'
  BY DEF SecureSymbols, SecureKept

LEMMA SameBrokerBounded ==
  ASSUME Dedup, Bounded, TypeOK', UNCHANGED <<broker, outsiders>>,
         faults' \in {faults, faults + 1},
         faults' = faults => \A s \in Symbols : SecureKept(s)
  PROVE  Bounded'
<1>1. AllOpen' = AllOpen
  BY DEF AllOpen, Open
<1>2. CASE faults' = faults
  BY <1>1, <1>2, SecureSymbolsKept, BoundedKept DEF Dedup, Results
<1>3. CASE faults' = faults + 1
  BY <1>1, <1>3, BoundedFault DEF Dedup, Results
<1> QED BY <1>2, <1>3

(* A position that closes, by itself or by _close_trade, which also drops  *)
(* the entry of its symbol and no other.                                   *)
LEMMA ClosedBounded ==
  ASSUME Dedup, Bounded, TypeOK', NEW t \in Tickets, NEW pnl \in PnLs,
         Open(t),
         broker' = [broker EXCEPT ![t].status = "closed", ![t].pnl = pnl],
         \A s \in Symbols : broker[t].symbol # s => SecureKept(s),
         UNCHANGED <<faults, outsiders>>
  PROVE  Bounded'
<1>1. /\ ~Open(t)'
      /\ \A u \in Tickets \ {t} : broker'[u] = broker[u]
  BY ClosingEffect, PnLsAssumption DEF Dedup, Results
<1>2. t \in AllOpen /\ AllOpen' = AllOpen \ {t}
  BY <1>1 DEF AllOpen, Open
<1>3. SecureSymbols \ {broker[t].symbol} \subseteq SecureSymbols'
  BY DEF SecureSymbols, SecureKept
<1> QED BY <1>2, <1>3, BoundedClosed DEF Dedup, Results

(* An order of the engine or its scalper.                                  *)
LEMMA OpenedBounded ==
  ASSUME Dedup, Bounded, TypeOK', NEW t \in Tickets, NEW r \in Symbols,
         NEW owner \in {"engine", "scalper"}, Fills(t, r, owner),
         \A s \in Symbols :
             IF s = r THEN ~Secure(s) /\ Secure(s)' ELSE SecureKept(s),
         PortfolioHasRoom, SecureSymbols \subseteq Registered,
         UNCHANGED <<faults, outsiders>>
  PROVE  Bounded'
<1>1. \A u \in Tickets \ {t} : broker'[u] = broker[u]
  BY FillsEffect DEF Dedup, Results
<1>2. AllOpen' \subseteq AllOpen \cup {t}
  BY <1>1 DEF AllOpen, Open
<1>3. r \notin SecureSymbols /\ SecureSymbols \cup {r} \subseteq SecureSymbols'
  BY DEF SecureSymbols, SecureKept
<1> QED BY <1>2, <1>3, BoundedOpened DEF Dedup, Results

LEMMA OutsiderOpensBounded ==
  ASSUME Dedup, Bounded, TypeOK', NEW t \in Tickets, NEW s \in Symbols,
         OutsiderOpens(t, s)
  PROVE  Bounded'
<1>1. \A u \in Tickets \ {t} : broker'[u] = broker[u]
  BY FillsEffect DEF Dedup, Results, OutsiderOpens
<1>2. AllOpen' \subseteq AllOpen \cup {t}
  BY <1>1 DEF AllOpen, Open
<1>3. SecureSymbols \subseteq SecureSymbols'
  BY OutsiderOpensPaid, SecureSymbolsKept
<1>4. faults' = faults /\ outsiders' = outsiders + 1
  BY DEF OutsiderOpens
<1> QED BY <1>2, <1>3, <1>4, BoundedOutside DEF Dedup, Results

LEMMA ScalpOpensBounded ==
  ASSUME Dedup, Bounded, TypeOK', NEW t \in Tickets, NEW r \in Symbols,
         ScalpOpens(t, r)
  PROVE  Bounded'
<1>1. SecureSymbols \subseteq Registered
  BY DEF ScalpOpens, SecureSymbols, Secure, Blind, Seen, Registered,
         Unmanaged, Reconciling
<1>2. /\ PortfolioHasRoom /\ Fills(t, r, "scalper")
      /\ UNCHANGED <<faults, outsiders>>
  BY DEF ScalpOpens, Safe, counters
<1> QED BY <1>1, <1>2, ScalpOpensPaid, OpenedBounded

LEMMA MainOpensBounded ==
  ASSUME Dedup, Bounded, TypeOK', NEW t \in Tickets, NEW r \in Symbols,
         MainOpens(t, r)
  PROVE  Bounded'
<1>1. SecureSymbols \subseteq Registered
  <2>1. SymbolsOf(openScalps) \subseteq Registered
    BY DEF MainOpens, Dedup
  <2> QED BY <2>1 DEF MainOpens, SecureSymbols, Secure, Blind, Seen,
                      Registered, Unmanaged, Reconciling
<1>2. /\ PortfolioHasRoom /\ Fills(t, r, "engine")
      /\ UNCHANGED <<faults, outsiders>>
  BY DEF MainOpens, SignalAllowed, counters
<1> QED BY <1>1, <1>2, MainOpensPaid, OpenedBounded

(* An order that is filled unanswered: the registry had room.              *)
LEMMA UnansweredBounded ==
  ASSUME Dedup, Bounded, TypeOK', NEW t \in Tickets, NEW r \in Symbols,
         Unanswered(t, r)
  PROVE  Bounded'
<1>1. PICK owner \in {"engine", "scalper"} : Fills(t, r, owner)
  BY UnansweredEffect
<1>2. /\ PortfolioHasRoom /\ faults' = faults + 1 /\ outsiders' = outsiders
      /\ pc = "scalp" \/ pc = "main"
  BY UnansweredEffect
<1>3. \A u \in Tickets \ {t} : broker'[u] = broker[u]
  BY <1>1, FillsEffect DEF Dedup, Results
<1>4. AllOpen' \subseteq AllOpen \cup {t}
  BY <1>3 DEF AllOpen, Open
<1>5. SecureSymbols \subseteq Registered
  <2>1. pc = "main" => SymbolsOf(openScalps) \subseteq Registered
    BY DEF Dedup
  <2> QED BY <1>2, <2>1 DEF SecureSymbols, Secure, Blind, Seen, Registered,
                            Unmanaged, Reconciling
<1> QED BY <1>2, <1>4, <1>5, BoundedUnanswered DEF Dedup, Results

LEMMA ReadersBounded ==
  ASSUME Dedup, Bounded, TypeOK', ReadPositions \/ Restart \/ RefreshScalps
  PROVE  Bounded'
<1>1. faults' \in {faults, faults + 1}
  BY ReadsEffect
  DEF Dedup, Results, ReadPositions, Restart, RefreshScalps
<1>2. UNCHANGED <<broker, outsiders>>
  BY DEF ReadPositions, Restart, RefreshScalps
<1>3. faults' = faults => \A s \in Symbols : SecureKept(s)
  BY ReadPositionsPaid, RestartPaid, RefreshScalpsPaid
<1> QED BY <1>1, <1>2, <1>3, SameBrokerBounded

LEMMA OtherActionsBounded ==
  ASSUME Dedup, Bounded, TypeOK',
         \/ Tick \/ MidnightPasses \/ DailyStatusResets
         \/ LeavesCycle \/ DailyGate \/ BreakerGate \/ ManagingEnds \/ NoScalp
         \/ UNCHANGED vars
         \/ \E s \in Symbols : ReconcileStale(s)
         \/ ReverseReconcile
         \/ \E t \in Tickets : SyncScalp(t)
         \/ RegisterScalps
  PROVE  Bounded'
<1>1. UNCHANGED <<broker, faults, outsiders>>
  BY DEF Tick, MidnightPasses, DailyStatusResets, LeavesCycle, DailyGate,
         BreakerGate, ManagingEnds, NoScalp, vars, ReconcileStale,
         ReverseReconcile, SyncScalp, RegisterScalps, counters
<1>2. \A s \in Symbols : SecureKept(s)
  BY IdleActionsPaid, ReconcileStalePaid, ReverseReconcilePaid,
     SyncScalpPaid, RegisterScalpsPaid
<1> QED BY <1>1, <1>2, SameBrokerBounded

LEMMA StepBounded ==
  ASSUME Dedup, Bounded, Dedup', [Next]_vars PROVE Bounded'
<1>1. TypeOK'
  BY DEF Dedup, Results
<1>2. ASSUME NEW t \in Tickets, NEW pnl \in PnLs, PositionCloses(t, pnl)
      PROVE  Bounded'
  BY <1>1, <1>2, PositionClosesPaid, ClosedBounded
  DEF PositionCloses, counters
<1>3. ASSUME NEW t \in Tickets, NEW pnl \in PnLs, CloseTrade(t, pnl)
      PROVE  Bounded'
  BY <1>1, <1>3, CloseTradePaid, ClosedBounded DEF CloseTrade, counters
<1>4. CASE World
  BY <1>1, <1>2, <1>4, OutsiderOpensBounded, ReadersBounded,
     OtherActionsBounded
  DEF World
<1>5. CASE Cycle
  BY <1>1, <1>3, <1>5, ReadersBounded, ScalpOpensBounded, MainOpensBounded,
     UnansweredBounded, OtherActionsBounded
  DEF Cycle, Unanswered
<1>6. CASE UNCHANGED vars
  BY <1>1, <1>6, OtherActionsBounded
<1> QED BY <1>4, <1>5, <1>6 DEF Next

LEMMA InitBounded == ASSUME Init PROVE Bounded
<1>1. AllOpen = {} /\ Cardinality(AllOpen) = 0
  BY FS_EmptySet DEF Init, AllOpen, Open, NoPosition
<1> DEFINE a == Allowance
           m == MaxConcurrent
           n == Cardinality(SecureSymbols)
<1>2. a \in Nat /\ m \in Nat /\ n \in Nat
  BY InitTypeOK, AllowanceGrows, LimitsAssumption, SecureFinite
<1>3. 0 <= m + a /\ 0 <= n + a
  <2> HIDE DEF a, m, n
  <2> QED BY <1>2
<1> QED BY <1>1, <1>3 DEF Bounded

(* Engine and scalper hold no more positions at the broker than            *)
(* max_concurrent_trades, whatever closes, crashes or is abandoned and     *)
(* however many tickets and symbols there are, although the limit is       *)
(* checked on the registry; a fault may let them fill it once more,        *)
(* and an order sent past the engine may cost one.                         *)
THEOREM PortfolioStaysBounded == Spec => []PortfolioBounded
<1>1. ASSUME Dedup, Bounded PROVE PortfolioBounded
  <2> DEFINE k == Cardinality(OwnOpen)
             l == Cardinality(AllOpen)
             f == faults
             o == outsiders
             m == MaxConcurrent
             p == m * f
  <2>1. OwnOpen \subseteq AllOpen
    BY DEF OwnOpen, AllOpen
  <2>2. l \in Nat /\ k \in Nat /\ k <= l
    BY <2>1, AllOpenFinite, FS_Subset, FS_CardinalityType
  <2>3. f \in Nat /\ o \in Nat /\ m \in Nat
    BY <1>1, LimitsAssumption DEF Dedup, Results, TypeOK
  <2>4. l <= m + (p + o)
    BY <1>1 DEF Bounded, Allowance
  <2>5. p \in Nat /\ m * (1 + f) = m + p
    <3> HIDE DEF f, m
    <3> QED BY <2>3
  <2>6. k <= m + p + o
    <3> HIDE DEF k, l, o, m, p
    <3> QED BY <2>2, <2>3, <2>4, <2>5
  <2> QED BY <2>5, <2>6 DEF PortfolioBounded
<1>2. Init => Bounded
  BY InitBounded
<1>3. Dedup /\ Bounded /\ Dedup' /\ [Next]_vars => Bounded'
  BY StepBounded
<1> QED BY <1>1, <1>2, <1>3, DedupInvariant, PTL DEF Spec
=============================================================================
