---------------------- MODULE PositionManagement_proofs ----------------------
(***************************************************************************)
(* Theorems about PositionManagement, for all prices, distances and        *)
(* bounds: its type invariant, that the engine's copy of the stop is the   *)
(* broker's as long as no scalper has a hand in it, and that a stop is     *)
(* only ever loosened by a manager whose copy is stale.                    *)
(***************************************************************************)
EXTENDS PositionManagement, TLAPS

Steps == {"asleep", "target", "exit", "time", "partial", "breakeven",
          "atr", "bbstop", "scalper"}
Reasons == {"none", "stop", "target", "partial", "EXIT_OPTIMIZER", "TIME_EXIT"}
Brokers == [open : BOOLEAN, sl : Int, tp : Int, reason : Reasons]
Scalps == [held : {TRUE}, sl : Int, breakevenHit : BOOLEAN, high : Prices]
Handling == pc \notin {"asleep", "scalper"} => rm.held

(* TypeOK, with names for its sets.                                        *)
LEMMA TypeFacts ==
    TypeOK <=> /\ direction \in {"BUY", "SELL"}
               /\ owner \in {"engine", "scalper", "outsider"}
               /\ price \in Prices
               /\ broker \in Brokers
               /\ rm = NotHeld \/ rm \in Entries
               /\ scalp = NoScalp \/ scalp \in Scalps
               /\ pc \in Steps
               /\ Handling
               /\ seen \in Prices /\ current \in Prices \cup {Unbound}
               /\ dist \in Nat
               /\ old \in BOOLEAN /\ paused \in BOOLEAN
               /\ refusals \in 0..MaxRefusals /\ restarts \in 0..MaxRestarts
  BY DEF TypeOK, Brokers, Reasons, Scalps, Steps, Handling

(* An entry made from what the broker holds is an entry.                   *)
LEMMA EntryTyped ==
    ASSUME broker \in Brokers, NEW sl \in Int, NEW a \in {0, Atr, SyncedAtr}
    PROVE  Entry(sl, a) \in Entries
  BY PricesAssumption, DistancesAssumption DEF Entry, Entries, Brokers

LEMMA ScalpEntryTyped ==
    ASSUME broker \in Brokers
    PROVE  ScalpEntry \in Entries /\ ~ScalpEntry.filled /\ ScalpEntry.held
  <1> DEFINE new == Entry(NoStop, SyncedAtr)
  <1>1. new \in Entries
    BY EntryTyped, PricesAssumption
  <1>2. ScalpEntry = [new EXCEPT !.filled = FALSE]
    BY DEF ScalpEntry
  <1> HIDE DEF new
  <1> QED
    BY <1>1, <1>2 DEF Entries

(* What Tracked returns.                                                   *)
LEMMA TrackedTyped ==
    ASSUME broker \in Brokers, rm = NotHeld \/ rm \in Entries
    PROVE  /\ Tracked \in Entries
           /\ Tracked.held /\ Tracked.filled
           /\ ~(rm.held /\ rm.filled) => Tracked.sl = broker.sl
           /\ rm.held /\ rm.filled => Tracked.sl = rm.sl
  <1> DEFINE a == IF rm.age < Cooldown THEN rm.age + 1 ELSE rm.age
             new == Entry(broker.sl, SyncedAtr)
  <1>1. new \in Entries /\ new.held /\ new.filled /\ new.sl = broker.sl
    BY EntryTyped DEF Entry, Brokers
  <1>2. CASE ~rm.held
    BY <1>1, <1>2 DEF Tracked
  <1>3. CASE rm.held
    <2>1. rm \in Entries
      BY <1>3 DEF NotHeld
    <2>2. a \in 0..Cooldown
      BY <2>1, DistancesAssumption DEF Entries
    <2>3. CASE rm.filled
      <3>1. Tracked = [rm EXCEPT !.age = a]
        BY <1>3, <2>3 DEF Tracked
      <3> QED
        BY <1>3, <2>1, <2>2, <2>3, <3>1 DEF Entries
    <2>4. CASE ~rm.filled
      <3>1. Tracked = [new EXCEPT !.age = a]
        BY <1>3, <2>4 DEF Tracked
      <3> HIDE DEF new, a
      <3> QED
        BY <1>1, <1>3, <2>2, <2>4, <3>1 DEF Entries
    <2> QED
      BY <2>3, <2>4
  <1> QED
    BY <1>2, <1>3
----------------------------------------------------------------------------
(* No scalper has a hand in a position it did not open: then there is no   *)
(* scalp, every entry is complete, and its stop is the broker's.           *)
Alone ==
    owner # "scalper" =>
        /\ scalp = NoScalp
        /\ rm.held => rm.filled
        /\ rm.held /\ broker.open => rm.sl = broker.sl
IInv == TypeOK /\ Alone

LEMMA RefusedTyped ==
    ASSUME refusals \in 0..MaxRefusals, NEW must \in BOOLEAN, Refused(must)
    PROVE  refusals' \in 0..MaxRefusals
  BY DistancesAssumption DEF Refused

LEMMA GoesToTyped ==
    ASSUME seen \in Prices, current \in Prices \cup {Unbound}, dist \in Nat,
           NEW step \in Steps, GoesTo(step)
    PROVE  /\ pc' = step
           /\ seen' \in Prices /\ current' \in Prices \cup {Unbound}
           /\ dist' \in Nat
  BY PricesAssumption DEF GoesTo, locals

LEMMA HeldIsEntry ==
    ASSUME TypeOK, rm.held PROVE rm \in Entries
  BY TypeFacts DEF NotHeld

LEMMA ClosedTyped ==
    ASSUME broker \in Brokers, NEW why \in Reasons
    PROVE  /\ Closed(broker, why) \in Brokers
           /\ ~Closed(broker, why).open
           /\ Closed(broker, why).reason = why
  BY DEF Closed, Brokers

(* What a modification of the stop leaves: both copies moved, or neither.  *)
LEMMA MovesStopTyped ==
    ASSUME TypeOK, rm \in Entries, NEW sl \in Int, MovesStop(sl)
    PROVE  /\ broker' \in Brokers
           /\ rm' \in Entries /\ rm'.filled = rm.filled
           /\ refusals' \in 0..MaxRefusals
           /\ \/ broker' = broker /\ rm'.sl = rm.sl
              \/ broker'.sl = sl /\ rm'.sl = sl
  <1>1. broker \in Brokers /\ refusals \in 0..MaxRefusals
    BY TypeFacts
  <1>2. CASE /\ broker' = [broker EXCEPT !.sl = sl]
             /\ rm' = [rm EXCEPT !.sl = sl]
             /\ UNCHANGED refusals
    <2>1. broker' \in Brokers /\ broker'.sl = sl
      BY <1>1, <1>2 DEF Brokers
    <2>2. rm' \in Entries /\ rm'.sl = sl /\ rm'.filled = rm.filled
      BY <1>2 DEF Entries
    <2> QED
      BY <1>1, <1>2, <2>1, <2>2
  <1>3. CASE Refused(~TakesStop(sl)) /\ UNCHANGED <<broker, rm>>
    <2>1. refusals' \in 0..MaxRefusals
      BY <1>1, <1>3, RefusedTyped
    <2> QED
      BY <1>1, <1>3, <2>1
  <1> QED
    BY <1>2, <1>3 DEF MovesStop

(* A step of the engine preserves the invariant if it leaves the entry and *)
(* the position typed and together.                                        *)
LEMMA EngineStep ==
    ASSUME IInv, UNCHANGED <<fixed, price, scalp, old, paused, restarts>>,
           broker' \in Brokers,
           rm' = NotHeld \/ rm' \in Entries,
           pc' \in Steps, Handling',
           seen' \in Prices, current' \in Prices \cup {Unbound}, dist' \in Nat,
           refusals' \in 0..MaxRefusals,
           owner # "scalper" =>
               /\ rm'.held => rm'.filled
               /\ rm'.held /\ broker'.open => rm'.sl = broker'.sl
    PROVE  IInv'
  <1>1. TypeOK'
    BY DEF IInv, TypeOK, Brokers, Reasons, Steps, Handling, fixed
  <1>2. Alone'
    BY DEF IInv, Alone, fixed, NotHeld, NoScalp
  <1> QED
    BY <1>1, <1>2 DEF IInv
----------------------------------------------------------------------------
(* The invariant holds at first.                                           *)
LEMMA InitInv == Init => IInv
  <1> SUFFICES ASSUME Init PROVE IInv
    OBVIOUS
  <1>1. broker \in Brokers /\ broker.open
    BY PricesAssumption DEF Init, Brokers, Reasons
  <1>2. rm = NotHeld \/ rm \in Entries
    <2>1. CASE owner = "engine"
      BY <1>1, <2>1, EntryTyped, PricesAssumption DEF Init
    <2>2. CASE owner = "scalper"
      BY <1>1, <2>2, ScalpEntryTyped DEF Init
    <2>3. CASE owner = "outsider"
      BY <2>3 DEF Init
    <2> QED
      BY <2>1, <2>2, <2>3 DEF Init
  <1>3. scalp = NoScalp \/ scalp \in Scalps
    BY PricesAssumption DEF Init, Scalps
  <1>4. refusals \in 0..MaxRefusals /\ restarts \in 0..MaxRestarts
    BY DistancesAssumption DEF Init
  <1>5. /\ pc \in Steps /\ Handling
        /\ seen \in Prices /\ current \in Prices \cup {Unbound} /\ dist \in Nat
    BY PricesAssumption DEF Init, Steps, Handling
  <1>6. /\ direction \in {"BUY", "SELL"}
        /\ owner \in {"engine", "scalper", "outsider"}
        /\ price \in Prices /\ old \in BOOLEAN /\ paused \in BOOLEAN
    BY PricesAssumption DEF Init
  <1>7. TypeOK
    BY <1>1, <1>2, <1>3, <1>4, <1>5, <1>6, TypeFacts
  <1>8. Alone
    BY PricesAssumption DEF Init, Alone, Entry, NotHeld, NoScalp
  <1> QED
    BY <1>7, <1>8 DEF IInv

(* The market, time and the pauses.                                        *)
LEMMA PriceMovesInv ==
    ASSUME IInv, NEW p \in Prices, PriceMoves(p) PROVE IInv'
  <1>1. broker \in Brokers
    BY TypeFacts DEF IInv
  <1>2. broker' \in Brokers /\ (broker'.open => broker' = broker)
    BY <1>1, ClosedTyped DEF PriceMoves, Reasons
  <1>3. TypeOK'
    BY <1>2 DEF PriceMoves, IInv, TypeOK, Brokers, Reasons, fixed, locals
  <1>4. Alone'
    BY <1>2 DEF PriceMoves, IInv, Alone, fixed
  <1> QED
    BY <1>3, <1>4 DEF IInv

LEMMA AgesInv == ASSUME IInv, Ages PROVE IInv'
  <1>1. old' \in BOOLEAN
    BY DEF Ages
  <1>2. TypeOK'
    <2>1. UNCHANGED <<direction, owner, price, broker, rm, scalp, pc, seen,
                      current, dist, paused, refusals, restarts>>
      BY DEF Ages, fixed, locals
    <2>2. /\ broker' \in Brokers /\ (rm' = NotHeld \/ rm' \in Entries)
          /\ (scalp' = NoScalp \/ scalp' \in Scalps) /\ Handling'
      BY <2>1, TypeFacts DEF IInv, Handling
    <2> QED
      BY <1>1, <2>1, <2>2
         DEF IInv, TypeOK, Brokers, Reasons, Scalps, Steps, Handling
  <1>3. Alone'
    BY DEF IInv, Alone, Ages, fixed
  <1> QED
    BY <1>2, <1>3 DEF IInv

LEMMA PausesOrResumesInv == ASSUME IInv, PausesOrResumes PROVE IInv'
  <1>1. paused' \in BOOLEAN
    BY DEF PausesOrResumes
  <1>2. TypeOK'
    <2>1. UNCHANGED <<direction, owner, price, broker, rm, scalp, pc, seen,
                      current, dist, old, refusals, restarts>>
      BY DEF PausesOrResumes, fixed, locals
    <2>2. /\ broker' \in Brokers /\ (rm' = NotHeld \/ rm' \in Entries)
          /\ (scalp' = NoScalp \/ scalp' \in Scalps) /\ Handling'
      BY <2>1, TypeFacts DEF IInv, Handling
    <2> QED
      BY <1>1, <2>1, <2>2
         DEF IInv, TypeOK, Brokers, Reasons, Scalps, Steps, Handling
  <1>3. Alone'
    BY DEF IInv, Alone, PausesOrResumes, fixed
  <1> QED
    BY <1>2, <1>3 DEF IInv
----------------------------------------------------------------------------
(* The steps of _manage_existing_positions.                                *)
LEMMA ReadsPositionsInv == ASSUME IInv, ReadsPositions PROVE IInv'
  <1>1. TypeOK /\ Alone
    BY DEF IInv
  <1>2. UNCHANGED <<fixed, price, scalp, old, paused, restarts>>
    BY DEF ReadsPositions, At
  <1>3. CASE /\ broker.open /\ rm' = Tracked
             /\ seen' = price /\ UNCHANGED <<current, dist>>
             /\ pc' = "target" /\ UNCHANGED <<broker, refusals>>
    <2>1. /\ rm' \in Entries /\ rm'.held /\ rm'.filled
          /\ ~(rm.held /\ rm.filled) => rm'.sl = broker.sl
          /\ rm.held /\ rm.filled => rm'.sl = rm.sl
      BY <1>1, <1>3, TypeFacts, TrackedTyped
    <2>2. owner # "scalper" => rm'.sl = broker'.sl
      BY <1>1, <1>3, <2>1 DEF Alone
    <2>3. /\ broker' \in Brokers /\ seen' \in Prices /\ dist' \in Nat
          /\ current' \in Prices \cup {Unbound} /\ refusals' \in 0..MaxRefusals
      BY <1>1, <1>3, TypeFacts
    <2>4. pc' \in Steps /\ Handling'
      BY <1>3, <2>1 DEF Steps, Handling
    <2> QED
      BY <1>2, <2>1, <2>2, <2>3, <2>4, EngineStep
  <1>4. CASE /\ Refused(~broker.open)
             /\ rm' = NotHeld /\ UNCHANGED broker
             /\ GoesTo("scalper")
    <2>1. /\ pc' = "scalper" /\ seen' \in Prices /\ dist' \in Nat
          /\ current' \in Prices \cup {Unbound}
      BY <1>1, <1>4, TypeFacts, GoesToTyped DEF Steps
    <2>2. refusals' \in 0..MaxRefusals /\ broker' \in Brokers
      BY <1>1, <1>4, TypeFacts, RefusedTyped
    <2>3. pc' \in Steps /\ Handling' /\ ~rm'.held
      BY <1>4, <2>1 DEF Steps, Handling, NotHeld
    <2> QED
      BY <1>2, <1>4, <2>1, <2>2, <2>3, EngineStep
  <1> QED
    BY <1>3, <1>4 DEF ReadsPositions

(* While the position is being managed, the entry is there.                *)
LEMMA ManagedIsEntry ==
    ASSUME TypeOK, pc \notin {"asleep", "scalper"}
    PROVE  rm \in Entries /\ rm.held
  BY TypeFacts DEF Handling, NotHeld

LEMMA TrailsTargetInv == ASSUME IInv, TrailsTarget PROVE IInv'
  <1>1. TypeOK /\ Alone
    BY DEF IInv
  <1>2. UNCHANGED <<fixed, price, scalp, old, paused, restarts>>
    BY DEF TrailsTarget, At
  <1>3. rm \in Entries /\ rm.held /\ broker \in Brokers
    BY <1>1, ManagedIsEntry, TypeFacts DEF TrailsTarget, At
  <1>4. /\ pc' = "exit" /\ seen' \in Prices /\ dist' \in Nat
        /\ current' \in Prices \cup {Unbound}
    BY <1>1, TypeFacts, GoesToTyped DEF TrailsTarget, Steps
  <1>5. /\ broker' \in Brokers /\ rm' \in Entries
        /\ refusals' \in 0..MaxRefusals
        /\ rm'.sl = rm.sl /\ broker'.sl = broker.sl
        /\ rm'.filled = rm.filled /\ broker'.open = broker.open
    <2>1. CASE TargetTrails /\ broker.open
               /\ broker' = [broker EXCEPT !.tp = NewTarget]
               /\ rm' = [rm EXCEPT !.tp = NewTarget]
               /\ UNCHANGED refusals
      <3>1. NewTarget \in Int
        <4>1. rm.entry \in Int /\ rm.sl \in Int /\ rm.atr \in Int
          <5>1. rm.entry \in Prices /\ rm.sl \in Int /\ rm.atr \in {0, Atr, SyncedAtr}
            BY <1>3 DEF Entries
          <5>2. Prices \subseteq Int /\ Atr \in Int /\ SyncedAtr \in Int
            BY PricesAssumption, DistancesAssumption
          <5>3. rm.entry \in Int
            BY <5>1, <5>2
          <5>4. rm.atr \in Int
            BY <5>1, <5>2
          <5> QED
            BY <5>1, <5>3, <5>4
        <4> QED
          BY <4>1 DEF NewTarget, TargetDistance
      <3> HIDE DEF NewTarget
      <3> QED
        BY <1>1, <1>3, <2>1, <3>1, TypeFacts DEF Brokers, Entries
    <2>2. CASE Refused(~broker.open) /\ UNCHANGED <<broker, rm>>
      BY <1>1, <1>3, <2>2, TypeFacts, RefusedTyped
    <2>3. CASE Leaves
      BY <1>1, <1>3, <2>3, TypeFacts DEF Leaves
    <2> QED
      BY <2>1, <2>2, <2>3 DEF TrailsTarget
  <1>6. pc' \in Steps /\ Handling'
    BY <1>4, <1>5 DEF Steps, Handling, Entries
  <1>7. owner # "scalper" =>
            /\ rm'.held => rm'.filled
            /\ rm'.held /\ broker'.open => rm'.sl = broker'.sl
    BY <1>1, <1>3, <1>5 DEF Alone
  <1> QED
    BY <1>2, <1>4, <1>5, <1>6, <1>7, EngineStep

(* What _close_trade leaves: the entry gone with the position, or both.    *)
LEMMA ClosesTradeInv ==
    ASSUME IInv, UNCHANGED <<fixed, price, scalp, old, paused, restarts>>,
           NEW reason \in Reasons, ClosesTrade(reason)
    PROVE  IInv'
  <1>1. TypeOK /\ Alone
    BY DEF IInv
  <1>2. /\ pc' = "scalper" /\ seen' \in Prices /\ dist' \in Nat
        /\ current' \in Prices \cup {Unbound}
    BY <1>1, TypeFacts, GoesToTyped DEF ClosesTrade, Steps
  <1>3. pc' \in Steps /\ Handling'
    BY <1>2 DEF Steps, Handling
  <1>4. CASE /\ broker' = Closed(broker, reason)
             /\ rm' = NotHeld /\ UNCHANGED refusals
    <2>1. broker' \in Brokers /\ refusals' \in 0..MaxRefusals /\ ~rm'.held
      BY <1>1, <1>4, TypeFacts, ClosedTyped DEF NotHeld
    <2> QED
      BY <1>2, <1>3, <1>4, <2>1, EngineStep
  <1>5. CASE Refused(~broker.open) /\ UNCHANGED <<broker, rm>>
    <2>1. broker' \in Brokers /\ refusals' \in 0..MaxRefusals
      BY <1>1, <1>5, TypeFacts, RefusedTyped
    <2>2. rm' = NotHeld \/ rm' \in Entries
      BY <1>1, <1>5, TypeFacts
    <2>3. owner # "scalper" =>
              /\ rm'.held => rm'.filled
              /\ rm'.held /\ broker'.open => rm'.sl = broker'.sl
      BY <1>1, <1>5 DEF Alone
    <2> QED
      BY <1>2, <1>3, <2>1, <2>2, <2>3, EngineStep
  <1> QED
    BY <1>4, <1>5 DEF ClosesTrade

(* A step that leaves the position and its entry as they are.              *)
LEMMA LeavesInv ==
    ASSUME IInv, UNCHANGED <<fixed, price, scalp, old, paused, restarts>>,
           Leaves, pc' \in Steps, pc' \notin {"asleep", "scalper"} => rm.held,
           seen' \in Prices, current' \in Prices \cup {Unbound}, dist' \in Nat
    PROVE  IInv'
  <1>1. TypeOK /\ Alone
    BY DEF IInv
  <1>2. broker' = broker /\ rm' = rm /\ refusals' = refusals
    BY DEF Leaves
  <1>3. /\ broker' \in Brokers /\ refusals' \in 0..MaxRefusals
        /\ (rm' = NotHeld \/ rm' \in Entries)
    BY <1>1, <1>2, TypeFacts
  <1>4. Handling'
    BY <1>2 DEF Handling
  <1>5. owner # "scalper" =>
            /\ rm'.held => rm'.filled
            /\ rm'.held /\ broker'.open => rm'.sl = broker'.sl
    BY <1>1, <1>2 DEF Alone
  <1> QED
    BY <1>3, <1>4, <1>5, EngineStep

LEMMA OptimizesExitInv ==
    ASSUME IInv, NEW c \in Prices \cup {Unbound}, OptimizesExit(c)
    PROVE  IInv'
  <1>1. TypeOK /\ UNCHANGED <<fixed, price, scalp, old, paused, restarts>>
    BY DEF OptimizesExit, At, IInv
  <1>2. rm.held /\ seen \in Prices /\ dist \in Nat
    BY <1>1, ManagedIsEntry, TypeFacts DEF OptimizesExit, At
  <1>3. CASE Leaves /\ pc' = "time" /\ current' \in {c, seen}
             /\ UNCHANGED <<seen, dist>>
    <2>1. pc' \in Steps
      BY <1>3 DEF Steps
    <2> QED
      BY <1>1, <1>2, <1>3, <2>1, LeavesInv
  <1>4. CASE ClosesTrade("EXIT_OPTIMIZER")
    BY <1>1, <1>4, ClosesTradeInv DEF Reasons
  <1> QED
    BY <1>3, <1>4 DEF OptimizesExit

LEMMA ExitsOnTimeInv == ASSUME IInv, ExitsOnTime PROVE IInv'
  <1>1. TypeOK /\ UNCHANGED <<fixed, price, scalp, old, paused, restarts>>
    BY DEF ExitsOnTime, At, IInv
  <1>2. rm.held /\ seen \in Prices /\ dist \in Nat
    BY <1>1, ManagedIsEntry, TypeFacts DEF ExitsOnTime, At
  <1>3. CASE Leaves /\ Judged
    <2>1. /\ pc' \in Steps /\ seen' \in Prices /\ dist' \in Nat
          /\ current' \in Prices \cup {Unbound}
      BY <1>2, <1>3 DEF Judged, Steps
    <2> QED
      BY <1>1, <1>2, <1>3, <2>1, LeavesInv
  <1>4. CASE Leaves /\ GoesTo("asleep")
    <2>1. /\ pc' = "asleep" /\ seen' \in Prices /\ dist' \in Nat
          /\ current' \in Prices \cup {Unbound}
      BY <1>1, <1>4, TypeFacts, GoesToTyped DEF Steps
    <2>2. pc' \in Steps
      BY <2>1 DEF Steps
    <2> QED
      BY <1>1, <1>2, <1>4, <2>1, <2>2, LeavesInv
  <1>5. CASE ClosesTrade("TIME_EXIT")
    BY <1>1, <1>5, ClosesTradeInv DEF Reasons
  <1> QED
    BY <1>3, <1>4, <1>5 DEF ExitsOnTime

(* The numbers of an entry are integers.                                   *)
LEMMA EntryNumbers ==
    ASSUME NEW e \in Entries
    PROVE  e.entry \in Int /\ e.sl \in Int /\ e.atr \in Nat
  <1>1. e.entry \in Prices /\ e.sl \in Int /\ e.atr \in {0, Atr, SyncedAtr}
    BY DEF Entries
  <1>2. Prices \subseteq Int /\ Atr \in Nat /\ SyncedAtr \in Nat
    BY PricesAssumption, DistancesAssumption
  <1>3. e.entry \in Int
    BY <1>1, <1>2
  <1>4. e.atr \in Nat
    BY <1>1, <1>2
  <1> QED
    BY <1>1, <1>3, <1>4

LEMMA TrailDistanceTyped ==
    ASSUME rm \in Entries PROVE TrailDistance \in Nat
  <1>1. rm.entry \in Int /\ rm.sl \in Int /\ rm.atr \in Nat
    BY EntryNumbers
  <1>2. NoStop \in Int /\ OnePercent \in Nat
    BY PricesAssumption, DistancesAssumption
  <1> QED
    BY <1>1, <1>2 DEF TrailDistance

LEMMA TakesPartialInv == ASSUME IInv, TakesPartial PROVE IInv'
  <1>1. TypeOK /\ Alone /\ UNCHANGED <<fixed, price, scalp, old, paused, restarts>>
    BY DEF TakesPartial, At, IInv
  <1>2. /\ rm \in Entries /\ rm.held /\ broker \in Brokers
        /\ seen \in Prices /\ current \in Prices \cup {Unbound}
        /\ dist \in Nat /\ refusals \in 0..MaxRefusals
    BY <1>1, ManagedIsEntry, TypeFacts DEF TakesPartial, At
  <1>3. CASE /\ broker' \in AfterPartial
             /\ rm' = [rm EXCEPT !.partial = TRUE, !.entry = seen]
             /\ UNCHANGED refusals
             /\ GoesTo("scalper")
    <2>1. broker' \in Brokers /\ (broker'.open => broker' = broker)
      BY <1>2, <1>3, ClosedTyped DEF AfterPartial, Reasons
    <2>2. rm' \in Entries /\ rm'.sl = rm.sl /\ rm'.filled = rm.filled
      BY <1>2, <1>3 DEF Entries
    <2>3. /\ pc' = "scalper" /\ seen' \in Prices /\ dist' \in Nat
          /\ current' \in Prices \cup {Unbound}
      BY <1>2, <1>3, GoesToTyped DEF Steps
    <2>4. pc' \in Steps /\ Handling'
      BY <2>3 DEF Steps, Handling
    <2>5. owner # "scalper" =>
              /\ rm'.held => rm'.filled
              /\ rm'.held /\ broker'.open => rm'.sl = broker'.sl
      BY <1>1, <1>2, <2>1, <2>2 DEF Alone
    <2>6. refusals' \in 0..MaxRefusals
      BY <1>2, <1>3
    <2> QED
      BY <1>1, <2>1, <2>2, <2>3, <2>4, <2>5, <2>6, EngineStep
  <1>4. CASE /\ Refused(~PartialWanted \/ ~broker.open)
             /\ UNCHANGED <<broker, rm, seen, current>>
             /\ dist' = TrailDistance
             /\ pc' = "breakeven"
    <2>1. dist' \in Nat /\ refusals' \in 0..MaxRefusals
      BY <1>2, <1>4, TrailDistanceTyped, RefusedTyped
    <2>2. pc' \in Steps /\ Handling'
      BY <1>2, <1>4 DEF Steps, Handling
    <2>3. owner # "scalper" =>
              /\ rm'.held => rm'.filled
              /\ rm'.held /\ broker'.open => rm'.sl = broker'.sl
      BY <1>1, <1>4 DEF Alone
    <2> QED
      BY <1>1, <1>2, <1>4, <2>1, <2>2, <2>3, EngineStep
  <1> QED
    BY <1>3, <1>4 DEF TakesPartial

(* A step that moves the stop, or leaves it as it is.                      *)
LEMMA MovesStopInv ==
    ASSUME IInv, UNCHANGED <<fixed, price, scalp, old, paused, restarts>>,
           pc \notin {"asleep", "scalper"},
           NEW sl \in Int, MovesStop(sl) \/ Leaves,
           NEW step \in Steps, GoesTo(step)
    PROVE  IInv'
  <1>1. TypeOK /\ Alone
    BY DEF IInv
  <1>2. rm \in Entries /\ rm.held
    BY <1>1, ManagedIsEntry
  <1>3. /\ pc' = step /\ seen' \in Prices /\ dist' \in Nat
        /\ current' \in Prices \cup {Unbound}
    BY <1>1, TypeFacts, GoesToTyped
  <1>4. CASE MovesStop(sl)
    <2>1. /\ broker' \in Brokers
          /\ rm' \in Entries /\ rm'.filled = rm.filled
          /\ refusals' \in 0..MaxRefusals
          /\ \/ broker' = broker /\ rm'.sl = rm.sl
             \/ broker'.sl = sl /\ rm'.sl = sl
      BY <1>1, <1>2, <1>4, MovesStopTyped
    <2>2. pc' \in Steps /\ Handling'
      BY <1>3, <2>1 DEF Steps, Handling, Entries
    <2>3. owner # "scalper" =>
              /\ rm'.held => rm'.filled
              /\ rm'.held /\ broker'.open => rm'.sl = broker'.sl
      BY <1>1, <1>2, <2>1 DEF Alone
    <2> QED
      BY <1>3, <2>1, <2>2, <2>3, EngineStep
  <1>5. CASE Leaves
    BY <1>2, <1>3, <1>5, LeavesInv
  <1> QED
    BY <1>4, <1>5

LEMMA MovesToBreakevenInv == ASSUME IInv, MovesToBreakeven PROVE IInv'
  <1>1. TypeOK /\ UNCHANGED <<fixed, price, scalp, old, paused, restarts>>
    BY DEF MovesToBreakeven, At, IInv
  <1>2. rm.entry \in Int
    BY <1>1, ManagedIsEntry, EntryNumbers DEF MovesToBreakeven, At
  <1>3. /\ pc \notin {"asleep", "scalper"} /\ "atr" \in Steps
        /\ MovesStop(rm.entry) \/ Leaves
        /\ GoesTo("atr")
    BY DEF MovesToBreakeven, At, Steps
  <1> QED
    BY <1>1, <1>2, <1>3, MovesStopInv

LEMMA TrailsByAtrInv == ASSUME IInv, TrailsByAtr PROVE IInv'
  <1>1. TypeOK /\ UNCHANGED <<fixed, price, scalp, old, paused, restarts>>
    BY DEF TrailsByAtr, At, IInv
  <1>2. AtrStop \in Int
    <2>1. rm.atr \in Nat
      BY <1>1, ManagedIsEntry, EntryNumbers DEF TrailsByAtr, At
    <2>2. seen \in Int
      BY <1>1, TypeFacts, PricesAssumption
    <2> QED
      BY <2>1, <2>2 DEF AtrStop
  <1>3. /\ pc \notin {"asleep", "scalper"} /\ "bbstop" \in Steps
        /\ MovesStop(AtrStop) \/ Leaves
        /\ GoesTo("bbstop")
    BY DEF TrailsByAtr, At, Steps
  <1> QED
    BY <1>1, <1>2, <1>3, MovesStopInv

LEMMA TrailsByBandInv ==
    ASSUME IInv, NEW sl \in Prices, TrailsByBand(sl) PROVE IInv'
  <1>1. UNCHANGED <<fixed, price, scalp, old, paused, restarts>>
    BY DEF TrailsByBand, At
  <1>2. sl \in Int
    BY PricesAssumption
  <1>3. /\ pc \notin {"asleep", "scalper"} /\ "scalper" \in Steps
        /\ MovesStop(sl) \/ Leaves
        /\ GoesTo("scalper")
    BY DEF TrailsByBand, At, Steps
  <1> QED
    BY <1>1, <1>2, <1>3, MovesStopInv
----------------------------------------------------------------------------
(* The scalper and the restart.                                            *)
LEMMA ScalperMovesStopTyped ==
    ASSUME broker \in Brokers, refusals \in 0..MaxRefusals,
           NEW sl \in Int, ScalperMovesStop(sl)
    PROVE  broker' \in Brokers /\ refusals' \in 0..MaxRefusals
  <1>1. CASE broker' = [broker EXCEPT !.sl = sl] /\ UNCHANGED refusals
    BY <1>1 DEF Brokers
  <1>2. CASE Refused(~TakesStop(sl)) /\ UNCHANGED broker
    BY <1>2, RefusedTyped
  <1> QED
    BY <1>1, <1>2 DEF ScalperMovesStop

LEMMA HeldIsScalp ==
    ASSUME TypeOK, scalp.held PROVE scalp \in Scalps
  BY TypeFacts DEF NoScalp

LEMMA ScalperRunsInv == ASSUME IInv, ScalperRuns PROVE IInv'
  <1>1. TypeOK /\ Alone /\ UNCHANGED <<fixed, price, old, paused, restarts>>
    BY DEF ScalperRuns, IInv
  <1>2. /\ broker \in Brokers /\ refusals \in 0..MaxRefusals
        /\ (rm = NotHeld \/ rm \in Entries)
        /\ price \in Prices /\ price \in Int /\ OpenPrice \in Int
        /\ Buffer \in Nat /\ TrailStep \in Nat
    BY <1>1, TypeFacts, PricesAssumption, DistancesAssumption
  <1>3. /\ broker' \in Brokers /\ refusals' \in 0..MaxRefusals
        /\ (scalp' = NoScalp \/ scalp' \in Scalps)
        /\ ~scalp.held => UNCHANGED broker /\ (scalp' = scalp \/ scalp' = NoScalp)
    <2>1. CASE UNCHANGED <<broker, refusals>> /\ scalp' \in {scalp, NoScalp}
      BY <1>1, <1>2, <2>1, TypeFacts
    <2>2. CASE /\ scalp.held /\ ScalperMovesStop(OpenPrice + Buffer)
               /\ scalp' = [scalp EXCEPT !.sl = OpenPrice + Buffer,
                                         !.breakevenHit = TRUE]
      <3>1. scalp \in Scalps /\ OpenPrice + Buffer \in Int
        BY <1>1, <1>2, <2>2, HeldIsScalp
      <3>2. scalp' \in Scalps
        BY <2>2, <3>1 DEF Scalps
      <3> QED
        BY <1>2, <2>2, <3>1, <3>2, ScalperMovesStopTyped
    <2>3. CASE /\ scalp.held /\ ScalperMovesStop(price - TrailStep)
               /\ scalp' = [scalp EXCEPT !.sl = price - TrailStep,
                                         !.high = price]
      <3>1. scalp \in Scalps /\ price - TrailStep \in Int
        BY <1>1, <1>2, <2>3, HeldIsScalp
      <3>2. scalp' \in Scalps
        BY <1>2, <2>3, <3>1 DEF Scalps
      <3> QED
        BY <1>2, <2>3, <3>1, <3>2, ScalperMovesStopTyped
    <2> QED
      BY <2>1, <2>2, <2>3 DEF ScalperRuns
  <1>4. rm' = NotHeld \/ rm' \in Entries
    BY <1>2, ScalpEntryTyped DEF ScalperRuns
  <1>5. /\ pc' = "asleep" /\ seen' \in Prices /\ dist' \in Nat
        /\ current' \in Prices \cup {Unbound}
    BY <1>1, TypeFacts, GoesToTyped DEF ScalperRuns, Steps
  <1>6. TypeOK'
    <2>1. UNCHANGED <<direction, owner, price, old, paused, restarts>>
      BY <1>1 DEF fixed
    <2>2. pc' \in Steps /\ Handling'
      BY <1>5 DEF Steps, Handling
    <2> QED
      BY <1>1, <1>3, <1>4, <1>5, <2>1, <2>2
         DEF TypeOK, Brokers, Reasons, Scalps, Steps, Handling
  <1>7. Alone'
    <2>1. UNCHANGED owner
      BY <1>1 DEF fixed
    <2>2. CASE owner # "scalper"
      <3>1. scalp = NoScalp /\ ~scalp.held
        BY <1>1, <2>2 DEF Alone, NoScalp
      <3>2. scalp' = NoScalp /\ ~scalp'.held /\ UNCHANGED broker
        BY <1>3, <3>1 DEF NoScalp
      <3>3. UNCHANGED rm
        BY <3>2 DEF ScalperRuns
      <3> QED
        BY <1>1, <2>1, <3>2, <3>3 DEF Alone
    <2>3. CASE owner = "scalper"
      BY <2>1, <2>3 DEF Alone
    <2> QED
      BY <2>2, <2>3
  <1> QED
    BY <1>6, <1>7 DEF IInv

LEMMA RestartsInv == ASSUME IInv, Restarts PROVE IInv'
  <1>1. TypeOK /\ Alone /\ UNCHANGED <<fixed, price, broker, old, paused>>
    BY DEF Restarts, IInv
  <1>2. broker \in Brokers /\ refusals \in 0..MaxRefusals
    BY <1>1, TypeFacts
  <1>3. restarts' \in 0..MaxRestarts /\ scalp' = NoScalp
    <2>1. restarts \in 0..MaxRestarts /\ MaxRestarts \in Nat
      BY <1>1, TypeFacts, DistancesAssumption
    <2> QED
      BY <2>1 DEF Restarts
  <1>4. /\ refusals' \in 0..MaxRefusals
        /\ \/ rm' = NotHeld
           \/ rm' = Entry(broker.sl, 0)
    BY <1>2, RefusedTyped DEF Restarts
  <1>5. /\ rm' = NotHeld \/ rm' \in Entries
        /\ rm'.held => rm'.filled /\ rm'.sl = broker.sl
    <2>1. CASE rm' = NotHeld
      BY <2>1 DEF NotHeld
    <2>2. CASE rm' = Entry(broker.sl, 0)
      <3>1. Entry(broker.sl, 0).filled /\ Entry(broker.sl, 0).sl = broker.sl
        BY DEF Entry
      <3>2. broker.sl \in Int
        BY <1>2 DEF Brokers
      <3> QED
        BY <1>2, <2>2, <3>1, <3>2, EntryTyped
    <2> QED
      BY <1>4, <2>1, <2>2
  <1>6. /\ pc' = "asleep" /\ seen' \in Prices /\ dist' \in Nat
        /\ current' \in Prices \cup {Unbound}
    BY <1>1, TypeFacts, GoesToTyped DEF Restarts, Steps
  <1>7. TypeOK'
    <2>1. UNCHANGED <<direction, owner, price, broker, old, paused>>
      BY <1>1 DEF fixed
    <2>2. pc' \in Steps /\ Handling'
      BY <1>6 DEF Steps, Handling
    <2> QED
      BY <1>1, <1>2, <1>3, <1>4, <1>5, <1>6, <2>1, <2>2
         DEF TypeOK, Brokers, Reasons, Scalps, Steps, Handling
  <1>8. Alone'
    BY <1>1, <1>3, <1>5 DEF Alone, fixed
  <1> QED
    BY <1>7, <1>8 DEF IInv
----------------------------------------------------------------------------
LEMMA StutterInv == ASSUME IInv, UNCHANGED vars PROVE IInv'
  <1>1. UNCHANGED <<direction, owner, price, broker, rm, scalp, pc, seen,
                    current, dist, old, paused, refusals, restarts>>
    BY DEF vars, fixed, locals
  <1>2. /\ broker' \in Brokers /\ (rm' = NotHeld \/ rm' \in Entries)
        /\ (scalp' = NoScalp \/ scalp' \in Scalps) /\ Handling'
    BY <1>1, TypeFacts DEF IInv, Handling
  <1>3. TypeOK'
    BY <1>1, <1>2 DEF IInv, TypeOK, Brokers, Reasons, Scalps, Steps, Handling
  <1>4. Alone'
    BY <1>1 DEF IInv, Alone
  <1> QED
    BY <1>3, <1>4 DEF IInv

LEMMA NextInv == ASSUME IInv, [Next]_vars PROVE IInv'
  <1>1. CASE \E p \in Prices : PriceMoves(p)
    BY <1>1, PriceMovesInv
  <1>2. CASE Ages
    BY <1>2, AgesInv
  <1>3. CASE PausesOrResumes
    BY <1>3, PausesOrResumesInv
  <1>4. CASE Manages
    BY <1>4, ReadsPositionsInv, TrailsTargetInv, OptimizesExitInv,
       ExitsOnTimeInv, TakesPartialInv, MovesToBreakevenInv, TrailsByAtrInv,
       TrailsByBandInv DEF Manages
  <1>5. CASE ScalperRuns
    BY <1>5, ScalperRunsInv
  <1>6. CASE Restarts
    BY <1>6, RestartsInv
  <1>7. CASE UNCHANGED vars
    BY <1>7, StutterInv
  <1> QED
    BY <1>1, <1>2, <1>3, <1>4, <1>5, <1>6, <1>7 DEF Next

LEMMA Inductive == Spec => []IInv
  BY InitInv, NextInv, PTL DEF Spec

(* Every variable holds a value of its kind, whatever the prices, the      *)
(* distances and the number of failures.                                   *)
THEOREM TypeCorrect == Spec => []TypeOK
  <1>1. IInv => TypeOK
    BY DEF IInv
  <1> QED
    BY <1>1, Inductive, PTL

(* The engine's entry of a position no scalper manages has the broker's    *)
(* stop: _manage_existing_positions updates its copy only with the         *)
(* broker's, and start() reads it from there.                              *)
THEOREM CopiesCorrect == Spec => []CopiesAgree
  <1>1. IInv => CopiesAgree
    BY DEF IInv, Alone, CopiesAgree
  <1> QED
    BY <1>1, Inductive, PTL
----------------------------------------------------------------------------
(* What a step does to the stop of a position it leaves open: nothing, or  *)
(* a manager puts it beyond its own copy.                                  *)
Handled == pc \notin {"asleep", "scalper"}

LEMMA EngineMovesUp ==
    ASSUME TypeOK, rm \in Entries, NEW sl \in Int, sl > rm.sl,
           MovesStop(sl) \/ Leaves
    PROVE  broker'.sl = broker.sl \/ (broker.open /\ broker'.sl > rm.sl)
  <1>1. CASE MovesStop(sl)
    <2>1. broker \in Brokers
      BY TypeFacts
    <2> QED
      BY <1>1, <2>1 DEF MovesStop, TakesStop, Brokers
  <1>2. CASE Leaves
    BY <1>2 DEF Leaves
  <1> QED
    BY <1>1, <1>2

LEMMA ManagesStop ==
    ASSUME IInv, Manages, broker'.open
    PROVE  \/ broker'.sl = broker.sl
           \/ Handled /\ broker.open /\ broker'.sl > rm.sl
  <1>1. TypeOK /\ broker \in Brokers
    BY TypeFacts DEF IInv
  <1>2. CASE ReadsPositions
    BY <1>2 DEF ReadsPositions
  <1>3. CASE TrailsTarget
    BY <1>1, <1>3 DEF TrailsTarget, Leaves, Brokers
  <1>4. ASSUME NEW why \in Reasons, ClosesTrade(why)
        PROVE  broker'.sl = broker.sl
    BY <1>1, <1>4, ClosedTyped DEF ClosesTrade
  <1>5. ASSUME NEW c \in Prices \cup {Unbound}, OptimizesExit(c)
        PROVE  broker'.sl = broker.sl
    BY <1>4, <1>5 DEF OptimizesExit, Leaves, Reasons
  <1>6. CASE ExitsOnTime
    BY <1>4, <1>6 DEF ExitsOnTime, Leaves, Reasons
  <1>7. CASE TakesPartial
    BY <1>1, <1>7, ClosedTyped DEF TakesPartial, AfterPartial, Reasons
  <1>8. CASE MovesToBreakeven
    <2>1. Handled /\ rm \in Entries
      BY <1>1, <1>8, ManagedIsEntry DEF MovesToBreakeven, At, Handled
    <2>2. CASE BreakevenWanted /\ MovesStop(rm.entry)
      <3>1. rm.entry \in Int /\ rm.entry > rm.sl
        BY <2>1, <2>2, EntryNumbers DEF BreakevenWanted
      <3> QED
        BY <1>1, <2>1, <2>2, <3>1, EngineMovesUp
    <2>3. CASE Leaves
      BY <2>3 DEF Leaves
    <2> QED
      BY <1>8, <2>2, <2>3 DEF MovesToBreakeven
  <1>9. CASE TrailsByAtr
    <2>1. Handled /\ rm \in Entries
      BY <1>1, <1>9, ManagedIsEntry DEF TrailsByAtr, At, Handled
    <2>2. CASE AtrWanted /\ MovesStop(AtrStop)
      <3>1. AtrStop \in Int
        <4>1. rm.atr \in Nat /\ seen \in Int
          BY <1>1, <2>1, TypeFacts, EntryNumbers, PricesAssumption
        <4> QED
          BY <4>1 DEF AtrStop
      <3>2. AtrStop > rm.sl
        BY <2>2 DEF AtrWanted
      <3> QED
        BY <1>1, <2>1, <2>2, <3>1, <3>2, EngineMovesUp
    <2>3. CASE Leaves
      BY <2>3 DEF Leaves
    <2> QED
      BY <1>9, <2>2, <2>3 DEF TrailsByAtr
  <1>10. ASSUME NEW sl \in Prices, TrailsByBand(sl)
         PROVE  \/ broker'.sl = broker.sl
                \/ Handled /\ broker.open /\ broker'.sl > rm.sl
    <2>1. Handled /\ rm \in Entries
      BY <1>1, <1>10, ManagedIsEntry DEF TrailsByBand, At, Handled
    <2>2. CASE BandWanted(sl) /\ MovesStop(sl)
      <3>1. sl \in Int /\ sl > rm.sl
        BY <2>2, PricesAssumption DEF BandWanted
      <3> QED
        BY <1>1, <2>1, <2>2, <3>1, EngineMovesUp
    <2>3. CASE Leaves
      BY <2>3 DEF Leaves
    <2> QED
      BY <1>10, <2>2, <2>3 DEF TrailsByBand
  <1> QED
    BY <1>2, <1>3, <1>5, <1>6, <1>7, <1>8, <1>9, <1>10 DEF Manages

LEMMA ScalperStop ==
    ASSUME IInv, ScalperRuns
    PROVE  /\ pc = "scalper"
           /\ \/ broker'.sl = broker.sl
              \/ scalp.sl \in Int /\ broker'.sl > scalp.sl
  <1>1. TypeOK /\ broker \in Brokers /\ price \in Int /\ OpenPrice \in Int
        /\ Buffer \in Nat /\ TrailStep \in Nat
    BY TypeFacts, PricesAssumption, DistancesAssumption DEF IInv
  <1>2. CASE UNCHANGED broker
    BY <1>2 DEF ScalperRuns
  <1>3. CASE /\ scalp.held /\ ScalpAtBreakeven
             /\ ScalperMovesStop(OpenPrice + Buffer)
    <2>1. scalp.sl \in Int
      BY <1>1, <1>3, HeldIsScalp DEF Scalps
    <2>2. OpenPrice + Buffer > scalp.sl
      BY <1>1, <1>3, <2>1 DEF ScalpAtBreakeven
    <2> QED
      BY <1>1, <1>3, <2>1, <2>2 DEF ScalperMovesStop, ScalperRuns, Brokers
  <1>4. CASE /\ scalp.held /\ ScalpTrails
             /\ ScalperMovesStop(price - TrailStep)
    <2>1. scalp.sl \in Int
      BY <1>1, <1>4, HeldIsScalp DEF Scalps
    <2>2. price - TrailStep > scalp.sl
      BY <1>4 DEF ScalpTrails
    <2> QED
      BY <1>1, <1>4, <2>1, <2>2 DEF ScalperMovesStop, ScalperRuns, Brokers
  <1> QED
    BY <1>2, <1>3, <1>4 DEF ScalperRuns

(* _manage_existing_positions and the scalper's _manage_trailing_stops     *)
(* each compare the new stop with their own copy: only a stale copy makes  *)
(* either of them loosen the stop at the broker.                           *)
THEOREM StopsTighten == Spec => OnlyStaleCopiesLoosen
  <1> DEFINE A == broker'.open /\ broker'.sl < broker.sl =>
                     \/ pc = "scalper" /\ scalp.sl # broker.sl
                     \/ pc # "scalper" /\ owner = "scalper" /\ rm.sl # broker.sl
  <1>1. ASSUME IInv, [Next]_vars PROVE [A]_vars
    <2> SUFFICES ASSUME broker'.open, broker'.sl < broker.sl, Next PROVE A
      BY <1>1
    <2>1. TypeOK /\ Alone /\ broker \in Brokers /\ broker.sl \in Int
      BY <1>1, TypeFacts DEF IInv, Brokers
    <2>2. IInv'
      BY <1>1, NextInv
    <2>3. broker'.sl \in Int /\ broker'.sl # broker.sl
      BY <2>1, <2>2, TypeFacts, NextInv DEF IInv, TypeOK
    <2>4. CASE Manages
      <3>1. Handled /\ broker.open /\ broker'.sl > rm.sl
        BY <1>1, <2>3, <2>4, ManagesStop
      <3>2. rm \in Entries /\ rm.held /\ rm.sl \in Int
        BY <2>1, <3>1, ManagedIsEntry, EntryNumbers DEF Handled
      <3>3. rm.sl # broker.sl
        BY <2>1, <2>3, <3>1, <3>2
      <3>4. owner = "scalper"
        BY <2>1, <3>1, <3>2, <3>3 DEF Alone
      <3> QED
        BY <3>1, <3>3, <3>4 DEF Handled
    <2>5. CASE ScalperRuns
      <3>1. pc = "scalper" /\ scalp.sl \in Int /\ broker'.sl > scalp.sl
        BY <1>1, <2>3, <2>5, ScalperStop
      <3> QED
        BY <2>1, <2>3, <3>1
    <2>6. CASE \E p \in Prices : PriceMoves(p)
      BY <2>1, <2>3, <2>6, ClosedTyped DEF PriceMoves, Reasons
    <2>7. CASE Ages \/ PausesOrResumes \/ Restarts
      BY <2>3, <2>7 DEF Ages, PausesOrResumes, Restarts
    <2> QED
      BY <2>4, <2>5, <2>6, <2>7 DEF Next
  <1> QED
    BY <1>1, Inductive, PTL DEF Spec, OnlyStaleCopiesLoosen
----------------------------------------------------------------------------
(* How a step closes the position, and for which reason.                   *)
Lives == broker'.open = broker.open /\ broker'.reason = broker.reason
EndsOtherwise == ~broker'.open /\ broker'.reason # "TIME_EXIT"
EndsOnTime == ~broker'.open /\ pc = "time" /\ ~Spared

LEMMA HowItEnds ==
    ASSUME IInv, [Next]_vars PROVE Lives \/ EndsOtherwise \/ EndsOnTime
  <1> USE DEF Lives, EndsOtherwise, EndsOnTime
  <1>1. broker \in Brokers
    BY TypeFacts DEF IInv
  <1>2. ASSUME NEW sl \in Int, MovesStop(sl) \/ ScalperMovesStop(sl) PROVE Lives
    BY <1>1, <1>2 DEF MovesStop, ScalperMovesStop, Brokers
  <1>3. CASE UNCHANGED vars \/ Ages \/ PausesOrResumes \/ Restarts \/ ReadsPositions
    BY <1>3 DEF vars, Ages, PausesOrResumes, Restarts, ReadsPositions
  <1>4. CASE \E p \in Prices : PriceMoves(p)
    BY <1>1, <1>4, ClosedTyped DEF PriceMoves, Reasons
  <1>5. CASE TrailsTarget
    BY <1>1, <1>5 DEF TrailsTarget, Leaves, Brokers
  <1>6. CASE \E c \in Prices \cup {Unbound} : OptimizesExit(c)
    BY <1>1, <1>6, ClosedTyped DEF OptimizesExit, ClosesTrade, Leaves, Reasons
  <1>7. CASE ExitsOnTime
    BY <1>1, <1>7, ClosedTyped DEF ExitsOnTime, At, ClosesTrade, Leaves, Reasons
  <1>8. CASE TakesPartial
    BY <1>1, <1>8, ClosedTyped DEF TakesPartial, AfterPartial, Reasons
  <1>9. CASE UNCHANGED broker
    BY <1>9
  <1>10. CASE \E sl : MovesStop(sl) \/ ScalperMovesStop(sl)
    BY <1>1, <1>10 DEF MovesStop, ScalperMovesStop, Brokers
  <1>11. ASSUME MovesToBreakeven \/ TrailsByAtr \/ ScalperRuns
                \/ \E sl \in Prices : TrailsByBand(sl)
         PROVE  UNCHANGED broker \/ \E sl : MovesStop(sl) \/ ScalperMovesStop(sl)
    BY <1>11 DEF MovesToBreakeven, TrailsByAtr, TrailsByBand, ScalperRuns, Leaves
  <1> QED
    BY <1>3, <1>4, <1>5, <1>6, <1>7, <1>8, <1>9, <1>10, <1>11 DEF Next, Manages

OpenUnjudged == broker.open => broker.reason # "TIME_EXIT"

LEMMA OpenInv == Spec => []OpenUnjudged
  <1>1. Init => OpenUnjudged
    BY DEF Init, OpenUnjudged
  <1>2. IInv /\ OpenUnjudged /\ [Next]_vars => OpenUnjudged'
    BY HowItEnds DEF OpenUnjudged, Lives, EndsOtherwise, EndsOnTime
  <1> QED
    BY <1>1, <1>2, Inductive, PTL DEF Spec

(* The time exit takes a position out in profit by its first risk only     *)
(* when its stop or its entry was moved, or when the price it was judged   *)
(* by was not its own: _manage_existing_positions compares the local       *)
(* current with rm_pos's entry and stop.                                   *)
THEOREM TimeExitsLosers == Spec => WinnersForcedOut
  <1> DEFINE A == /\ broker'.reason = "TIME_EXIT" /\ broker.open
                  /\ seen >= OpenPrice + Risk
                  => rm.sl # Stop \/ rm.entry # OpenPrice \/ current # seen
  <1>1. ASSUME IInv, OpenUnjudged, [Next]_vars PROVE [A]_vars
    <2> SUFFICES ASSUME broker'.reason = "TIME_EXIT", broker.open,
                        seen >= OpenPrice + Risk,
                        rm.sl = Stop, rm.entry = OpenPrice, current = seen
                 PROVE  FALSE
      OBVIOUS
    <2>1. ~Spared
      BY <1>1, HowItEnds DEF OpenUnjudged, Lives, EndsOtherwise, EndsOnTime
    <2>2. /\ seen \in Int /\ OpenPrice \in Int /\ Stop \in Int /\ Stop < OpenPrice
          /\ Stop # NoStop
      <3>1. seen \in Prices
        BY <1>1, TypeFacts DEF IInv
      <3>2. /\ OpenPrice \in Int /\ Stop \in Int /\ Stop < OpenPrice
            /\ Stop # NoStop
        BY PricesAssumption
      <3>3. seen \in Int
        BY <3>1, PricesAssumption
      <3> QED
        BY <3>2, <3>3
    <2> QED
      BY <2>1, <2>2 DEF Spared, TimeDistance, Risk
  <1> QED
    BY <1>1, Inductive, OpenInv, PTL DEF Spec, WinnersForcedOut
=============================================================================
