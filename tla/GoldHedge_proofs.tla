-------------------------- MODULE GoldHedge_proofs --------------------------
(***************************************************************************)
(* Theorems about GoldHedge, for all progressions, distances and bounds:   *)
(* its type invariant, what the book says of the account, and what a       *)
(* position outside the basket and a level without a position are paid for *)
(* with.                                                                   *)
(*                                                                         *)
(* The invariants of the book hold whatever the profit of a basket is; the *)
(* type of its peak needs that the profit is a number, which is proved by  *)
(* induction over the levels.                                              *)
(***************************************************************************)
EXTENDS GoldHedge, FiniteSetTheorems, SequenceTheorems, WellFoundedInduction,
        TLAPS

Orders == [direction : Directions, lots : Nat]

(* The levels that a close under way has not come to.                      *)
Pending == {Level(k).ticket : k \in next..Size}

Typed ==
    /\ pc \in {"idle", "opening", "hedging", "closing"}
    /\ direction \in Directions
    /\ basket = [levels |-> basket.levels, peak |-> basket.peak,
                 frozen |-> basket.frozen]
    /\ basket.levels \in Seq(Levels) /\ Size <= MaxLevels
    /\ next \in Nat \ {0} /\ closed \in BOOLEAN
    /\ sent \in Seq(Orders) /\ open \subseteq 1..Len(sent)
    /\ faults \in Nat /\ outside \in Nat /\ restarts \in Nat /\ refused \in Nat

(* What the step of a tick that comes next relies on.                      *)
InTick ==
    /\ pc = "opening" => ~Active
    /\ pc = "hedging" => Active /\ direction = Opposite(Last.direction)
    /\ pc # "closing" => next = 1 /\ ~closed

(* Tickets are given out in order, so that levels have different ones.     *)
Ticketed ==
    /\ \A k \in 1..Size : Level(k).ticket \in 1..Len(sent)
    /\ \A j, k \in 1..Size : j < k => Level(j).ticket < Level(k).ticket

Counted ==
    /\ Cardinality(open \ Pending) <= refused + faults + restarts * MaxLevels
    /\ Cardinality(Pending \ open) <= outside
    /\ ~closed => Cardinality(Managed \ open) <= outside

(* As far as the progression goes both rules give a level the same lots,   *)
(* and a level beyond it is at first off by one half of a hundredth.       *)
Within(k, ordered, booked) ==
    /\ k <= Len(Progression) => booked = ordered
    /\ k = Len(Progression) + 1 /\ LotMultiplier = 150 =>
           Distance(ordered, booked) <= 1

Booked ==
    \A k \in 1..Size :
        /\ k <= Len(Progression) => Level(k).lots = Entry(k)
        /\ sent[Level(k).ticket].direction = Level(k).direction
        /\ Within(k, sent[Level(k).ticket].lots, Level(k).lots)

IInv == Typed /\ InTick /\ Ticketed /\ Counted /\ Booked

----------------------------------------------------------------------------
(* Helpers.                                                                *)

LEMMA TicketSets ==
    ASSUME NEW n \in Nat, NEW S, S \subseteq 1..n
    PROVE  IsFiniteSet(S) /\ Cardinality(S) \in Nat
  <1>1. IsFiniteSet(1..n)
    BY FS_Interval
  <1>2. IsFiniteSet(S)
    BY <1>1, FS_Subset
  <1> QED
    BY <1>2, FS_CardinalityType

LEMMA NoMore ==
    ASSUME NEW n \in Nat, NEW S, NEW T, S \subseteq T, T \subseteq 1..n
    PROVE  Cardinality(S) <= Cardinality(T)
  BY TicketSets, FS_Subset

LEMMA OneMore ==
    ASSUME NEW n \in Nat, NEW S, NEW T, NEW t, S \subseteq T \cup {t},
           T \subseteq 1..n
    PROVE  Cardinality(S) <= Cardinality(T) + 1
  <1>1. IsFiniteSet(T) /\ Cardinality(T) \in Nat
    BY TicketSets
  <1>2. /\ IsFiniteSet(T \cup {t})
        /\ Cardinality(T \cup {t}) <= Cardinality(T) + 1
    <2>1. /\ IsFiniteSet(T \cup {t})
          /\ Cardinality(T \cup {t}) =
                 IF t \in T THEN Cardinality(T) ELSE Cardinality(T) + 1
      BY <1>1, FS_AddElement
    <2>2. CASE t \in T
      BY <1>1, <2>1, <2>2
    <2>3. CASE t \notin T
      BY <1>1, <2>1, <2>3
    <2> QED
      BY <2>2, <2>3
  <1>3. /\ Cardinality(S) <= Cardinality(T \cup {t})
        /\ Cardinality(S) \in Nat /\ Cardinality(T \cup {t}) \in Nat
    BY <1>2, FS_Subset, FS_CardinalityType
  <1> QED
    BY <1>1, <1>2, <1>3

LEMMA LotsTyped ==
    /\ \A k \in Nat \ {0} : OrderedLots(k) \in Nat
    /\ Typed /\ Active => \A lots \in BookedLots : lots \in Nat
    /\ Entry(1) \in Nat /\ OrderedLots(1) = Entry(1)
  <1>1. /\ Progression \in Seq(Nat \ {0}) /\ Len(Progression) \in Nat \ {0}
        /\ \A k \in 1..Len(Progression) : Progression[k] \in Nat \ {0}
    BY ProgressionAssumption
  <1>2. \A k \in 1..Len(Progression) : Entry(k) \in Nat
    BY <1>1 DEF Entry
  <1>3. ASSUME Typed, Active, NEW lots \in BookedLots PROVE lots \in Nat
    <2>1. Size \in Nat \ {0} /\ Last \in Levels
      BY <1>3 DEF Typed, Active, Size, Last
    <2>2. Last.lots * LotMultiplier \in Nat
      <3>1. Last.lots \in Nat /\ LotMultiplier \in Nat
        BY <2>1, ProgressionAssumption DEF Levels
      <3> QED
        BY <3>1
    <2>3. \A x \in Nat : \A half \in {99, 100} : 2 * ((x + half) \div 200) \in Nat
      OBVIOUS
    <2>4. CASE Size < Len(Progression)
      <3>1. lots = Entry(Size + 1) /\ Size + 1 \in 1..Len(Progression)
        BY <1>1, <1>3, <2>1, <2>4 DEF BookedLots
      <3> QED
        BY <1>2, <3>1
    <2>5. CASE ~(Size < Len(Progression))
      <3>1. PICK half \in {99, 100} :
                lots = 2 * ((Last.lots * LotMultiplier + half) \div 200)
        BY <1>3, <2>5 DEF BookedLots
      <3> QED
        BY <2>2, <2>3, <3>1
    <2> QED
      BY <2>4, <2>5
  <1>4. \A k \in Nat \ {0} : OrderedLots(k) \in Nat
    <2>1. 3 * Progression[Len(Progression)] \in Nat
      BY <1>1
    <2> QED
      BY <1>1, <1>2, <2>1 DEF OrderedLots
  <1>5. Entry(1) \in Nat /\ OrderedLots(1) = Entry(1)
    BY <1>1, <1>2 DEF OrderedLots
  <1> QED
    BY <1>3, <1>4, <1>5

(* Half again as much as a whole number of hundredths, with a tie broken   *)
(* either way.                                                             *)
LEMMA HalfAgain ==
    ASSUME NEW n \in Nat, NEW half \in {99, 100}
    PROVE  LET b == 2 * (((2 * n) * 150 + half) \div 200)
           IN  b \in 3 * n - 1..3 * n + 1
  <1> DEFINE q == (300 * n + half) \div 200
  <1>1. (2 * n) * 150 + half = 300 * n + half /\ half \in Nat
    OBVIOUS
  <1>2. q \in Int /\ 200 * q <= 300 * n + half /\ 300 * n + half < 200 * q + 200
    OBVIOUS
  <1> HIDE DEF q
  <1>3. 2 * q \in 3 * n - 1..3 * n + 1
    BY <1>1, <1>2
  <1> QED
    BY <1>1, <1>3 DEF q

(* What the book and the account say of the next level.                    *)
LEMMA LotsWithin ==
    ASSUME Typed, Active, Booked, NEW lots \in BookedLots
    PROVE  /\ Size + 1 <= Len(Progression) => lots = Entry(Size + 1)
           /\ Within(Size + 1, OrderedLots(Size + 1), lots)
  <1>1. /\ Size \in Nat \ {0} /\ Len(Progression) \in Nat \ {0}
        /\ \A k \in 1..Len(Progression) : Progression[k] \in Nat
    BY ProgressionAssumption DEF Typed, Active, Size
  <1>2. CASE Size < Len(Progression)
    <2>1. lots = Entry(Size + 1) /\ OrderedLots(Size + 1) = Entry(Size + 1)
      BY <1>1, <1>2 DEF BookedLots, OrderedLots
    <2>2. Size + 1 # Len(Progression) + 1
      BY <1>1, <1>2
    <2> QED
      BY <2>1, <2>2 DEF Within
  <1>3. CASE Size = Len(Progression) /\ LotMultiplier = 150
    <2> DEFINE n == Progression[Size]
    <2>1. Last.lots = 2 * n /\ n \in Nat
      <3>1. Level(Size).lots = Entry(Size)
        BY <1>1, <1>3 DEF Booked
      <3> QED
        BY <1>1, <1>3, <3>1 DEF Last, Level, Entry
    <2>2. OrderedLots(Size + 1) = 3 * n
      BY <1>1, <1>3 DEF OrderedLots
    <2>3. PICK half \in {99, 100} :
              lots = 2 * ((Last.lots * LotMultiplier + half) \div 200)
      BY <1>1, <1>3 DEF BookedLots
    <2> HIDE DEF n
    <2>4. lots = 2 * (((2 * n) * 150 + half) \div 200)
      BY <1>3, <2>1, <2>3
    <2>5. lots \in 3 * n - 1..3 * n + 1
      BY <2>1, <2>4, HalfAgain
    <2>6. Distance(3 * n, lots) <= 1
      BY <2>1, <2>5 DEF Distance
    <2>7. ~(Size + 1 <= Len(Progression))
      BY <1>1, <1>3
    <2> QED
      BY <2>2, <2>6, <2>7 DEF Within
  <1>4. CASE ~(Size < Len(Progression)) /\ ~(Size = Len(Progression) /\ LotMultiplier = 150)
    <2>1. ~(Size + 1 <= Len(Progression))
      BY <1>1, <1>4
    <2>2. ~(Size + 1 = Len(Progression) + 1 /\ LotMultiplier = 150)
      BY <1>1, <1>4
    <2> QED
      BY <2>1, <2>2 DEF Within
  <1> QED
    BY <1>2, <1>3, <1>4

LEMMA Subsets ==
    ASSUME Typed, Ticketed
    PROVE  /\ Len(sent) \in Nat /\ Size \in Nat
           /\ Pending \subseteq Managed /\ Managed \subseteq 1..Len(sent)
           /\ next = 1 => Pending = Managed
           /\ open \subseteq 1..Len(sent)
  <1>1. Len(sent) \in Nat /\ Size \in Nat /\ next \in Nat \ {0}
    BY DEF Typed, Size
  <1> QED
    BY <1>1 DEF Typed, Ticketed, Pending, Managed

LEMMA InitIInv == Init => IInv
  <1> SUFFICES ASSUME Init PROVE IInv
    OBVIOUS
  <1>1. /\ pc = "idle" /\ direction = "BUY" /\ next = 1 /\ closed = FALSE
        /\ basket = NoBasket /\ sent = <<>> /\ open = {}
        /\ faults = 0 /\ outside = 0 /\ restarts = 0 /\ refused = 0
    BY DEF Init
  <1>2. basket.levels = <<>> /\ Size = 0 /\ Managed = {} /\ Pending = {}
    BY <1>1 DEF NoBasket, Size, Managed, Pending
  <1>3. Typed
    <2>1. MaxLevels \in Nat
      BY ProgressionAssumption
    <2>2. /\ basket = [levels |-> basket.levels, peak |-> basket.peak,
                       frozen |-> basket.frozen]
          /\ basket.levels \in Seq(Levels)
      BY <1>1 DEF NoBasket
    <2>3. sent \in Seq(Orders) /\ open \subseteq 1..Len(sent)
      BY <1>1
    <2>4. /\ pc \in {"idle", "opening", "hedging", "closing"}
          /\ direction \in Directions
          /\ next \in Nat \ {0} /\ Size <= MaxLevels
      BY <1>1, <1>2, <2>1 DEF Directions
    <2>6. closed \in BOOLEAN
      BY <1>1
    <2>5. faults \in Nat /\ outside \in Nat /\ restarts \in Nat /\ refused \in Nat
      BY <1>1
    <2> QED
      BY <2>2, <2>3, <2>4, <2>5, <2>6 DEF Typed
  <1>4. InTick /\ Ticketed /\ Booked
    BY <1>1, <1>2 DEF InTick, Ticketed, Booked, Active
  <1>5. Counted
    <2>1. open \ Pending = {} /\ Pending \ open = {} /\ Managed \ open = {}
      BY <1>1, <1>2
    <2>2. Cardinality({}) = 0
      BY FS_EmptySet
    <2>3. MaxLevels \in Nat
      BY ProgressionAssumption
    <2>4. refused + faults + restarts * MaxLevels = 0 /\ outside = 0
      BY <1>1, <2>3
    <2>5. /\ Cardinality(open \ Pending) = 0
          /\ Cardinality(Pending \ open) = 0
          /\ Cardinality(Managed \ open) = 0
      BY <2>1, <2>2
    <2> QED
      BY <2>4, <2>5 DEF Counted
  <1> QED
    BY <1>3, <1>4, <1>5 DEF IInv

----------------------------------------------------------------------------
(* The steps.                                                              *)

(* What a step that touches neither the levels nor the account preserves.  *)
LEMMA Frame ==
    ASSUME Typed, Ticketed, Counted, Booked,
           basket'.levels = basket.levels, UNCHANGED <<next, closed, sent, open>>,
           UNCHANGED <<outside, restarts, refused>>,
           faults' \in Nat, faults' >= faults
    PROVE  Ticketed' /\ Counted' /\ Booked'
  <1>1. Size' = Size /\ (\A k : Level(k)' = Level(k))
    BY DEF Size, Level
  <1>2. Pending' = Pending /\ Managed' = Managed
    BY <1>1 DEF Pending, Managed
  <1>3. Ticketed'
    BY <1>1 DEF Ticketed
  <1>4. Booked'
    BY <1>1 DEF Booked
  <1>5. Counted'
    <2>1. Cardinality(open \ Pending) \in Nat
      BY Subsets, TicketSets
    <2>2. restarts * MaxLevels \in Nat
      BY ProgressionAssumption DEF Typed
    <2>3. Cardinality(open \ Pending)
              <= refused + faults + restarts * MaxLevels
      BY DEF Counted
    <2>4. refused \in Nat /\ faults \in Nat
      BY DEF Typed
    <2>5. Cardinality(open \ Pending)
              <= refused + faults' + restarts * MaxLevels
      BY <2>1, <2>2, <2>3, <2>4
    <2> QED
      BY <1>2, <2>5 DEF Counted
  <1> QED
    BY <1>3, <1>4, <1>5

LEMMA JudgedKeepsLevels ==
    ASSUME Typed, NEW p
    PROVE  /\ Judged(p).levels = basket.levels
           /\ Judged(p) = [levels |-> Judged(p).levels, peak |-> Judged(p).peak,
                           frozen |-> Judged(p).frozen]
  <1> DEFINE b == basket
  <1>1. b = [levels |-> b.levels, peak |-> b.peak, frozen |-> b.frozen]
    BY DEF Typed
  <1>2. CASE Freezes(p)
    <2>1. ShouldClose(p)
      BY <1>2 DEF ShouldClose
    <2>2. Judged(p) = [basket EXCEPT !.frozen = TRUE]
      BY <1>2, <2>1 DEF Judged
    <2> QED
      BY <1>1, <2>2
  <1>3. CASE ~Freezes(p) /\ ~ShouldClose(p) /\ Trails(p) /\ p > basket.peak
    <2>1. Judged(p) = [basket EXCEPT !.peak = p]
      BY <1>3 DEF Judged
    <2> QED
      BY <1>1, <2>1
  <1>4. CASE ~Freezes(p) /\ ~(~ShouldClose(p) /\ Trails(p) /\ p > basket.peak)
    <2>1. Judged(p) = basket
      BY <1>4 DEF Judged
    <2> QED
      BY <1>1, <2>1
  <1> QED
    BY <1>2, <1>3, <1>4

LEMMA OppositeTyped == \A d : Opposite(d) \in Directions
  BY DEF Opposite, Directions

LEMMA AnalyzeStep == IInv /\ Analyze => IInv'
  <1> SUFFICES ASSUME IInv, Analyze PROVE IInv'
    OBVIOUS
  <1>1. /\ Typed /\ InTick /\ Ticketed /\ Counted /\ Booked
        /\ pc = "idle" /\ Active /\ basket' = Judged(Pnl)
        /\ UNCHANGED <<next, closed, sent, open, faults, outside, restarts, refused>>
    BY DEF IInv, Analyze, account, counters, tick
  <1>2. /\ basket'.levels = basket.levels
        /\ basket' = [levels |-> basket'.levels, peak |-> basket'.peak,
                      frozen |-> basket'.frozen]
    BY <1>1, JudgedKeepsLevels
  <1>3. Ticketed' /\ Counted' /\ Booked'
    <2>1. faults' \in Nat /\ faults' >= faults
      BY <1>1 DEF Typed
    <2> QED
      BY <1>1, <1>2, <2>1, Frame
  <1>4. \/ pc' = "closing" /\ direction' = direction
        \/ pc' = "hedging" /\ direction' = Opposite(Last.direction)
        \/ pc' = "idle" /\ direction' = direction
    BY <1>1 DEF Analyze, tick
  <1>5. Active' /\ Last' = Last /\ Size' = Size
    BY <1>1, <1>2 DEF Active, Last, Size
  <1>6. Typed'
    <2>1. /\ pc' \in {"idle", "opening", "hedging", "closing"}
          /\ direction' \in Directions
      BY <1>1, <1>4, OppositeTyped DEF Typed
    <2> QED
      BY <1>1, <1>2, <1>5, <2>1 DEF Typed
  <1>7. InTick'
    BY <1>1, <1>4, <1>5 DEF InTick
  <1> QED
    BY <1>3, <1>6, <1>7 DEF IInv

LEMMA QuietSteps ==
    ASSUME IInv, \/ \E d \in Directions : FirstEntry(d)
                 \/ (\E p \in Prices : Move(p)) \/ PauseTurns
    PROVE  IInv'
  <1>1. /\ Typed /\ InTick /\ Ticketed /\ Counted /\ Booked
        /\ UNCHANGED <<basket, next, closed, sent, open>>
        /\ UNCHANGED <<faults, outside, restarts, refused>>
    BY DEF IInv, FirstEntry, Move, PauseTurns, account, counters, tick
  <1>2. \/ /\ pc = "idle" /\ pc' = "opening"
           /\ direction' \in Directions /\ ~Active
        \/ UNCHANGED <<pc, direction>>
    BY DEF FirstEntry, Move, PauseTurns, MayEnter, tick
  <1>3. Ticketed' /\ Counted' /\ Booked'
    <2>1. faults' \in Nat /\ faults' >= faults
      BY <1>1 DEF Typed
    <2> QED
      BY <1>1, <2>1, Frame
  <1>4. Active' = Active /\ Last' = Last /\ Size' = Size
    BY <1>1 DEF Active, Last, Size
  <1>5. Typed'
    BY <1>1, <1>2, <1>4 DEF Typed
  <1>6. InTick'
    BY <1>1, <1>2, <1>4 DEF InTick
  <1> QED
    BY <1>3, <1>5, <1>6 DEF IInv

(* An executed order: a new ticket, and the entries of the old ones stay.  *)
LEMMA Executed ==
    ASSUME Typed, NEW lots \in Nat, Executes(lots)
    PROVE  /\ Len(sent) \in Nat /\ Len(sent') = Len(sent) + 1
           /\ sent' \in Seq(Orders) /\ open' \subseteq 1..Len(sent')
           /\ open' = open \cup {Len(sent) + 1} /\ Len(sent) + 1 \notin open
           /\ \A t \in 1..Len(sent) : sent'[t] = sent[t]
           /\ sent'[Len(sent) + 1] = [direction |-> direction, lots |-> lots]
  <1> DEFINE o == [direction |-> direction, lots |-> lots]
  <1>1. sent \in Seq(Orders) /\ open \subseteq 1..Len(sent) /\ o \in Orders
    BY DEF Typed, Orders
  <1>2. sent' = Append(sent, o) /\ open' = open \cup {Len(sent) + 1}
    BY DEF Executes
  <1>3. sent'[Len(sent) + 1] = [direction |-> direction, lots |-> lots]
    BY <1>1, <1>2
  <1> HIDE DEF o
  <1>4. /\ Len(sent) \in Nat /\ Len(sent') = Len(sent) + 1
        /\ sent' \in Seq(Orders)
        /\ \A t \in 1..Len(sent) : sent'[t] = sent[t]
    BY <1>1, <1>2
  <1>5. Len(sent) + 1 \notin open /\ open' \subseteq 1..Len(sent')
    <2>1. \A n \in Nat : /\ n + 1 \notin 1..n
                         /\ 1..n \cup {n + 1} \subseteq 1..(n + 1)
      OBVIOUS
    <2> QED
      BY <1>1, <1>2, <1>4, <2>1
  <1> QED
    BY <1>2, <1>3, <1>4, <1>5

LEMMA Directed ==
    ASSUME Typed, NEW k \in 1..Size
    PROVE  Level(k) \in Levels
  BY DEF Typed, Size, Level

(* The numbers that Counted compares.                                      *)
LEMMA Numbers ==
    ASSUME Typed, Ticketed
    PROVE  /\ Cardinality(open \ Pending) \in Nat
           /\ Cardinality(Pending \ open) \in Nat
           /\ Cardinality(Managed \ open) \in Nat
           /\ faults \in Nat /\ outside \in Nat /\ restarts \in Nat /\ refused \in Nat
           /\ restarts * MaxLevels \in Nat
  <1>1. /\ Len(sent) \in Nat /\ Pending \subseteq 1..Len(sent)
        /\ Managed \subseteq 1..Len(sent) /\ open \subseteq 1..Len(sent)
    BY Subsets
  <1>2. /\ open \ Pending \subseteq 1..Len(sent)
        /\ Pending \ open \subseteq 1..Len(sent)
        /\ Managed \ open \subseteq 1..Len(sent)
    BY <1>1
  <1>3. faults \in Nat /\ outside \in Nat /\ restarts \in Nat /\ refused \in Nat
    BY DEF Typed
  <1>4. restarts * MaxLevels \in Nat
    BY <1>3, ProgressionAssumption
  <1> QED
    BY <1>1, <1>2, <1>3, <1>4, TicketSets

(* A fill that no basket takes.                                            *)
LEMMA Strayed ==
    ASSUME Typed, Ticketed, Counted, Booked,
           NEW lots \in Nat, Executes(lots),
           UNCHANGED <<basket, next, closed, outside, restarts>>,
           refused' + faults' = refused + faults + 1,
           refused' \in Nat, faults' \in Nat
    PROVE  Ticketed' /\ Counted' /\ Booked'
  <1>1. Size' = Size /\ (\A k : Level(k)' = Level(k))
    BY DEF Size, Level
  <1>2. Pending' = Pending /\ Managed' = Managed
    BY <1>1 DEF Pending, Managed
  <1>3. Len(sent) \in Nat /\ Len(sent') = Len(sent) + 1
    BY Executed
  <1>4. Ticketed'
    <2>1. \A n \in Nat : 1..n \subseteq 1..(n + 1)
      OBVIOUS
    <2>2. 1..Len(sent) \subseteq 1..Len(sent')
      BY <1>3, <2>1, Zenon
    <2>3. \A k \in 1..Size : Level(k).ticket \in 1..Len(sent')
      BY <2>2 DEF Ticketed
    <2>4. \A j, k \in 1..Size : j < k => Level(j).ticket < Level(k).ticket
      BY DEF Ticketed
    <2> QED
      BY <1>1, <2>3, <2>4, Zenon DEF Ticketed
  <1>5. Booked'
    <2>1. \A k \in 1..Size : sent'[Level(k).ticket] = sent[Level(k).ticket]
      BY Executed DEF Ticketed
    <2> QED
      BY <1>1, <2>1 DEF Booked
  <1>6. Counted'
    <2>1. /\ open' = open \cup {Len(sent) + 1}
          /\ Pending \subseteq 1..Len(sent) /\ Managed \subseteq 1..Len(sent)
          /\ open \subseteq 1..Len(sent)
      BY Executed, Subsets
    <2>2. open' \ Pending \subseteq (open \ Pending) \cup {Len(sent) + 1}
      BY <2>1
    <2>3. Cardinality(open' \ Pending) <= Cardinality(open \ Pending) + 1
      BY <1>3, <2>1, <2>2, OneMore
    <2>4. /\ Cardinality(Pending \ open') <= Cardinality(Pending \ open)
          /\ Cardinality(Managed \ open') <= Cardinality(Managed \ open)
      BY <1>3, <2>1, NoMore
    <2>5. /\ Cardinality(open \ Pending) \in Nat
          /\ Cardinality(open' \ Pending) \in Nat
          /\ Cardinality(Pending \ open) \in Nat
          /\ Cardinality(Pending \ open') \in Nat
          /\ Cardinality(Managed \ open) \in Nat
          /\ Cardinality(Managed \ open') \in Nat
      <3>1. /\ open' \ Pending \subseteq 1..Len(sent')
            /\ Len(sent') \in Nat
        <4>1. open' \subseteq 1..Len(sent') /\ Len(sent') \in Nat
          <5>1. Len(sent') \in Nat
            BY <1>3
          <5>2. open' \subseteq 1..Len(sent')
            BY Executed
          <5> QED
            BY <5>1, <5>2
        <4> QED
          BY <4>1
      <3>2. Cardinality(open' \ Pending) \in Nat
        BY <3>1, TicketSets
      <3>3. /\ open \ Pending \subseteq 1..Len(sent)
            /\ Pending \ open \subseteq 1..Len(sent)
            /\ Pending \ open' \subseteq 1..Len(sent)
            /\ Managed \ open \subseteq 1..Len(sent)
            /\ Managed \ open' \subseteq 1..Len(sent)
        BY <2>1
      <3> QED
        BY <1>3, <3>2, <3>3, TicketSets
    <2>6. restarts * MaxLevels \in Nat /\ outside \in Nat
          /\ refused \in Nat /\ faults \in Nat
      BY Numbers
    <2>7. Cardinality(open' \ Pending)
              <= refused' + faults' + restarts * MaxLevels
      <3>1. Cardinality(open \ Pending)
                <= refused + faults + restarts * MaxLevels
        BY DEF Counted
      <3> DEFINE c == Cardinality(open \ Pending)
                 d == Cardinality(open' \ Pending)
                 r == restarts * MaxLevels
      <3>2. c \in Nat /\ d \in Nat /\ r \in Nat /\ d <= c + 1
            /\ c <= refused + faults + r
        BY <2>3, <2>5, <2>6, <3>1
      <3> HIDE DEF c, d, r
      <3>3. \A x, y, z, w, v \in Nat :
                w <= v + 1 /\ v <= x + z => w <= x + 1 + z
        OBVIOUS
      <3>4. d <= refused' + faults' + r
        <4>1. refused + faults \in Nat
          BY <2>6
        <4>2. refused' + faults' = refused + faults + 1
          OBVIOUS
        <4>3. d <= refused + faults + 1 + r
          BY <3>2, <3>3, <4>1
        <4> QED
          BY <4>2, <4>3
      <3> QED
        BY <3>4 DEF d, r
    <2>8. /\ Cardinality(Pending \ open') <= outside
          /\ ~closed => Cardinality(Managed \ open') <= outside
      BY <2>4, <2>5, <2>6 DEF Counted
    <2> QED
      BY <1>2, <2>7, <2>8 DEF Counted
  <1> QED
    BY <1>4, <1>5, <1>6

(* A fill that becomes the basket's next level.                            *)
LEMMA Taken ==
    ASSUME Typed, Ticketed, Counted, Booked, next = 1,
           NEW lots \in Nat, Executes(lots),
           NEW l \in Levels, basket'.levels = Append(basket.levels, l),
           l.ticket = Len(sent) + 1, l.direction = direction,
           Size + 1 <= Len(Progression) => l.lots = Entry(Size + 1),
           Within(Size + 1, lots, l.lots),
           UNCHANGED <<next, closed, faults, outside, restarts, refused>>
    PROVE  /\ Size' = Size + 1 /\ basket'.levels \in Seq(Levels)
           /\ Ticketed' /\ Counted' /\ Booked'
  <1>1. /\ basket.levels \in Seq(Levels) /\ Size \in Nat
        /\ Size = Len(basket.levels)
    BY DEF Typed, Size
  <1>2. /\ basket'.levels \in Seq(Levels) /\ Size' = Size + 1
        /\ \A k \in 1..Size : Level(k)' = Level(k)
        /\ \A k : k = Size + 1 => Level(k)' = l
    <2> DEFINE s == basket.levels
               t == basket'.levels
    <2>1. s \in Seq(Levels) /\ t = Append(s, l)
      BY <1>1
    <2> HIDE DEF s, t
    <2>2. /\ t \in Seq(Levels) /\ Len(t) = Len(s) + 1
          /\ \A k \in 1..Len(s) : t[k] = s[k]
          /\ t[Len(s) + 1] = l
      BY <2>1
    <2>3. Size' = Len(t) /\ Size = Len(s) /\ (\A k : Level(k)' = t[k] /\ Level(k) = s[k])
      BY DEF Size, Level, s, t
    <2> QED
      BY <2>2, <2>3 DEF t
  <1>3. /\ Len(sent) \in Nat /\ Len(sent') = Len(sent) + 1
        /\ open' = open \cup {Len(sent) + 1} /\ Len(sent) + 1 \notin open
        /\ \A t \in 1..Len(sent) : sent'[t] = sent[t]
        /\ sent'[Len(sent) + 1] = [direction |-> direction, lots |-> lots]
    BY Executed
  <1>4. \A k \in 1..Size' : k \in 1..Size \/ k = Size + 1
    BY <1>1, <1>2
  <1>5. \A k \in 1..Size : Level(k).ticket \in 1..Len(sent)
    BY DEF Ticketed
  <1>6. Ticketed'
    <2>1. \A k \in 1..Size' : Level(k)'.ticket \in 1..Len(sent')
      BY <1>2, <1>3, <1>4, <1>5
    <2>2. ASSUME NEW j \in 1..Size', NEW k \in 1..Size', j < k
          PROVE  Level(j)'.ticket < Level(k)'.ticket
      <3>1. j \in 1..Size
        BY <1>1, <1>2, <2>2
      <3>2. CASE k \in 1..Size
        BY <1>2, <2>2, <3>1, <3>2 DEF Ticketed
      <3>3. CASE k = Size + 1
        BY <1>2, <1>3, <1>5, <3>1, <3>3
      <3> QED
        BY <1>4, <3>2, <3>3
    <2> QED
      BY <2>1, <2>2 DEF Ticketed
  <1>7. Managed' = Managed \cup {Len(sent) + 1} /\ Pending' = Managed'
    <2>1. 1..Size' = 1..Size \cup {Size + 1} /\ next..Size' = 1..Size'
      BY <1>1, <1>2
    <2> QED
      BY <1>2, <2>1 DEF Managed, Pending
  <1>8. Counted'
    <2>1. Pending = Managed /\ Managed \subseteq 1..Len(sent)
      BY Subsets
    <2>2. /\ open' \ Pending' = open \ Pending
          /\ Pending' \ open' = Pending \ open
          /\ Managed' \ open' = Managed \ open
      <3>1. Len(sent) + 1 \notin Managed
        BY <1>3, <2>1
      <3> QED
        BY <1>3, <1>7, <2>1, <3>1
    <2> QED
      BY <2>2 DEF Counted
  <1>9. ASSUME NEW k \in 1..Size'
        PROVE  /\ k <= Len(Progression) => Level(k)'.lots = Entry(k)
               /\ sent'[Level(k)'.ticket].direction = Level(k)'.direction
               /\ Within(k, sent'[Level(k)'.ticket].lots, Level(k)'.lots)
    <2>1. CASE k \in 1..Size
      <3>1. Level(k)' = Level(k) /\ sent'[Level(k).ticket] = sent[Level(k).ticket]
        BY <1>2, <1>3, <1>5, <2>1
      <3>2. /\ k <= Len(Progression) => Level(k).lots = Entry(k)
            /\ sent[Level(k).ticket].direction = Level(k).direction
            /\ Within(k, sent[Level(k).ticket].lots, Level(k).lots)
        BY <2>1 DEF Booked
      <3> QED
        BY <3>1, <3>2, Zenon
    <2>2. CASE k = Size + 1
      <3>1. Level(k)' = l
        BY <1>2, <2>2
      <3>2. sent'[l.ticket] = [direction |-> direction, lots |-> lots]
        BY <1>3
      <3>3. sent'[l.ticket].direction = direction /\ sent'[l.ticket].lots = lots
        BY <3>2
      <3> QED
        BY <2>2, <3>1, <3>3
    <2> QED
      BY <1>4, <2>1, <2>2
  <1>10. Booked'
    BY <1>9 DEF Booked, Within, Entry
  <1> QED
    BY <1>2, <1>6, <1>8, <1>10

LEMMA NewLevelTyped ==
    ASSUME Typed, NEW d \in Directions, NEW lots \in Nat, NEW fill \in Prices
    PROVE  /\ NewLevel(d, lots, fill) \in Levels
           /\ NewLevel(d, lots, fill).ticket = Len(sent) + 1
           /\ NewLevel(d, lots, fill).direction = d
           /\ NewLevel(d, lots, fill).lots = lots
  <1>1. Len(sent) + 1 \in Nat
    BY DEF Typed
  <1> QED
    BY <1>1 DEF NewLevel, Levels

LEMMA OpenBasketStep == IInv /\ (\E fill \in Prices : OpenBasket(fill)) => IInv'
  <1> SUFFICES ASSUME IInv, NEW fill \in Prices, OpenBasket(fill) PROVE IInv'
    OBVIOUS
  <1>1. /\ Typed /\ InTick /\ Ticketed /\ Counted /\ Booked
        /\ pc = "opening" /\ Executes(OrderedLots(1)) /\ pc' = "idle"
        /\ UNCHANGED <<direction, next, closed, faults, outside, restarts, refused>>
    BY DEF IInv, OpenBasket, counters
  <1> DEFINE l == NewLevel(direction, Entry(1), fill)
  <1>2. basket' = [NoBasket EXCEPT !.levels = <<l>>]
    BY DEF OpenBasket
  <1>3. ~Active /\ next = 1 /\ ~closed
    BY <1>1 DEF InTick
  <1>4. basket.levels = <<>> /\ Size = 0
    BY <1>3 DEF Active, Size
  <1>5. direction \in Directions /\ Entry(1) \in Nat
    BY <1>1, LotsTyped DEF Typed
  <1>6. /\ l \in Levels /\ l.ticket = Len(sent) + 1
        /\ l.direction = direction /\ l.lots = Entry(1)
    BY <1>1, <1>5, NewLevelTyped
  <1> HIDE DEF l
  <1>7. /\ basket'.levels = <<l>>
        /\ basket' = [levels |-> basket'.levels, peak |-> basket'.peak,
                      frozen |-> basket'.frozen]
    BY <1>2 DEF NoBasket
  <1>8. basket'.levels = Append(basket.levels, l)
    BY <1>4, <1>7
  <1>9. OrderedLots(1) \in Nat /\ OrderedLots(1) = Entry(1) /\ Size + 1 = 1
    BY <1>4, <1>5, LotsTyped
  <1>10. /\ Size' = Size + 1 /\ basket'.levels \in Seq(Levels)
         /\ Ticketed' /\ Counted' /\ Booked'
    <2>1. Len(Progression) \in Nat /\ Size + 1 # Len(Progression) + 1
      BY <1>4, ProgressionAssumption
    <2>2. l.lots = Entry(Size + 1) /\ l.lots = OrderedLots(1)
      BY <1>6, <1>9
    <2>3. Within(Size + 1, OrderedLots(1), l.lots)
      BY <2>1, <2>2 DEF Within
    <2> QED
      BY <1>1, <1>3, <1>6, <1>8, <1>9, <2>2, <2>3, Taken
  <1>11. Typed'
    <2>1. sent' \in Seq(Orders) /\ open' \subseteq 1..Len(sent')
      BY <1>1, <1>9, Executed
    <2>2. Size' <= MaxLevels
      BY <1>4, <1>10, ProgressionAssumption
    <2> QED
      BY <1>1, <1>7, <1>10, <2>1, <2>2 DEF Typed
  <1>12. InTick'
    BY <1>1, <1>3 DEF InTick
  <1> QED
    BY <1>10, <1>11, <1>12 DEF IInv

LEMMA AddHedgeStep == IInv /\ (\E fill \in Prices : AddHedge(fill)) => IInv'
  <1> SUFFICES ASSUME IInv, NEW fill \in Prices, AddHedge(fill) PROVE IInv'
    OBVIOUS
  <1> DEFINE lots == OrderedLots(Size + 1)
             l(b) == NewLevel(Opposite(Last.direction), b, fill)
  <1>1. /\ Typed /\ InTick /\ Ticketed /\ Counted /\ Booked
        /\ pc = "hedging" /\ Executes(lots) /\ pc' = "idle"
        /\ UNCHANGED <<direction, next, closed, faults, outside, restarts>>
    BY DEF IInv, AddHedge
  <1>2. \/ /\ TakesHedge /\ refused' = refused
           /\ \E b \in BookedLots :
                 basket' = [basket EXCEPT !.levels = Append(@, l(b))]
        \/ refused' = refused + 1 /\ basket' = basket
    BY DEF AddHedge
  <1>3. Active /\ direction = Opposite(Last.direction) /\ next = 1 /\ ~closed
    BY <1>1 DEF InTick
  <1>4. /\ Size \in Nat /\ lots \in Nat /\ direction \in Directions
        /\ \A b \in BookedLots : b \in Nat
    <2>1. Size \in Nat /\ Size + 1 \in Nat \ {0} /\ direction \in Directions
      BY <1>1 DEF Typed, Size
    <2> QED
      BY <1>1, <1>3, <2>1, LotsTyped
  <1>5. \A b \in BookedLots :
            /\ l(b) \in Levels /\ l(b).ticket = Len(sent) + 1
            /\ l(b).direction = direction /\ l(b).lots = b
    BY <1>1, <1>3, <1>4, NewLevelTyped
  <1>6. sent' \in Seq(Orders) /\ open' \subseteq 1..Len(sent')
    BY <1>1, <1>4, Executed
  <1>7. InTick'
    BY <1>1, <1>3 DEF InTick
  <1> HIDE DEF l
  <1>8. ASSUME TakesHedge, refused' = refused, NEW b \in BookedLots,
               basket' = [basket EXCEPT !.levels = Append(@, l(b))]
        PROVE  IInv'
    <2>1. /\ basket'.levels = Append(basket.levels, l(b))
          /\ basket' = [levels |-> basket'.levels, peak |-> basket'.peak,
                        frozen |-> basket'.frozen]
      <3>1. basket = [levels |-> basket.levels, peak |-> basket.peak,
                      frozen |-> basket.frozen]
        BY <1>1 DEF Typed
      <3> QED
        BY <1>8, <3>1
    <2>2. Size < MaxLevels
      BY <1>8 DEF TakesHedge
    <2>3. /\ Size + 1 <= Len(Progression) => l(b).lots = Entry(Size + 1)
          /\ Within(Size + 1, lots, l(b).lots)
      BY <1>1, <1>3, <1>5, LotsWithin
    <2>4. /\ Size' = Size + 1 /\ basket'.levels \in Seq(Levels)
          /\ Ticketed' /\ Counted' /\ Booked'
      BY <1>1, <1>3, <1>4, <1>5, <1>8, <2>1, <2>3, Taken
    <2>5. Size' <= MaxLevels
      BY <1>4, <2>2, <2>4, ProgressionAssumption
    <2>6. Typed'
      BY <1>1, <1>6, <1>8, <2>1, <2>4, <2>5 DEF Typed
    <2> QED
      BY <1>7, <2>4, <2>6 DEF IInv
  <1>9. CASE refused' = refused + 1 /\ basket' = basket
    <2>1. /\ refused' \in Nat /\ faults' \in Nat
          /\ refused' + faults' = refused + faults + 1
      <3>1. refused \in Nat /\ faults \in Nat /\ faults' = faults
        BY <1>1 DEF Typed
      <3> QED
        BY <1>9, <3>1
    <2>2. Ticketed' /\ Counted' /\ Booked'
      BY <1>1, <1>4, <1>9, <2>1, Strayed
    <2>3. Typed'
      BY <1>1, <1>6, <1>9, <2>1 DEF Typed, Size
    <2> QED
      BY <1>7, <2>2, <2>3 DEF IInv
  <1> QED
    BY <1>2, <1>8, <1>9

LEMMA OrderFailsStep == IInv /\ OrderFails => IInv'
  <1> SUFFICES ASSUME IInv, OrderFails PROVE IInv'
    OBVIOUS
  <1>1. /\ Typed /\ InTick /\ Ticketed /\ Counted /\ Booked
        /\ pc \in {"opening", "hedging"} /\ pc' = "idle" /\ faults' = faults + 1
        /\ UNCHANGED <<direction, next, closed, basket, outside, restarts, refused>>
    BY DEF IInv, OrderFails
  <1>2. UNCHANGED <<sent, open>> \/ Executes(OrderedLots(Size + 1))
    BY DEF OrderFails, account
  <1>3. faults' \in Nat /\ faults' >= faults /\ refused \in Nat /\ faults \in Nat
    BY <1>1 DEF Typed
  <1>4. next = 1 /\ ~closed
    BY <1>1 DEF InTick
  <1>5. InTick'
    BY <1>1, <1>4 DEF InTick
  <1>6. CASE UNCHANGED <<sent, open>>
    <2>1. Ticketed' /\ Counted' /\ Booked'
      BY <1>1, <1>3, <1>6, Frame
    <2>2. Typed'
      BY <1>1, <1>3, <1>6 DEF Typed, Size
    <2> QED
      BY <1>5, <2>1, <2>2 DEF IInv
  <1>7. CASE Executes(OrderedLots(Size + 1))
    <2>1. OrderedLots(Size + 1) \in Nat
      <3>1. Size + 1 \in Nat \ {0}
        BY <1>1 DEF Typed, Size
      <3> QED
        BY <3>1, LotsTyped
    <2>2. refused' \in Nat /\ refused' + faults' = refused + faults + 1
      BY <1>1, <1>3
    <2>3. Ticketed' /\ Counted' /\ Booked'
      BY <1>1, <1>3, <1>7, <2>1, <2>2, Strayed
    <2>4. sent' \in Seq(Orders) /\ open' \subseteq 1..Len(sent')
      BY <1>1, <1>7, <2>1, Executed
    <2>5. Typed'
      BY <1>1, <1>3, <2>4 DEF Typed, Size
    <2> QED
      BY <1>5, <2>3, <2>5 DEF IInv
  <1> QED
    BY <1>2, <1>6, <1>7

LEMMA CloseLevelStep == IInv /\ CloseLevel => IInv'
  <1> SUFFICES ASSUME IInv, CloseLevel PROVE IInv'
    OBVIOUS
  <1> DEFINE t == Level(next).ticket
  <1>1. /\ Typed /\ InTick /\ Ticketed /\ Counted /\ Booked
        /\ pc = "closing" /\ next <= Size /\ next' = next + 1
        /\ UNCHANGED <<pc, direction, basket, sent, outside, restarts, refused>>
    BY DEF IInv, CloseLevel
  <1>2. \/ t \in open /\ open' = open \ {t} /\ closed' = TRUE /\ faults' = faults
        \/ t \in open /\ faults' = faults + 1 /\ open' = open /\ closed' = closed
        \/ t \notin open /\ open' = open /\ closed' = closed /\ faults' = faults
    BY DEF CloseLevel, Closes
  <1>3. /\ Size \in Nat /\ next \in Nat \ {0} /\ next \in 1..Size
        /\ next' \in Nat \ {0}
    BY <1>1 DEF Typed, Size
  <1>4. Size' = Size /\ (\A k : Level(k)' = Level(k))
    BY <1>1 DEF Size, Level
  <1>5. Managed' = Managed
    BY <1>4 DEF Managed
  <1>6. Pending = Pending' \cup {t} /\ t \notin Pending'
    <2>1. next..Size = (next + 1)..Size \cup {next}
      BY <1>3
    <2>2. Pending' = {Level(k).ticket : k \in (next + 1)..Size}
      BY <1>1, <1>4 DEF Pending
    <2>3. ASSUME NEW k \in (next + 1)..Size PROVE Level(k).ticket # t
      <3>1. k \in 1..Size /\ next < k
        BY <1>3
      <3>2. t < Level(k).ticket /\ t \in 1..Len(sent) /\ Level(k).ticket \in 1..Len(sent)
        BY <1>1, <1>3, <3>1 DEF Ticketed
      <3>3. Len(sent) \in Nat
        BY <1>1, Subsets
      <3> QED
        BY <3>2, <3>3
    <2> QED
      BY <2>1, <2>2, <2>3 DEF Pending
  <1>7. /\ Len(sent) \in Nat /\ Pending \subseteq 1..Len(sent)
        /\ Managed \subseteq 1..Len(sent) /\ open \subseteq 1..Len(sent)
    BY <1>1, Subsets
  <1>8. /\ faults' \in Nat /\ closed' \in BOOLEAN /\ open' \subseteq 1..Len(sent)
    <2>1. faults \in Nat /\ faults + 1 \in Nat
      BY <1>1 DEF Typed
    <2>2. closed \in BOOLEAN
      BY <1>1 DEF Typed
    <2>3. faults' \in Nat
      BY <1>2, <2>1
    <2>4. closed' \in BOOLEAN
      BY <1>2, <2>2
    <2>5. open' \subseteq 1..Len(sent)
      BY <1>2, <1>7
    <2> QED
      BY <2>3, <2>4, <2>5
  <1>9. Typed' /\ InTick' /\ Ticketed' /\ Booked'
    <2>1. Typed'
      BY <1>1, <1>3, <1>4, <1>8 DEF Typed
    <2>2. InTick'
      BY <1>1 DEF InTick
    <2>3. Ticketed'
      BY <1>1, <1>4 DEF Ticketed
    <2>4. Booked'
      BY <1>1, <1>4 DEF Booked
    <2> QED
      BY <2>1, <2>2, <2>3, <2>4
  <1> HIDE DEF t
  <1>10. Counted'
    <2> DEFINE c == Cardinality(open \ Pending)
               d == Cardinality(open' \ Pending')
               e == Cardinality(Pending \ open)
               g == Cardinality(Pending' \ open')
               r == restarts * MaxLevels
    <2>1. /\ c \in Nat /\ e \in Nat /\ r \in Nat /\ outside \in Nat
          /\ refused \in Nat /\ faults \in Nat
      BY <1>1, Numbers
    <2>2. d \in Nat /\ g \in Nat
      <3>1. open' \ Pending' \subseteq 1..Len(sent) /\ Pending' \ open' \subseteq 1..Len(sent)
        BY <1>6, <1>7, <1>8
      <3> QED
        BY <1>7, <3>1, TicketSets
    <2>3. c <= refused + faults + r /\ e <= outside
      BY <1>1 DEF Counted
    <2>4. g <= e
      <3>1. Pending' \ open' \subseteq Pending \ open /\ Pending \ open \subseteq 1..Len(sent)
        BY <1>2, <1>6, <1>7
      <3> QED
        BY <1>7, <3>1, NoMore
    <2>5. \/ d <= c /\ faults' = faults
          \/ d <= c + 1 /\ faults' = faults + 1
      <3>1. CASE t \in open /\ faults' = faults + 1 /\ open' = open
        <4>1. /\ open' \ Pending' \subseteq (open \ Pending) \cup {t}
              /\ open \ Pending \subseteq 1..Len(sent)
          BY <1>6, <1>7, <3>1
        <4>2. d <= c + 1
          BY <1>7, <4>1, OneMore
        <4> QED
          BY <3>1, <4>2
      <3>2. ASSUME faults' = faults,
                   \A x \in open' : x # t /\ x \in open
            PROVE  d <= c
        <4>1. /\ open' \ Pending' \subseteq open \ Pending
              /\ open \ Pending \subseteq 1..Len(sent)
          BY <1>6, <1>7, <3>2
        <4> QED
          BY <1>7, <4>1, NoMore
      <3>3. CASE t \in open /\ open' = open \ {t} /\ faults' = faults
        <4>1. d <= c
          BY <3>2, <3>3
        <4> QED
          BY <3>3, <4>1
      <3>4. CASE t \notin open /\ open' = open /\ faults' = faults
        <4>1. d <= c
          BY <3>2, <3>4
        <4> QED
          BY <3>4, <4>1
      <3> HIDE DEF c, d
      <3> QED
        BY <1>2, <3>1, <3>3, <3>4
    <2>6. ~closed' => Cardinality(Managed' \ open') <= outside
      <3>1. ~closed' => ~closed /\ open' = open
        BY <1>2
      <3> QED
        BY <1>1, <1>5, <3>1 DEF Counted
    <2> HIDE DEF c, d, e, g, r
    <2>7. d <= refused + faults' + r /\ g <= outside
      BY <2>1, <2>2, <2>3, <2>4, <2>5
    <2> QED
      BY <1>1, <2>6, <2>7 DEF Counted, d, g, r
  <1> QED
    BY <1>9, <1>10 DEF IInv

(* What an empty basket leaves to show.                                    *)
LEMMA Forgotten ==
    ASSUME basket' = NoBasket, next' = 1
    PROVE  /\ Size' = 0 /\ Managed' = {} /\ Pending' = {}
           /\ Ticketed' /\ Booked'
           /\ basket' = [levels |-> basket'.levels, peak |-> basket'.peak,
                         frozen |-> basket'.frozen]
           /\ basket'.levels \in Seq(Levels)
  <1>1. /\ basket'.levels = <<>>
        /\ basket' = [levels |-> basket'.levels, peak |-> basket'.peak,
                      frozen |-> basket'.frozen]
    BY DEF NoBasket
  <1>2. Size' = 0 /\ 1..0 = {}
    BY <1>1 DEF Size
  <1>3. Managed' = {} /\ Pending' = {}
    BY <1>2 DEF Managed, Pending
  <1>4. Ticketed' /\ Booked'
    BY <1>2 DEF Ticketed, Booked
  <1> QED
    BY <1>1, <1>2, <1>3, <1>4

LEMMA CloseEndsStep == IInv /\ CloseEnds => IInv'
  <1> SUFFICES ASSUME IInv, CloseEnds PROVE IInv'
    OBVIOUS
  <1>1. /\ Typed /\ InTick /\ Ticketed /\ Counted /\ Booked
        /\ pc = "closing" /\ next > Size /\ basket' = AfterClose
        /\ pc' = "idle" /\ next' = 1 /\ closed' = FALSE
        /\ UNCHANGED <<direction, sent, open, faults, outside, restarts, refused>>
    BY DEF IInv, CloseEnds, account, counters
  <1>2. Pending = {}
    <2>1. next \in Nat /\ Size \in Nat
      BY <1>1 DEF Typed, Size
    <2>2. next..Size = {}
      BY <1>1, <2>1
    <2> QED
      BY <2>2 DEF Pending
  <1>3. /\ Cardinality(open) <= refused + faults + restarts * MaxLevels
        /\ 0 <= outside
    <2>1. open \ Pending = open /\ Pending \ open = {}
      BY <1>2
    <2>2. outside \in Nat
      BY <1>1, Numbers
    <2> QED
      BY <1>1, <2>1, <2>2 DEF Counted
  <1>4. closed' \in BOOLEAN
    BY <1>1
  <1>5. CASE closed
    <2>1. basket' = NoBasket
      BY <1>1, <1>5 DEF AfterClose
    <2>2. /\ Size' = 0 /\ Managed' = {} /\ Pending' = {} /\ Ticketed' /\ Booked'
          /\ basket' = [levels |-> basket'.levels, peak |-> basket'.peak,
                        frozen |-> basket'.frozen]
          /\ basket'.levels \in Seq(Levels)
      BY <1>1, <2>1, Forgotten
    <2>3. Typed'
      <3>1. Size' <= MaxLevels
        BY <2>2, ProgressionAssumption
      <3> QED
        BY <1>1, <1>4, <2>2, <3>1 DEF Typed
    <2>4. InTick'
      BY <1>1 DEF InTick
    <2>5. Counted'
      <3>1. open' \ Pending' = open /\ Pending' \ open' = {} /\ Managed' \ open' = {}
        BY <1>1, <2>2
      <3>2. Cardinality({}) = 0
        BY FS_EmptySet
      <3> QED
        BY <1>1, <1>3, <3>1, <3>2 DEF Counted
    <2> QED
      BY <2>2, <2>3, <2>4, <2>5 DEF IInv
  <1>6. CASE ~closed
    <2>1. basket' = basket
      BY <1>1, <1>6 DEF AfterClose
    <2>2. Size' = Size /\ (\A k : Level(k)' = Level(k))
      BY <2>1 DEF Size, Level
    <2>3. Typed' /\ InTick' /\ Ticketed' /\ Booked'
      <3>1. Typed'
        BY <1>1, <1>4, <2>1, <2>2 DEF Typed
      <3>2. InTick'
        BY <1>1 DEF InTick
      <3>3. Ticketed'
        BY <1>1, <2>2 DEF Ticketed
      <3>4. Booked'
        BY <1>1, <2>2 DEF Booked
      <3> QED
        BY <3>1, <3>2, <3>3, <3>4
    <2>4. Managed' = Managed /\ Pending' = Managed
      BY <1>1, <2>2 DEF Managed, Pending
    <2>5. Counted'
      <3> DEFINE c == Cardinality(open)
                 d == Cardinality(open \ Managed)
                 r == restarts * MaxLevels
      <3>1. open \ Managed \subseteq open /\ open \subseteq 1..Len(sent) /\ Len(sent) \in Nat
        BY <1>1, Subsets
      <3>2. d <= c
        BY <3>1, NoMore
      <3>3. c \in Nat /\ d \in Nat
        <4>1. open \ Managed \subseteq 1..Len(sent)
          BY <3>1
        <4> QED
          BY <3>1, <4>1, TicketSets
      <3>4. r \in Nat /\ refused \in Nat /\ faults \in Nat
        BY <1>1, Numbers
      <3>5. c <= refused + faults + r
        BY <1>3
      <3> HIDE DEF c, d, r
      <3>6. d <= refused + faults + r
        BY <3>2, <3>3, <3>4, <3>5
      <3>7. Cardinality(Managed \ open) <= outside
        BY <1>1, <1>6 DEF Counted
      <3> QED
        BY <1>1, <2>4, <3>6, <3>7 DEF Counted, d, r
    <2> QED
      BY <2>3, <2>5 DEF IInv
  <1> QED
    BY <1>5, <1>6

LEMMA ClosedOutsideStep == IInv /\ (\E t \in open : ClosedOutside(t)) => IInv'
  <1> SUFFICES ASSUME IInv, NEW t \in open, ClosedOutside(t) PROVE IInv'
    OBVIOUS
  <1>1. /\ Typed /\ InTick /\ Ticketed /\ Counted /\ Booked
        /\ open' = open \ {t} /\ outside' = outside + 1
        /\ UNCHANGED <<pc, direction, next, closed, basket, sent>>
        /\ UNCHANGED <<faults, restarts, refused>>
    BY DEF IInv, ClosedOutside, tick
  <1>2. Size' = Size /\ (\A k : Level(k)' = Level(k))
    BY <1>1 DEF Size, Level
  <1>3. Managed' = Managed /\ Pending' = Pending
    BY <1>1, <1>2 DEF Managed, Pending
  <1>4. /\ Len(sent) \in Nat /\ Pending \subseteq 1..Len(sent)
        /\ Managed \subseteq 1..Len(sent) /\ open \subseteq 1..Len(sent)
    BY <1>1, Subsets
  <1>5. Typed' /\ InTick' /\ Ticketed' /\ Booked'
    <2>1. Typed'
      <3>1. outside' \in Nat /\ open' \subseteq 1..Len(sent)
        BY <1>1, <1>4 DEF Typed
      <3> QED
        BY <1>1, <1>2, <3>1 DEF Typed
    <2>2. InTick'
      BY <1>1, <1>2 DEF InTick, Active, Last
    <2>3. Ticketed'
      BY <1>1, <1>2 DEF Ticketed
    <2>4. Booked'
      BY <1>1, <1>2 DEF Booked
    <2> QED
      BY <2>1, <2>2, <2>3, <2>4
  <1>6. Counted'
    <2> DEFINE c == Cardinality(open \ Pending)
               d == Cardinality(open' \ Pending)
               e == Cardinality(Pending \ open)
               g == Cardinality(Pending \ open')
               h == Cardinality(Managed \ open)
               i == Cardinality(Managed \ open')
               r == restarts * MaxLevels
    <2>1. /\ c \in Nat /\ e \in Nat /\ h \in Nat /\ r \in Nat
          /\ outside \in Nat /\ refused \in Nat /\ faults \in Nat
      BY <1>1, Numbers
    <2>2. d \in Nat /\ g \in Nat /\ i \in Nat
      <3>1. /\ open' \ Pending \subseteq 1..Len(sent)
            /\ Pending \ open' \subseteq 1..Len(sent)
            /\ Managed \ open' \subseteq 1..Len(sent)
        BY <1>1, <1>4
      <3> QED
        BY <1>4, <3>1, TicketSets
    <2>3. /\ c <= refused + faults + r /\ e <= outside
          /\ ~closed => h <= outside
      BY <1>1 DEF Counted
    <2>4. d <= c
      <3>1. open' \ Pending \subseteq open \ Pending /\ open \ Pending \subseteq 1..Len(sent)
        BY <1>1, <1>4
      <3> QED
        BY <1>4, <3>1, NoMore
    <2>5. g <= e + 1
      <3>1. /\ Pending \ open' \subseteq (Pending \ open) \cup {t}
            /\ Pending \ open \subseteq 1..Len(sent)
        BY <1>1, <1>4
      <3> QED
        BY <1>4, <3>1, OneMore
    <2>6. i <= h + 1
      <3>1. /\ Managed \ open' \subseteq (Managed \ open) \cup {t}
            /\ Managed \ open \subseteq 1..Len(sent)
        BY <1>1, <1>4
      <3> QED
        BY <1>4, <3>1, OneMore
    <2> HIDE DEF c, d, e, g, h, i, r
    <2>7. /\ d <= refused + faults + r /\ g <= outside + 1
          /\ ~closed => i <= outside + 1
      BY <2>1, <2>2, <2>3, <2>4, <2>5, <2>6
    <2> QED
      BY <1>1, <1>3, <2>7 DEF Counted, d, g, i, r
  <1> QED
    BY <1>5, <1>6 DEF IInv

(* A basket has no more positions than it may have levels.                 *)
LEMMA FewManaged ==
    ASSUME Typed, Ticketed
    PROVE  Cardinality(Pending) <= MaxLevels
  <1>1. /\ Size \in Nat /\ Size <= MaxLevels /\ MaxLevels \in Nat /\ Len(sent) \in Nat
        /\ Pending \subseteq Managed /\ Managed \subseteq 1..Len(sent)
    BY Subsets, ProgressionAssumption DEF Typed
  <1>2. IsFiniteSet(1..Size) /\ Cardinality(1..Size) = Size
    <2>1. /\ IsFiniteSet(1..Size)
          /\ Cardinality(1..Size) = IF 1 > Size THEN 0 ELSE Size - 1 + 1
      BY <1>1, FS_Interval
    <2> QED
      BY <1>1, <2>1
  <1>3. [k \in 1..Size |-> Level(k).ticket] \in Surjection(1..Size, Managed)
    BY DEF Surjection, Managed
  <1>4. Cardinality(Managed) <= Size
    BY <1>2, <1>3, FS_Surjection
  <1>5. Cardinality(Pending) <= Cardinality(Managed)
    BY <1>1, NoMore
  <1>6. Cardinality(Pending) \in Nat /\ Cardinality(Managed) \in Nat
    <2>1. Pending \subseteq 1..Len(sent)
      BY <1>1
    <2> QED
      BY <1>1, <2>1, TicketSets
  <1> QED
    BY <1>1, <1>4, <1>5, <1>6

LEMMA RestartStep == IInv /\ Restart => IInv'
  <1> SUFFICES ASSUME IInv, Restart PROVE IInv'
    OBVIOUS
  <1>1. /\ Typed /\ InTick /\ Ticketed /\ Counted /\ Booked
        /\ basket' = NoBasket /\ restarts' = restarts + 1
        /\ pc' = "idle" /\ next' = 1 /\ closed' = FALSE
        /\ UNCHANGED <<direction, sent, open, faults, outside, refused>>
    BY DEF IInv, Restart, account
  <1>2. /\ Size' = 0 /\ Managed' = {} /\ Pending' = {} /\ Ticketed' /\ Booked'
        /\ basket' = [levels |-> basket'.levels, peak |-> basket'.peak,
                      frozen |-> basket'.frozen]
        /\ basket'.levels \in Seq(Levels)
    BY <1>1, Forgotten
  <1>3. closed' \in BOOLEAN
    BY <1>1
  <1>4. Typed'
    <2>1. Size' <= MaxLevels /\ restarts' \in Nat
      BY <1>1, <1>2, ProgressionAssumption DEF Typed
    <2> QED
      BY <1>1, <1>2, <1>3, <2>1 DEF Typed
  <1>5. InTick'
    BY <1>1 DEF InTick
  <1>6. Counted'
    <2> DEFINE c == Cardinality(open \ Pending)
               p == Cardinality(Pending)
               d == Cardinality(open)
               r == restarts * MaxLevels
    <2>1. /\ Len(sent) \in Nat /\ Pending \subseteq 1..Len(sent)
          /\ open \subseteq 1..Len(sent) /\ open \ Pending \subseteq 1..Len(sent)
      BY <1>1, Subsets
    <2>2. /\ IsFiniteSet(open \ Pending) /\ IsFiniteSet(Pending) /\ IsFiniteSet(open)
          /\ c \in Nat /\ p \in Nat /\ d \in Nat
      BY <2>1, TicketSets
    <2>3. d <= c + p
      <3> DEFINE u == (open \ Pending) \cup Pending
      <3>1. /\ IsFiniteSet(u)
            /\ Cardinality(u) = c + p - Cardinality((open \ Pending) \cap Pending)
        BY <2>2, FS_Union
      <3>2. (open \ Pending) \cap Pending = {} /\ open \subseteq u
        OBVIOUS
      <3>3. Cardinality({}) = 0
        BY FS_EmptySet
      <3>4. d <= Cardinality(u)
        BY <3>1, <3>2, FS_Subset
      <3>5. Cardinality(u) = c + p - 0
        BY <3>1, <3>2, <3>3
      <3> HIDE DEF c, p, d, u
      <3> QED
        BY <2>2, <3>4, <3>5
    <2>4. /\ r \in Nat /\ refused \in Nat /\ faults \in Nat /\ outside \in Nat
          /\ restarts \in Nat
      BY <1>1, Numbers
    <2>5. MaxLevels \in Nat /\ p <= MaxLevels
      BY <1>1, FewManaged, ProgressionAssumption
    <2>6. c <= refused + faults + r
      BY <1>1 DEF Counted
    <2>7. restarts' * MaxLevels = r + MaxLevels
      BY <1>1, <2>4, <2>5
    <2>8. /\ open' \ Pending' = open /\ Pending' \ open' = {} /\ Managed' \ open' = {}
      BY <1>1, <1>2
    <2>9. Cardinality({}) = 0
      BY FS_EmptySet
    <2> HIDE DEF c, p, d, r
    <2>10. d <= refused + faults + (r + MaxLevels)
      BY <2>2, <2>3, <2>4, <2>5, <2>6
    <2>11. /\ Cardinality(open' \ Pending')
                  <= refused' + faults' + restarts' * MaxLevels
           /\ Cardinality(Pending' \ open') <= outside'
           /\ Cardinality(Managed' \ open') <= outside'
      BY <1>1, <2>4, <2>7, <2>8, <2>9, <2>10 DEF d
    <2> QED
      BY <2>11 DEF Counted
  <1> QED
    BY <1>2, <1>4, <1>5, <1>6 DEF IInv

LEMMA StepIInv == IInv /\ [Next]_vars => IInv'
  <1> SUFFICES ASSUME IInv, [Next]_vars PROVE IInv'
    OBVIOUS
  <1>1. CASE TickStep
    <2>1. \/ Analyze
          \/ \E fill \in Prices : OpenBasket(fill)
          \/ \E fill \in Prices : AddHedge(fill)
          \/ OrderFails \/ CloseLevel \/ CloseEnds
      BY <1>1 DEF TickStep
    <2> QED
      BY <2>1, AnalyzeStep, OpenBasketStep, AddHedgeStep, OrderFailsStep,
         CloseLevelStep, CloseEndsStep
  <1>2. CASE \/ \E d \in Directions : FirstEntry(d)
             \/ (\E p \in Prices : Move(p)) \/ PauseTurns
    BY <1>2, QuietSteps
  <1>3. CASE \E t \in open : ClosedOutside(t)
    BY <1>3, ClosedOutsideStep
  <1>4. CASE Restart
    BY <1>4, RestartStep
  <1>5. CASE UNCHANGED vars
    <2>1. UNCHANGED <<pc, direction, next, closed, basket, sent, open>>
      BY <1>5 DEF vars, tick, account
    <2>2. UNCHANGED <<faults, outside, restarts, refused>>
      BY <1>5 DEF vars, counters
    <2> QED
      BY <2>1, <2>2 DEF IInv, Typed, InTick, Ticketed, Counted, Booked,
         BookMatchesAccount, Active, Last, Size, Level, Pending, Managed
  <1> QED
    BY <1>1, <1>2, <1>3, <1>4, <1>5 DEF Next

THEOREM Inductive == Spec => []IInv
  BY InitIInv, StepIInv, PTL DEF Spec

----------------------------------------------------------------------------
(* The profit of a basket is a number: a sum over its levels.              *)

(* A set of naturals that is not empty has a least element.                *)
LEMMA LeastNatural ==
    ASSUME NEW T \in SUBSET Nat, T # {}
    PROVE  \E x \in T : \A y \in T : x <= y
  <1> DEFINE R == OpToRel(<, Nat)
  <1>1. \A x, y \in Nat : <<y, x>> \in R <=> y < x
    BY DEF OpToRel
  <1>2. IsWellFoundedOn(R, Nat)
    BY NatLessThanWellFounded
  <1> HIDE DEF R
  <1>3. PICK x \in T : \A y \in T : ~(<<y, x>> \in R)
    BY <1>2, WFMin
  <1>4. ASSUME NEW y \in T PROVE x <= y
    <2>1. ~(y < x) /\ x \in Nat /\ y \in Nat
      BY <1>1, <1>3
    <2> QED
      BY <2>1
  <1> QED
    BY <1>4

(* A set with zero and every successor has all naturals.                   *)
LEMMA SetInduction ==
    ASSUME NEW S, 0 \in S, \A n \in Nat : n \in S => n + 1 \in S
    PROVE  Nat \subseteq S
  <1> SUFFICES ASSUME Nat \ S # {} PROVE FALSE
    OBVIOUS
  <1>1. PICK x \in Nat \ S : \A y \in Nat \ S : x <= y
    BY LeastNatural
  <1>2. x # 0
    BY <1>1
  <1>3. x - 1 \in Nat /\ x - 1 \in S
    BY <1>1, <1>2
  <1> QED
    BY <1>1, <1>3

(* f adds up amounts from nothing.                                         *)
Sums(f, amounts, n) ==
    f = [k \in 0..n |-> IF k = 0 THEN 0 ELSE f[k - 1] + amounts[k]]

LEMMA SumsExist ==
    ASSUME NEW amounts, NEW n \in Nat
    PROVE  \E f : Sums(f, amounts, n)
  <1> DEFINE S == {m \in Nat : \E f : Sums(f, amounts, m)}
  <1>1. 0 \in S
    <2>1. Sums([k \in 0..0 |-> 0], amounts, 0)
      BY DEF Sums
    <2> QED
      BY <2>1
  <1>2. ASSUME NEW m \in Nat, m \in S PROVE m + 1 \in S
    <2>1. PICK f : Sums(f, amounts, m)
      BY <1>2
    <2> DEFINE g == [k \in 0..(m + 1) |->
                         IF k <= m THEN f[k] ELSE f[m] + amounts[m + 1]]
    <2>2. \A k \in 0..m : f[k] = IF k = 0 THEN 0 ELSE f[k - 1] + amounts[k]
      BY <2>1 DEF Sums
    <2>3. ASSUME NEW k \in 0..(m + 1)
          PROVE  g[k] = IF k = 0 THEN 0 ELSE g[k - 1] + amounts[k]
      <3>1. CASE k = 0
        BY <2>2, <3>1
      <3>2. CASE k \in 1..m
        BY <2>2, <3>2
      <3>3. CASE k = m + 1
        BY <3>3
      <3> QED
        BY <3>1, <3>2, <3>3
    <2>4. Sums(g, amounts, m + 1)
      BY <2>3 DEF Sums
    <2> QED
      BY <2>4
  <1>3. Nat \subseteq S
    BY <1>1, <1>2, SetInduction
  <1> QED
    BY <1>3

LEMMA SumsTyped ==
    ASSUME NEW n \in Nat, NEW amounts \in [1..n -> Int],
           NEW f, Sums(f, amounts, n)
    PROVE  f[n] \in Int
  <1> DEFINE S == {k \in Nat : k <= n => f[k] \in Int}
  <1>1. \A k \in 0..n : f[k] = IF k = 0 THEN 0 ELSE f[k - 1] + amounts[k]
    BY DEF Sums
  <1>2. 0 \in S
    BY <1>1
  <1>3. ASSUME NEW k \in Nat, k \in S PROVE k + 1 \in S
    BY <1>1, <1>3
  <1>4. Nat \subseteq S
    BY <1>2, <1>3, SetInduction
  <1> QED
    BY <1>4

LEMMA PnlTyped == ASSUME Typed, price \in Prices PROVE Pnl \in Int
  <1> DEFINE amounts == [k \in 1..Size |-> ProfitOf(Level(k), price)]
             total == CHOOSE f : Sums(f, amounts, Size)
  <1>1. Size \in Nat
    BY DEF Typed, Size
  <1>2. amounts \in [1..Size -> Int]
    <2>1. ASSUME NEW k \in 1..Size PROVE ProfitOf(Level(k), price) \in Int
      <3>1. Level(k) \in Levels
        BY Directed
      <3> DEFINE l == Level(k)
      <3>2. l.entry \in Prices /\ l.lots \in Nat
        BY <3>1 DEF Levels
      <3> HIDE DEF l
      <3>3. l.entry \in Int /\ price \in Int
        BY <3>2, GridAssumption, Zenon
      <3>4. price - l.entry \in Int /\ l.entry - price \in Int
        BY <3>3
      <3>5. \A a, b \in Int : a * b \in Int
        OBVIOUS
      <3> QED
        BY <3>2, <3>3, <3>4, <3>5 DEF ProfitOf, l
    <2> QED
      BY <2>1
  <1>3. Pnl = total[Size]
    <2> DEFINE R(f) == f = [k \in 0..Size |->
                   IF k = 0 THEN 0 ELSE f[k - 1] + ProfitOf(Level(k), price)]
    <2>1. Pnl = (CHOOSE f : R(f))[Size]
      BY DEF Pnl
    <2>2. ASSUME NEW f PROVE R(f) <=> Sums(f, amounts, Size)
      <3>1. \A k \in 0..Size : k # 0 => amounts[k] = ProfitOf(Level(k), price)
        BY <1>1
      <3> HIDE DEF amounts
      <3>2. [k \in 0..Size |->
                IF k = 0 THEN 0 ELSE f[k - 1] + ProfitOf(Level(k), price)]
            = [k \in 0..Size |-> IF k = 0 THEN 0 ELSE f[k - 1] + amounts[k]]
        BY <3>1
      <3> QED
        BY <3>2 DEF Sums
    <2> HIDE DEF R, amounts
    <2> QED
      BY <2>1, <2>2
  <1>4. Sums(total, amounts, Size)
    <2> HIDE DEF amounts
    <2> QED
      BY <1>1, SumsExist
  <1> HIDE DEF amounts, total
  <1> QED
    BY <1>1, <1>2, <1>3, <1>4, SumsTyped

----------------------------------------------------------------------------
(* The rest of the type invariant.                                         *)

Priced ==
    /\ price \in Prices /\ paused \in BOOLEAN
    /\ basket.peak \in Nat /\ basket.frozen \in BOOLEAN
    /\ next <= MaxLevels + 1

(* The peak is raised to a profit above the floor only.                    *)
LEMMA JudgedTyped ==
    ASSUME Typed, Priced, NEW p \in Int
    PROVE  Judged(p).peak \in Nat /\ Judged(p).frozen \in BOOLEAN
  <1> DEFINE b == basket
  <1>1. b = [levels |-> b.levels, peak |-> b.peak, frozen |-> b.frozen]
    BY DEF Typed
  <1>2. b.peak \in Nat /\ b.frozen \in BOOLEAN /\ Floor \in Nat
    BY ConfigAssumption DEF Priced
  <1>3. CASE Freezes(p)
    <2>1. ShouldClose(p)
      BY <1>3 DEF ShouldClose
    <2>2. Judged(p) = [b EXCEPT !.frozen = TRUE]
      BY <1>3, <2>1 DEF Judged
    <2> HIDE DEF b
    <2>3. Judged(p).peak = b.peak /\ Judged(p).frozen = TRUE
      BY <1>1, <2>2
    <2> QED
      BY <1>2, <2>3
  <1>4. CASE ~Freezes(p) /\ ~ShouldClose(p) /\ Trails(p) /\ p > basket.peak
    <2>1. Judged(p) = [b EXCEPT !.peak = p]
      BY <1>4 DEF Judged
    <2>2. p > Floor
      BY <1>4 DEF Trails
    <2> HIDE DEF b
    <2>3. Judged(p).peak = p /\ Judged(p).frozen = b.frozen
      BY <1>1, <2>1
    <2> QED
      BY <1>2, <2>2, <2>3
  <1>5. CASE ~Freezes(p) /\ ~(~ShouldClose(p) /\ Trails(p) /\ p > basket.peak)
    <2>1. Judged(p) = b
      BY <1>5 DEF Judged
    <2> HIDE DEF b
    <2> QED
      BY <1>2, <2>1
  <1> QED
    BY <1>3, <1>4, <1>5

LEMMA StepPriced == ASSUME IInv, Priced, [Next]_vars PROVE Priced'
  <1>1. Typed /\ InTick /\ MaxLevels \in Nat /\ next \in Nat /\ Size \in Nat
        /\ Size <= MaxLevels
    BY ProgressionAssumption DEF IInv, Typed, Size
  <1>2. NoBasket.peak \in Nat /\ NoBasket.frozen \in BOOLEAN
    BY DEF NoBasket
  <1>3. CASE Analyze
    <2>1. basket' = Judged(Pnl) /\ UNCHANGED <<market, next>>
      BY <1>3 DEF Analyze, tick
    <2>2. basket'.peak \in Nat /\ basket'.frozen \in BOOLEAN
      BY <1>1, <2>1, PnlTyped, JudgedTyped DEF Priced, market
    <2> QED
      BY <2>1, <2>2 DEF Priced, market
  <1>4. CASE \E fill \in Prices : OpenBasket(fill)
    <2>1. /\ basket'.peak = NoBasket.peak /\ basket'.frozen = NoBasket.frozen
          /\ UNCHANGED <<market, next>>
      BY <1>4 DEF OpenBasket, NoBasket
    <2> QED
      BY <1>2, <2>1 DEF Priced, market
  <1>5. CASE \E fill \in Prices : AddHedge(fill)
    <2>1. basket = [levels |-> basket.levels, peak |-> basket.peak,
                    frozen |-> basket.frozen]
      BY <1>1 DEF Typed
    <2>2. /\ basket'.peak = basket.peak /\ basket'.frozen = basket.frozen
          /\ UNCHANGED <<market, next>>
      BY <1>5, <2>1 DEF AddHedge
    <2> QED
      BY <2>2 DEF Priced, market
  <1>6. CASE OrderFails \/ (\E d \in Directions : FirstEntry(d))
             \/ (\E t \in open : ClosedOutside(t)) \/ UNCHANGED vars
    <2>1. UNCHANGED <<market, basket, next>>
      BY <1>6 DEF OrderFails, FirstEntry, ClosedOutside, vars, tick
    <2> QED
      BY <2>1 DEF Priced, market
  <1>7. CASE CloseLevel
    <2>1. next' <= MaxLevels + 1
      BY <1>1, <1>7 DEF CloseLevel
    <2> QED
      BY <1>7, <2>1 DEF CloseLevel, Priced, market
  <1>8. CASE CloseEnds \/ Restart
    <2>1. basket' \in {basket, NoBasket} /\ UNCHANGED market /\ next' = 1
      BY <1>8 DEF CloseEnds, Restart, AfterClose
    <2>2. next' <= MaxLevels + 1
      BY <1>1, <2>1
    <2> QED
      BY <1>2, <2>1, <2>2 DEF Priced, market
  <1>9. CASE \E p \in Prices : Move(p)
    <2>1. price' \in Prices /\ UNCHANGED <<paused, basket, next>>
      BY <1>9 DEF Move, tick
    <2> QED
      BY <2>1 DEF Priced
  <1>10. CASE PauseTurns
    <2>1. paused' \in BOOLEAN /\ UNCHANGED <<price, basket, next>>
      BY <1>10 DEF PauseTurns, tick
    <2> QED
      BY <2>1 DEF Priced
  <1> QED
    BY <1>3, <1>4, <1>5, <1>6, <1>7, <1>8, <1>9, <1>10 DEF Next, TickStep

(* Every variable of the EA keeps its type, for every progression and      *)
(* configuration: a basket has no more levels than it may and its peak     *)
(* profit is never a loss (should_close_basket, add_hedge).                *)
THEOREM TypeCorrect == Spec => []TypeOK
  <1>1. Init => Priced
    <2>1. ASSUME Init PROVE Priced
      <3>1. price \in Prices /\ paused \in BOOLEAN /\ next = 1 /\ MaxLevels \in Nat
        BY <2>1, ProgressionAssumption DEF Init
      <3>2. basket.peak \in Nat /\ basket.frozen \in BOOLEAN
        BY <2>1 DEF Init, NoBasket
      <3> QED
        BY <3>1, <3>2 DEF Priced
    <2> QED
      BY <2>1
  <1>2. IInv /\ Priced /\ [Next]_vars => Priced'
    BY StepPriced
  <1>3. IInv /\ Priced => TypeOK
    <2>1. ASSUME IInv, Priced PROVE next \in 1..MaxLevels + 1
      <3>1. next \in Nat \ {0} /\ MaxLevels \in Nat /\ next <= MaxLevels + 1
        BY <2>1, ProgressionAssumption DEF IInv, Typed, Priced
      <3> QED
        BY <3>1
    <2> QED
      BY <2>1 DEF IInv, Typed, Priced, TypeOK, Orders
  <1> QED
    BY <1>1, <1>2, <1>3, Inductive, PTL DEF Spec

----------------------------------------------------------------------------
(* The theorems.                                                           *)

(* In every reachable basket, however long, the account holds what the     *)
(* book says: the direction of each level, the lots of each as far as the  *)
(* progression goes, and the lots of the first one beyond it but for what  *)
(* the rounding of the book takes (_execute_add_hedge, add_hedge).         *)
THEOREM BooksMatch == Spec => []BookMatchesAccount
  <1>1. IInv => BookMatchesAccount
    BY DEF IInv, Booked, Within, BookMatchesAccount
  <1> QED
    BY <1>1, Inductive, PTL

(* Every open position outside the basket is paid for by a fill the basket *)
(* refused, a failure of the connector or a restart, for any number of     *)
(* them.                                                                   *)
THEOREM StraysArePaidFor == Spec => []UnmanagedPaidFor
  <1>1. IInv => UnmanagedPaidFor
    <2> SUFFICES ASSUME IInv PROVE UnmanagedPaidFor
      OBVIOUS
    <2> DEFINE c == Cardinality(open \ Pending)
               d == Cardinality(open \ Managed)
               r == restarts * MaxLevels
    <2>1. Typed /\ Ticketed /\ Counted
      BY DEF IInv
    <2>2. /\ open \ Managed \subseteq open \ Pending
          /\ open \ Pending \subseteq 1..Len(sent)
          /\ open \ Managed \subseteq 1..Len(sent) /\ Len(sent) \in Nat
      BY <2>1, Subsets
    <2>3. d <= c /\ d \in Nat
      BY <2>2, NoMore, TicketSets
    <2>4. /\ c \in Nat /\ r \in Nat /\ refused \in Nat /\ faults \in Nat
          /\ c <= refused + faults + r
      BY <2>1, Numbers DEF Counted
    <2> HIDE DEF c, d, r
    <2>5. d <= refused + faults + r
      BY <2>3, <2>4
    <2> QED
      BY <2>5 DEF UnmanagedPaidFor, d, r
  <1> QED
    BY <1>1, Inductive, PTL

(* Between ticks a level without a position is one that somebody else has  *)
(* closed.                                                                 *)
THEOREM BasketsAreOpen == Spec => []BasketIsOpen
  <1>1. IInv => BasketIsOpen
    BY Subsets DEF IInv, InTick, Counted, BasketIsOpen
  <1> QED
    BY <1>1, Inductive, PTL

============================================================================
