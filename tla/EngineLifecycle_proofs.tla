----------------------- MODULE EngineLifecycle_proofs -----------------------
(***************************************************************************)
(* Proofs about EngineLifecycle, for every value of its constants.         *)
(*                                                                         *)
(* A start is a promise to write an entry for each position.  For each     *)
(* position, the promises still open (those of starts, and the one of the  *)
(* engine's thread to a position without an entry), the entry itself, its  *)
(* being dropped by mistake and what has been taken of it never exceed one *)
(* for the process, one for each call of the endpoint and one for each     *)
(* failed read.                                                            *)
(***************************************************************************)
EXTENDS EngineLifecycle, FiniteSetTheorems, TLAPS

(* The calls of start() on API threads that may still write p's entry.     *)
Promises(p) ==
    {a \in ApiThreads : \/ api[a] = "starting"
                        \/ api[a] = "registering" /\ p \in apiSeen[a]}

(* The engine's thread is still to write it: in the process's own start,   *)
(* by the order that opens p, or where it finds p without one.             *)
First(p) ==
    IF \/ pc = "starting"
       \/ pc = "registering" /\ p \in seen
       \/ broker[p] = "unused"
       \/ ~Held(p) /\ (broker[p] = "open" \/ p \in seen)
    THEN 1 ELSE 0

(* An entry by which the partial target may be taken in a later cycle, and *)
(* one by which it is being taken.                                         *)
Untaken(p) ==
    IF registry[p] = "fresh" /\ (rm_pos = p => orphan) THEN 1 ELSE 0
InHand(p) == IF rm_pos = p THEN 1 ELSE 0

Entry(p) == IF Held(p) THEN 1 ELSE 0

(* The entry of an open position is about to be dropped: a failed read has *)
(* taken the position for closed.                                          *)
Doomed(p) ==
    IF /\ broker[p] = "open" /\ Held(p)
       /\ \/ pc = "reading" /\ p \notin seen
          \/ pc = "reconciling" /\ p \in stale
    THEN 1 ELSE 0

(* Only the engine's thread opens positions, so what it has read has been  *)
(* opened, and only that thread drops entries, so what was stale still has *)
(* one.                                                                    *)
Known(p) ==
    /\ p \in seen => broker[p] # "unused"
    /\ pc = "reconciling" /\ p \in stale => Held(p) /\ p \notin seen
    /\ rm_pos = p => Held(p)

PartialsPaid(p) ==
    partials[p] + Untaken(p) + InHand(p) + First(p) + Doomed(p)
        + Cardinality(Promises(p)) <= 1 + starts + misreads

RecordsPaid(p) ==
    recorded[p] + Entry(p) + First(p) + Doomed(p) + Cardinality(Promises(p))
        <= 1 + starts + misreads

Books(p) == Known(p) /\ PartialsPaid(p) /\ RecordsPaid(p)

IInv == TypeOK /\ \A p \in Positions : Books(p)

----------------------------------------------------------------------------
(* Types.                                                                  *)

LEMMA InitType == Init => TypeOK
  <1> SUFFICES ASSUME Init PROVE TypeOK
    OBVIOUS
  <1>1. running \in BOOLEAN /\ orphan \in BOOLEAN
    BY DEF Init
  <1>2. broker \in [Positions -> {"unused", "open", "closed"}]
    BY DEF Init
  <1>3. rm_pos \notin Positions /\ pc # "partial"
    BY NamesAssumption DEF Init
  <1> QED
    BY <1>1, <1>2, <1>3 DEF Init, TypeOK, InLoop, InCycle

LEMMA ThreadType == ASSUME TypeOK, ThreadStep PROVE TypeOK'
  <1>1. CASE ThreadConnects
    BY <1>1, NamesAssumption
    DEF ThreadConnects, Reads, Opened, TypeOK, InLoop, InCycle, thread, apis, world
  <1>2. CASE \E p \in Positions : ThreadRegisters(p)
    BY <1>2, NamesAssumption
    DEF ThreadRegisters, TypeOK, InLoop, InCycle, thread, apis, world
  <1>3. CASE ThreadStarted
    BY <1>3, NamesAssumption
    DEF ThreadStarted, TypeOK, InLoop, InCycle, thread, apis, world
  <1>4. CASE Loops
    BY <1>4, NamesAssumption
    DEF Loops, LoopTest, TypeOK, InLoop, InCycle, thread, apis, world
  <1>5. CASE Gates
    BY <1>5, NamesAssumption
    DEF Gates, Reads, Opened, TypeOK, InLoop, InCycle, thread, apis, world
  <1>6. CASE FindStale
    BY <1>6, NamesAssumption
    DEF FindStale, StaleEntries, TypeOK, InLoop, InCycle, thread, apis, world
  <1>7. CASE \E p \in Positions : Reconcile(p)
    BY <1>7, NamesAssumption
    DEF Reconcile, DropsEntry, TypeOK, InLoop, InCycle, thread, apis, world
  <1>8. CASE ReverseReconcile
    BY <1>8, NamesAssumption
    DEF ReverseReconcile, TypeOK, InLoop, InCycle, thread, apis, world
  <1>9. CASE \E p \in Positions : LeavesPosition(p)
    BY <1>9, NamesAssumption
    DEF LeavesPosition, TypeOK, InLoop, InCycle, thread, apis, world
  <1>10. CASE \E p \in Positions : CloseTrade(p)
    BY <1>10, NamesAssumption
    DEF CloseTrade, TypeOK, InLoop, InCycle, thread, apis, world
  <1>11. CASE \E p \in Positions : TakesEntry(p)
    BY <1>11, NamesAssumption
    DEF TakesEntry, TypeOK, InLoop, InCycle, thread, apis, world
  <1>12. CASE PartialClose
    <2>1. orphan' \in BOOLEAN /\ rm_pos' \notin Positions /\ pc' = "managing"
      BY <1>12, NamesAssumption DEF PartialClose, LetsGo
    <2>2. /\ broker' \in [Positions -> {"unused", "open", "closed"}]
          /\ partials' \in [Positions -> Nat]
          /\ registry' \in [Positions -> {"absent", "fresh", "partial_tp_done"}]
      BY <1>12 DEF PartialClose, MarksPartial, TypeOK
    <2>3. /\ rm_pos' = NoPosition
          /\ UNCHANGED <<running, seen, stale, apis, starts, faults, misreads, recorded>>
      BY <1>12 DEF PartialClose, LetsGo
    <2> QED
      BY <2>1, <2>2, <2>3 DEF TypeOK, InLoop, InCycle, apis
  <1>13. CASE ManagingEnds
    BY <1>13, NamesAssumption
    DEF ManagingEnds, TypeOK, InLoop, InCycle, thread, apis, world
  <1>14. CASE \E p \in Positions : ExecuteTrade(p)
    BY <1>14, NamesAssumption
    DEF ExecuteTrade, TypeOK, InLoop, InCycle, thread, apis, world
  <1>15. CASE CycleEnds
    BY <1>15, NamesAssumption
    DEF CycleEnds, TypeOK, InLoop, InCycle, thread, apis, world
  <1>16. CASE Exception
    <2>1. orphan' \in BOOLEAN /\ rm_pos' \notin Positions /\ pc' = "sleeping"
      BY <1>16, NamesAssumption DEF Exception, AfterException, LetsGo
    <2>2. /\ rm_pos' = NoPosition /\ seen' = {} /\ stale' = {}
          /\ faults' = faults + 1
          /\ UNCHANGED <<running, apis, registry, broker, starts, misreads, partials,
                         recorded>>
      BY <1>16 DEF Exception, LetsGo
    <2> QED
      BY <2>1, <2>2 DEF TypeOK, InLoop, InCycle, apis
  <1> QED
    BY <1>1, <1>2, <1>3, <1>4, <1>5, <1>6, <1>7, <1>8, <1>9, <1>10, <1>11, <1>12, <1>13, <1>14, <1>15, <1>16 DEF ThreadStep

LEMMA ApiType ==
  ASSUME TypeOK, NEW a \in ApiThreads, ApiStep(a) PROVE TypeOK'
  <1>1. CASE ApiConnects(a)
    BY <1>1 DEF ApiConnects, Reads, Opened, TypeOK, thread, world
  <1>2. CASE \E p \in Positions : ApiRegisters(a, p)
    BY <1>2 DEF ApiRegisters, TypeOK, world
  <1>3. CASE ApiStarted(a)
    BY <1>3 DEF ApiStarted, TypeOK, thread, world
  <1> QED
    BY <1>1, <1>2, <1>3 DEF ApiStep

LEMMA NextType == ASSUME TypeOK, [Next]_vars PROVE TypeOK'
  <1>1. CASE \E a \in ApiThreads : ApiStart(a)
    BY <1>1 DEF ApiStart, TypeOK, thread
  <1>2. CASE ApiStop
    BY <1>2 DEF ApiStop, TypeOK, thread, apis, world
  <1>3. CASE \E p \in Positions : PositionCloses(p)
    BY <1>3 DEF PositionCloses, TypeOK, thread, apis
  <1>4. CASE UNCHANGED vars
    BY <1>4 DEF vars, TypeOK, thread, apis, world
  <1> QED
    BY ThreadType, ApiType, <1>1, <1>2, <1>3, <1>4 DEF Next

----------------------------------------------------------------------------
(* The books.                                                              *)

LEMMA PromisesCounted ==
  ASSUME NEW p PROVE  IsFiniteSet(Promises(p)) /\ Cardinality(Promises(p)) \in Nat
  <1>1. Promises(p) \subseteq ApiThreads
    BY DEF Promises
  <1> QED
    BY <1>1, ThreadsAssumption, FS_Subset, FS_CardinalityType

LEMMA SamePromises ==
  ASSUME UNCHANGED apis, NEW p PROVE Promises(p)' = Promises(p)
  BY DEF Promises, apis

LEMMA InitBooks == Init => IInv
  <1> SUFFICES ASSUME Init, NEW p \in Positions PROVE Books(p)
    BY InitType DEF IInv
  <1>1. Promises(p) = {}
    BY DEF Init, Promises
  <1>2. Cardinality(Promises(p)) = 0
    BY <1>1, FS_EmptySet
  <1>3. rm_pos # p /\ ~Held(p)
    BY NamesAssumption DEF Init, Held
  <1>4. /\ partials[p] = 0 /\ recorded[p] = 0 /\ starts = 0 /\ misreads = 0
        /\ pc = "starting" /\ registry[p] = "absent" /\ seen = {}
    BY DEF Init
  <1>5. /\ First(p) = 1 /\ Untaken(p) = 0 /\ InHand(p) = 0 /\ Entry(p) = 0
        /\ Doomed(p) = 0
    BY <1>3, <1>4 DEF First, Untaken, InHand, Entry, Doomed
  <1>6. Known(p)
    BY <1>3, <1>4 DEF Known
  <1> QED
    BY <1>2, <1>4, <1>5, <1>6 DEF Books, PartialsPaid, RecordsPaid

LEMMA ThreadKeepsApis == ASSUME ThreadStep PROVE UNCHANGED <<apis, starts>>
  BY DEF ThreadStep, ThreadConnects, ThreadRegisters, ThreadStarted, Loops, Gates, FindStale, Reconcile, ReverseReconcile, LeavesPosition, CloseTrade, TakesEntry, PartialClose, ManagingEnds, ExecuteTrade, CycleEnds, Exception,
         thread, world

LEMMA ThreadBooks ==
  ASSUME IInv, ThreadStep, NEW p \in Positions PROVE Books(p)'
  <1> DEFINE n == Cardinality(Promises(p))
  <1>0. n \in Nat /\ n' = n
    BY PromisesCounted, SamePromises, ThreadKeepsApis
  <1> HIDE DEF n
  <1>a. /\ TypeOK /\ Books(p)
        /\ partials[p] \in Nat /\ recorded[p] \in Nat
        /\ starts \in Nat /\ misreads \in Nat
        /\ rm_pos \in Positions <=> pc = "partial"
    BY DEF IInv, TypeOK
  <1>1. CASE ThreadConnects
    <2>1. Known(p)'
      BY <1>1, <1>a, NamesAssumption
      DEF ThreadConnects, Reads, Opened, Books, Known, TypeOK, Held, InLoop, InCycle,
          thread, world
    <2>2. PartialsPaid(p)'
      BY <1>1, <1>0, <1>a, NamesAssumption
      DEF ThreadConnects, Reads, Opened, Books, Known, PartialsPaid, Untaken, InHand, Doomed,
          First, TypeOK, Held, InLoop, InCycle, thread, world, n
    <2>3. RecordsPaid(p)'
      BY <1>1, <1>0, <1>a, NamesAssumption
      DEF ThreadConnects, Reads, Opened, Books, Known, RecordsPaid, Entry, Doomed,
          First, TypeOK, Held, InLoop, InCycle, thread, world, n
    <2> QED
      BY <2>1, <2>2, <2>3 DEF Books
  <1>2. CASE \E q \in Positions : ThreadRegisters(q)
    <2>1. Known(p)'
      BY <1>2, <1>a, NamesAssumption
      DEF ThreadRegisters, Books, Known, TypeOK, Held, InLoop, InCycle,
          thread, world
    <2>2. PartialsPaid(p)'
      BY <1>2, <1>0, <1>a, NamesAssumption
      DEF ThreadRegisters, Books, Known, PartialsPaid, Untaken, InHand, Doomed,
          First, TypeOK, Held, InLoop, InCycle, thread, world, n
    <2>3. RecordsPaid(p)'
      BY <1>2, <1>0, <1>a, NamesAssumption
      DEF ThreadRegisters, Books, Known, RecordsPaid, Entry, Doomed,
          First, TypeOK, Held, InLoop, InCycle, thread, world, n
    <2> QED
      BY <2>1, <2>2, <2>3 DEF Books
  <1>3. CASE ThreadStarted
    <2>1. Known(p)'
      BY <1>3, <1>a, NamesAssumption
      DEF ThreadStarted, Books, Known, TypeOK, Held, InLoop, InCycle,
          thread, world
    <2>2. PartialsPaid(p)'
      BY <1>3, <1>0, <1>a, NamesAssumption
      DEF ThreadStarted, Books, Known, PartialsPaid, Untaken, InHand, Doomed,
          First, TypeOK, Held, InLoop, InCycle, thread, world, n
    <2>3. RecordsPaid(p)'
      BY <1>3, <1>0, <1>a, NamesAssumption
      DEF ThreadStarted, Books, Known, RecordsPaid, Entry, Doomed,
          First, TypeOK, Held, InLoop, InCycle, thread, world, n
    <2> QED
      BY <2>1, <2>2, <2>3 DEF Books
  <1>4. CASE Loops
    <2>1. Known(p)'
      BY <1>4, <1>a, NamesAssumption
      DEF Loops, LoopTest, Books, Known, TypeOK, Held, InLoop, InCycle,
          thread, world
    <2>2. PartialsPaid(p)'
      BY <1>4, <1>0, <1>a, NamesAssumption
      DEF Loops, LoopTest, Books, Known, PartialsPaid, Untaken, InHand, Doomed,
          First, TypeOK, Held, InLoop, InCycle, thread, world, n
    <2>3. RecordsPaid(p)'
      BY <1>4, <1>0, <1>a, NamesAssumption
      DEF Loops, LoopTest, Books, Known, RecordsPaid, Entry, Doomed,
          First, TypeOK, Held, InLoop, InCycle, thread, world, n
    <2> QED
      BY <2>1, <2>2, <2>3 DEF Books
  <1>5. CASE Gates
    <2>1. Known(p)'
      BY <1>5, <1>a, NamesAssumption
      DEF Gates, Reads, Opened, Books, Known, TypeOK, Held, InLoop, InCycle,
          thread, world
    <2>2. PartialsPaid(p)'
      BY <1>5, <1>0, <1>a, NamesAssumption
      DEF Gates, Reads, Opened, Books, Known, PartialsPaid, Untaken, InHand, Doomed,
          First, TypeOK, Held, InLoop, InCycle, thread, world, n
    <2>3. RecordsPaid(p)'
      BY <1>5, <1>0, <1>a, NamesAssumption
      DEF Gates, Reads, Opened, Books, Known, RecordsPaid, Entry, Doomed,
          First, TypeOK, Held, InLoop, InCycle, thread, world, n
    <2> QED
      BY <2>1, <2>2, <2>3 DEF Books
  <1>6. CASE FindStale
    <2>1. Known(p)'
      BY <1>6, <1>a, NamesAssumption
      DEF FindStale, StaleEntries, Books, Known, TypeOK, Held, InLoop, InCycle,
          thread, world
    <2>2. PartialsPaid(p)'
      BY <1>6, <1>0, <1>a, NamesAssumption
      DEF FindStale, StaleEntries, Books, Known, PartialsPaid, Untaken, InHand, Doomed,
          First, TypeOK, Held, InLoop, InCycle, thread, world, n
    <2>3. RecordsPaid(p)'
      BY <1>6, <1>0, <1>a, NamesAssumption
      DEF FindStale, StaleEntries, Books, Known, RecordsPaid, Entry, Doomed,
          First, TypeOK, Held, InLoop, InCycle, thread, world, n
    <2> QED
      BY <2>1, <2>2, <2>3 DEF Books
  <1>7. CASE \E q \in Positions : Reconcile(q)
    <2>1. Known(p)'
      BY <1>7, <1>a, NamesAssumption
      DEF Reconcile, DropsEntry, Books, Known, TypeOK, Held, InLoop, InCycle,
          thread, world
    <2>2. PartialsPaid(p)'
      BY <1>7, <1>0, <1>a, NamesAssumption
      DEF Reconcile, DropsEntry, Books, Known, PartialsPaid, Untaken, InHand, Doomed,
          First, TypeOK, Held, InLoop, InCycle, thread, world, n
    <2>3. RecordsPaid(p)'
      BY <1>7, <1>0, <1>a, NamesAssumption
      DEF Reconcile, DropsEntry, Books, Known, RecordsPaid, Entry, Doomed,
          First, TypeOK, Held, InLoop, InCycle, thread, world, n
    <2> QED
      BY <2>1, <2>2, <2>3 DEF Books
  <1>8. CASE ReverseReconcile
    <2>1. Known(p)'
      BY <1>8, <1>a, NamesAssumption
      DEF ReverseReconcile, Books, Known, TypeOK, Held, InLoop, InCycle,
          thread, world
    <2>2. PartialsPaid(p)'
      BY <1>8, <1>0, <1>a, NamesAssumption
      DEF ReverseReconcile, Books, Known, PartialsPaid, Untaken, InHand, Doomed,
          First, TypeOK, Held, InLoop, InCycle, thread, world, n
    <2>3. RecordsPaid(p)'
      BY <1>8, <1>0, <1>a, NamesAssumption
      DEF ReverseReconcile, Books, Known, RecordsPaid, Entry, Doomed,
          First, TypeOK, Held, InLoop, InCycle, thread, world, n
    <2> QED
      BY <2>1, <2>2, <2>3 DEF Books
  <1>9. CASE \E q \in Positions : LeavesPosition(q)
    <2>1. Known(p)'
      BY <1>9, <1>a, NamesAssumption
      DEF LeavesPosition, Books, Known, TypeOK, Held, InLoop, InCycle,
          thread, world
    <2>2. PartialsPaid(p)'
      BY <1>9, <1>0, <1>a, NamesAssumption
      DEF LeavesPosition, Books, Known, PartialsPaid, Untaken, InHand, Doomed,
          First, TypeOK, Held, InLoop, InCycle, thread, world, n
    <2>3. RecordsPaid(p)'
      BY <1>9, <1>0, <1>a, NamesAssumption
      DEF LeavesPosition, Books, Known, RecordsPaid, Entry, Doomed,
          First, TypeOK, Held, InLoop, InCycle, thread, world, n
    <2> QED
      BY <2>1, <2>2, <2>3 DEF Books
  <1>10. CASE \E q \in Positions : CloseTrade(q)
    <2>1. Known(p)'
      BY <1>10, <1>a, NamesAssumption
      DEF CloseTrade, Books, Known, TypeOK, Held, InLoop, InCycle,
          thread, world
    <2>2. PartialsPaid(p)'
      BY <1>10, <1>0, <1>a, NamesAssumption
      DEF CloseTrade, Books, Known, PartialsPaid, Untaken, InHand, Doomed,
          First, TypeOK, Held, InLoop, InCycle, thread, world, n
    <2>3. RecordsPaid(p)'
      BY <1>10, <1>0, <1>a, NamesAssumption
      DEF CloseTrade, Books, Known, RecordsPaid, Entry, Doomed,
          First, TypeOK, Held, InLoop, InCycle, thread, world, n
    <2> QED
      BY <2>1, <2>2, <2>3 DEF Books
  <1>11. CASE \E q \in Positions : TakesEntry(q)
    <2>1. Known(p)'
      BY <1>11, <1>a, NamesAssumption
      DEF TakesEntry, Books, Known, TypeOK, Held, InLoop, InCycle,
          thread, world
    <2>2. PartialsPaid(p)'
      BY <1>11, <1>0, <1>a, NamesAssumption
      DEF TakesEntry, Books, Known, PartialsPaid, Untaken, InHand, Doomed,
          First, TypeOK, Held, InLoop, InCycle, thread, world, n
    <2>3. RecordsPaid(p)'
      BY <1>11, <1>0, <1>a, NamesAssumption
      DEF TakesEntry, Books, Known, RecordsPaid, Entry, Doomed,
          First, TypeOK, Held, InLoop, InCycle, thread, world, n
    <2> QED
      BY <2>1, <2>2, <2>3 DEF Books
  <1>12. CASE PartialClose
    <2>1. Known(p)'
      BY <1>12, <1>a, NamesAssumption
      DEF PartialClose, MarksPartial, LetsGo, Books, Known, TypeOK, Held, InLoop, InCycle,
          thread, world
    <2>2. PartialsPaid(p)'
      BY <1>12, <1>0, <1>a, NamesAssumption
      DEF PartialClose, MarksPartial, LetsGo, Books, Known, PartialsPaid, Untaken, InHand, Doomed,
          First, TypeOK, Held, InLoop, InCycle, thread, world, n
    <2>3. RecordsPaid(p)'
      BY <1>12, <1>0, <1>a, NamesAssumption
      DEF PartialClose, MarksPartial, LetsGo, Books, Known, RecordsPaid, Entry, Doomed,
          First, TypeOK, Held, InLoop, InCycle, thread, world, n
    <2> QED
      BY <2>1, <2>2, <2>3 DEF Books
  <1>13. CASE ManagingEnds
    <2>1. Known(p)'
      BY <1>13, <1>a, NamesAssumption
      DEF ManagingEnds, Books, Known, TypeOK, Held, InLoop, InCycle,
          thread, world
    <2>2. PartialsPaid(p)'
      BY <1>13, <1>0, <1>a, NamesAssumption
      DEF ManagingEnds, Books, Known, PartialsPaid, Untaken, InHand, Doomed,
          First, TypeOK, Held, InLoop, InCycle, thread, world, n
    <2>3. RecordsPaid(p)'
      BY <1>13, <1>0, <1>a, NamesAssumption
      DEF ManagingEnds, Books, Known, RecordsPaid, Entry, Doomed,
          First, TypeOK, Held, InLoop, InCycle, thread, world, n
    <2> QED
      BY <2>1, <2>2, <2>3 DEF Books
  <1>14. CASE \E q \in Positions : ExecuteTrade(q)
    <2>1. Known(p)'
      BY <1>14, <1>a, NamesAssumption
      DEF ExecuteTrade, Books, Known, TypeOK, Held, InLoop, InCycle,
          thread, world
    <2>2. PartialsPaid(p)'
      BY <1>14, <1>0, <1>a, NamesAssumption
      DEF ExecuteTrade, Books, Known, PartialsPaid, Untaken, InHand, Doomed,
          First, TypeOK, Held, InLoop, InCycle, thread, world, n
    <2>3. RecordsPaid(p)'
      BY <1>14, <1>0, <1>a, NamesAssumption
      DEF ExecuteTrade, Books, Known, RecordsPaid, Entry, Doomed,
          First, TypeOK, Held, InLoop, InCycle, thread, world, n
    <2> QED
      BY <2>1, <2>2, <2>3 DEF Books
  <1>15. CASE CycleEnds
    <2>1. Known(p)'
      BY <1>15, <1>a, NamesAssumption
      DEF CycleEnds, Books, Known, TypeOK, Held, InLoop, InCycle,
          thread, world
    <2>2. PartialsPaid(p)'
      BY <1>15, <1>0, <1>a, NamesAssumption
      DEF CycleEnds, Books, Known, PartialsPaid, Untaken, InHand, Doomed,
          First, TypeOK, Held, InLoop, InCycle, thread, world, n
    <2>3. RecordsPaid(p)'
      BY <1>15, <1>0, <1>a, NamesAssumption
      DEF CycleEnds, Books, Known, RecordsPaid, Entry, Doomed,
          First, TypeOK, Held, InLoop, InCycle, thread, world, n
    <2> QED
      BY <2>1, <2>2, <2>3 DEF Books
  <1>16. CASE Exception
    <2>1. Known(p)'
      BY <1>16, <1>a, NamesAssumption
      DEF Exception, AfterException, LetsGo, Books, Known, TypeOK, Held, InLoop, InCycle,
          thread, world
    <2>2. PartialsPaid(p)'
      BY <1>16, <1>0, <1>a, NamesAssumption
      DEF Exception, AfterException, LetsGo, Books, Known, PartialsPaid, Untaken, InHand, Doomed,
          First, TypeOK, Held, InLoop, InCycle, thread, world, n
    <2>3. RecordsPaid(p)'
      BY <1>16, <1>0, <1>a, NamesAssumption
      DEF Exception, AfterException, LetsGo, Books, Known, RecordsPaid, Entry, Doomed,
          First, TypeOK, Held, InLoop, InCycle, thread, world, n
    <2> QED
      BY <2>1, <2>2, <2>3 DEF Books
  <1> QED
    BY <1>1, <1>2, <1>3, <1>4, <1>5, <1>6, <1>7, <1>8, <1>9, <1>10, <1>11, <1>12, <1>13, <1>14, <1>15, <1>16 DEF ThreadStep

(* A promise is kept by writing the entry, and dropped when the terminal   *)
(* cannot be reached.                                                      *)
LEMMA ApiBooks ==
  ASSUME IInv, NEW a \in ApiThreads, ApiStep(a), NEW p \in Positions
  PROVE  Books(p)'
  <1> DEFINE n == Cardinality(Promises(p))
  <1>a. /\ TypeOK /\ Books(p) /\ n \in Nat
        /\ partials[p] \in Nat /\ recorded[p] \in Nat
        /\ starts \in Nat /\ misreads \in Nat
        /\ rm_pos \in Positions <=> pc = "partial"
    BY PromisesCounted DEF IInv, TypeOK
  <1>1. CASE ApiConnects(a) \/ ApiStarted(a)
    <2>1. Promises(p)' \subseteq Promises(p)
      BY <1>1, <1>a DEF ApiConnects, ApiStarted, Promises, TypeOK
    <2>2. n' \in Nat /\ n' <= n
      <3>1. /\ IsFiniteSet(Promises(p)')
            /\ Cardinality(Promises(p)') <= Cardinality(Promises(p))
        BY <2>1, PromisesCounted, FS_Subset
      <3> QED
        BY <3>1, FS_CardinalityType
    <2>3. /\ UNCHANGED <<pc, seen, stale, rm_pos, orphan, registry, broker, starts,
                         partials, recorded>>
          /\ misreads' \in Nat /\ misreads <= misreads'
      BY <1>1, <1>a DEF ApiConnects, Reads, ApiStarted, thread, world
    <2> HIDE DEF n
    <2>4. Known(p)'
      BY <1>a, <2>3 DEF Books, Known, Held
    <2>5. PartialsPaid(p)' /\ RecordsPaid(p)'
      BY <1>a, <2>2, <2>3
      DEF Books, PartialsPaid, RecordsPaid, Untaken, InHand, First, Entry, Doomed, Held, n
    <2> QED
      BY <2>4, <2>5 DEF Books
  <1>2. ASSUME NEW q \in Positions, ApiRegisters(a, q) PROVE Books(p)'
    <2>1. /\ registry' = [registry EXCEPT ![q] = "fresh"]
          /\ orphan' = (orphan \/ rm_pos = q)
          /\ UNCHANGED <<pc, seen, stale, rm_pos, broker, starts, misreads,
                         partials, recorded>>
      BY <1>2 DEF ApiRegisters, world
    <2>2. CASE q = p
      <3>1. a \in Promises(p) /\ Promises(p)' = Promises(p) \ {a}
        BY <1>2, <2>2, <1>a DEF ApiRegisters, Promises, TypeOK
      <3>2. n' = n - 1
        <4>1. Cardinality(Promises(p) \ {a}) = Cardinality(Promises(p)) - 1
          BY <3>1, PromisesCounted, FS_RemoveElement
        <4> QED
          BY <3>1, <4>1
      <3>3. registry'[p] = "fresh"
        BY <2>1, <2>2, <1>a DEF TypeOK
      <3> HIDE DEF n
      <3>4. Known(p)'
        BY <1>a, <2>1, <3>3 DEF Books, Known, Held
      <3>5. PartialsPaid(p)' /\ RecordsPaid(p)'
        BY <1>a, <2>1, <2>2, <3>2, <3>3
        DEF Books, PartialsPaid, RecordsPaid, Untaken, InHand, First, Entry, Doomed,
            Held, n
      <3> QED
        BY <3>4, <3>5 DEF Books
    <2>3. CASE q # p
      <3>1. Promises(p)' = Promises(p)
        BY <1>2, <2>3, <1>a DEF ApiRegisters, Promises, TypeOK
      <3>2. n' = n
        BY <3>1
      <3>3. registry'[p] = registry[p] /\ (rm_pos = p => orphan' = orphan)
        BY <2>1, <2>3, <1>a DEF TypeOK
      <3> HIDE DEF n
      <3>4. Known(p)'
        BY <1>a, <2>1, <3>3 DEF Books, Known, Held
      <3>5. PartialsPaid(p)' /\ RecordsPaid(p)'
        BY <1>a, <2>1, <3>2, <3>3
        DEF Books, PartialsPaid, RecordsPaid, Untaken, InHand, First, Entry, Doomed,
            Held, n
      <3> QED
        BY <3>4, <3>5 DEF Books
    <2> QED
      BY <2>2, <2>3
  <1> QED
    BY <1>1, <1>2 DEF ApiStep

(* A call of the endpoint makes one promise for every position.            *)
LEMMA RestBooks ==
  ASSUME IInv, NEW p \in Positions,
         \/ \E a \in ApiThreads : ApiStart(a)
         \/ ApiStop
         \/ \E q \in Positions : PositionCloses(q)
         \/ UNCHANGED vars
  PROVE  Books(p)'
  <1> DEFINE n == Cardinality(Promises(p))
  <1>a. /\ TypeOK /\ Books(p) /\ n \in Nat
        /\ partials[p] \in Nat /\ recorded[p] \in Nat
        /\ starts \in Nat /\ misreads \in Nat
        /\ rm_pos \in Positions <=> pc = "partial"
    BY PromisesCounted DEF IInv, TypeOK
  <1>1. ASSUME NEW a \in ApiThreads, ApiStart(a) PROVE Books(p)'
    <2>1. a \notin Promises(p) /\ Promises(p)' = Promises(p) \cup {a}
      BY <1>1, <1>a DEF ApiStart, Promises, TypeOK
    <2>2. n' = n + 1
      BY <2>1, PromisesCounted, FS_AddElement
    <2>3. /\ starts' = starts + 1
          /\ UNCHANGED <<pc, seen, stale, rm_pos, orphan, registry, broker,
                         misreads, partials, recorded>>
      BY <1>1 DEF ApiStart, thread
    <2> HIDE DEF n
    <2>4. Known(p)'
      BY <1>a, <2>3 DEF Books, Known, Held
    <2>5. PartialsPaid(p)' /\ RecordsPaid(p)'
      BY <1>a, <2>2, <2>3
      DEF Books, PartialsPaid, RecordsPaid, Untaken, InHand, First, Entry, Doomed, Held, n
    <2> QED
      BY <2>4, <2>5 DEF Books
  <1>2. ASSUME \/ ApiStop
               \/ \E q \in Positions : PositionCloses(q)
               \/ UNCHANGED vars
        PROVE  Books(p)'
    <2>1. UNCHANGED <<thread, apis, registry, starts, misreads, partials, recorded>>
      BY <1>2 DEF ApiStop, PositionCloses, vars, world
    <2>2. n' = n
      BY <2>1, SamePromises
    <2>3. \/ broker'[p] = broker[p]
          \/ broker[p] = "open" /\ broker'[p] = "closed"
      BY <1>2, <1>a DEF ApiStop, PositionCloses, vars, world, TypeOK
    <2> HIDE DEF n
    <2>4. Known(p)'
      BY <1>a, <2>1, <2>3 DEF Books, Known, Held, thread
    <2>5. PartialsPaid(p)' /\ RecordsPaid(p)'
      BY <1>a, <2>1, <2>2, <2>3
      DEF Books, PartialsPaid, RecordsPaid, Untaken, InHand, First, Entry, Doomed, Held,
          thread, n
    <2> QED
      BY <2>4, <2>5 DEF Books
  <1> QED
    BY <1>1, <1>2

LEMMA NextBooks == ASSUME IInv, [Next]_vars PROVE IInv'
  <1>1. TypeOK'
    BY NextType DEF IInv
  <1>2. ASSUME NEW p \in Positions PROVE Books(p)'
    BY ThreadBooks, ApiBooks, RestBooks DEF Next
  <1> QED
    BY <1>1, <1>2 DEF IInv

LEMMA Inductive == Spec => []IInv
  BY InitBooks, NextBooks, PTL DEF Spec

(* Type correctness; in particular the cycle of run_cycle holds an entry of *)
(* the registry only while a partial close is under way.                   *)
THEOREM TypeCorrect == Spec => []TypeOK
  <1>1. IInv => TypeOK
    BY DEF IInv
  <1> QED
    BY <1>1, Inductive, PTL

(* However many threads serve /engine/start, however a cycle and a start   *)
(* interleave and whatever reads fail, _manage_existing_positions and      *)
(* _close_trade record a position's result once, and once more at most for *)
(* each start and each failed read.                                        *)
THEOREM CountedOnce == Spec => []CountsPaidFor
  <1>1. ASSUME IInv, NEW p \in Positions
        PROVE  recorded[p] <= 1 + starts + misreads
    <2>1. /\ RecordsPaid(p) /\ recorded[p] \in Nat
          /\ starts \in Nat /\ misreads \in Nat
          /\ Cardinality(Promises(p)) \in Nat
      BY <1>1, PromisesCounted DEF IInv, Books, TypeOK
    <2> QED
      BY <2>1 DEF RecordsPaid, Entry, First, Doomed
  <1>2. IInv => CountsPaidFor
    BY <1>1 DEF CountsPaidFor
  <1> QED
    BY <1>2, Inductive, PTL

(* The partial target of _manage_existing_positions is taken once, and     *)
(* once more at most for each start and each failed read, by which the     *)
(* entry that remembers it was replaced.                                   *)
THEOREM PartialOnce == Spec => []PartialsPaidFor
  <1>1. ASSUME IInv, NEW p \in Positions
        PROVE  partials[p] <= 1 + starts + misreads
    <2>1. /\ PartialsPaid(p) /\ partials[p] \in Nat
          /\ starts \in Nat /\ misreads \in Nat
          /\ Cardinality(Promises(p)) \in Nat
      BY <1>1, PromisesCounted DEF IInv, Books, TypeOK
    <2> QED
      BY <2>1 DEF PartialsPaid, Untaken, InHand, First, Doomed
  <1>2. IInv => PartialsPaidFor
    BY <1>1 DEF PartialsPaidFor
  <1> QED
    BY <1>2, Inductive, PTL
=============================================================================
