------------------------- MODULE LiveTrading_proofs -------------------------
(***************************************************************************)
(* Proofs about LiveTrading, for every value of its constants.             *)
(***************************************************************************)
EXTENDS LiveTrading, FiniteSetTheorems, TLAPS

(* The operations that may yet leave an engine behind: a start that has    *)
(* passed its check, and a stop.                                           *)
Costly ==
    {a \in Actors :
        pc[a] \in {"spawning", "stopping", "stopped", "waiting", "killed"}}

Orphans == Alive \ {trading_process}

(* The engine trading_process names may be the next orphan: a start is     *)
(* about to name another, or a stop is about to forget it that has         *)
(* terminated some other engine or none.                                   *)
Loose ==
    /\ Running
    /\ \/ \E a \in Actors : pc[a] = "spawning"
       \/ \E t \in Threads : /\ pc[t] \in {"waiting", "killed"}
                             /\ victim[t] # trading_process

(* Of the costly operations under way one is free; each of the others has  *)
(* begun while another was under way, which overlaps has counted.          *)
OneFree(k) == IF k = 0 THEN 0 ELSE k - 1

OrphansAndRisks ==
    Cardinality(Orphans) + OneFree(Cardinality(Costly))
        + (IF Loose THEN 1 ELSE 0) <= overlaps + reboots

(* A watchdog that no flag stands for is one a stop has left.              *)
WatchdogsCounted ==
    Cardinality({w \in Watchdogs : Live(w)})
        <= (IF watchdog_active THEN 1 ELSE 0) + stops

(* As long as operations come one at a time, an engine is always named, a  *)
(* start that goes ahead finds none, and a stop clears the one it stopped. *)
InOrder ==
    /\ \A a, b \in Busy : a = b
    /\ Alive \subseteq {trading_process}
    /\ \A a \in Actors :
           /\ pc[a] \in {"spawning", "killed"} => Alive = {}
           /\ pc[a] \in {"watching", "delaying", "restarting"}
                  => control = "running"
    /\ \A t \in Threads : pc[t] = "waiting" => victim[t] = trading_process
    /\ Busy = {} /\ control = "stopped" => Alive = {}

Orderly == overlaps = 0 /\ reboots = 0 => InOrder

IInv == TypeOK /\ OrphansAndRisks /\ WatchdogsCounted /\ Orderly

----------------------------------------------------------------------------
(* Types.                                                                  *)

LEMMA InitType == Init => TypeOK
  <1> SUFFICES ASSUME Init PROVE TypeOK
    OBVIOUS
  <1>1. watchdog_active \in BOOLEAN
    BY DEF Init
  <1>2. /\ pc \in [Actors -> ThreadSteps \cup WatchdogSteps]
        /\ \A t \in Threads : pc[t] \in ThreadSteps /\ pc[t] # "waiting"
        /\ \A w \in Watchdogs : pc[w] \in WatchdogSteps
    BY NamesAssumption DEF Init, Actors, ThreadSteps, WatchdogSteps
  <1>3. /\ victim \in [Threads -> Procs \cup {NoProc}]
        /\ \A t \in Threads : victim[t] \notin Procs
    BY NamesAssumption DEF Init
  <1> QED
    BY <1>1, <1>2, <1>3 DEF Init, TypeOK

LEMMA BeginsType ==
  ASSUME TypeOK, NEW a \in Actors, Begins(a)
  PROVE  overlaps' \in Nat /\ overlaps' \in {overlaps, overlaps + 1}
  BY DEF TypeOK, Begins

LEMMA StartType ==
  ASSUME TypeOK, NEW a \in Actors,
         StartRefused(a) \/ StartPasses(a) \/ StartStep(a)
  PROVE  TypeOK'
  <1>1. CASE StartRefused(a)
    BY <1>1, NamesAssumption
    DEF StartRefused, CanStart, Returned, TypeOK, counters, Actors,
        ThreadSteps, WatchdogSteps, StartSteps
  <1>2. CASE StartPasses(a)
    BY <1>2, NamesAssumption, BeginsType
    DEF StartPasses, CanStart, TypeOK, counters, Actors, ThreadSteps,
        WatchdogSteps, StartSteps
  <1>3. CASE \E p \in Procs : Popen(a, p)
    BY <1>3, NamesAssumption
    DEF Popen, Unused, TypeOK, counters, Actors, ThreadSteps, WatchdogSteps,
        StartSteps
  <1>4. CASE StartFails(a)
    BY <1>4, NamesAssumption
    DEF StartFails, Returned, TypeOK, counters, Actors, ThreadSteps,
        WatchdogSteps, StartSteps
  <1>5. CASE ExitedImmediately(a)
    BY <1>5, NamesAssumption
    DEF ExitedImmediately, Returned, TypeOK, counters, Actors, ThreadSteps,
        WatchdogSteps, StartSteps
  <1>6. CASE WriteRunning(a)
    BY <1>6, NamesAssumption
    DEF WriteRunning, MarksRunning, TypeOK, counters, Actors, ThreadSteps,
        WatchdogSteps, StartSteps
  <1>7. CASE StartWatchdog(a)
    BY <1>7, NamesAssumption
    DEF StartWatchdog, Returned, Live, TypeOK, counters, Actors, ThreadSteps,
        WatchdogSteps, StartSteps
  <1> QED
    BY <1>1, <1>2, <1>3, <1>4, <1>5, <1>6, <1>7 DEF StartStep

LEMMA StopType ==
  ASSUME TypeOK, NEW t \in Threads, StopWatchdog(t) \/ StopStep(t)
  PROVE  TypeOK'
  <1>1. CASE StopWatchdog(t)
    <2>1. watchdog_active' \in BOOLEAN /\ overlaps' \in Nat
      BY <1>1, BeginsType DEF StopWatchdog, Actors
    <2>2. /\ pc[t] = "idle" /\ stops' = stops + 1
          /\ pc' = [pc EXCEPT ![t] = "stopping"]
          /\ UNCHANGED <<trading_process, control, proc, victim, failures,
                         reboots>>
      BY <1>1 DEF StopWatchdog
    <2> QED
      BY <2>1, <2>2, NamesAssumption
      DEF TypeOK, Actors, ThreadSteps, WatchdogSteps, StartSteps
  <1>2. CASE WriteStopped(t)
    BY <1>2, NamesAssumption
    DEF WriteStopped, TypeOK, counters, Actors, ThreadSteps, WatchdogSteps,
        StartSteps
  <1>3. CASE Terminate(t)
    BY <1>3, NamesAssumption
    DEF Terminate, Running, Alive, TypeOK, counters, Actors, ThreadSteps,
        WatchdogSteps, StartSteps
  <1>4. CASE Kill(t)
    BY <1>4, NamesAssumption
    DEF Kill, KillsProcess, LetsVictimGo, Alive, TypeOK, counters, Actors,
        ThreadSteps, WatchdogSteps, StartSteps
  <1>5. CASE Forget(t)
    BY <1>5, NamesAssumption
    DEF Forget, LetsVictimGo, Alive, TypeOK, counters, Actors, ThreadSteps,
        WatchdogSteps, StartSteps
  <1> QED
    BY <1>1, <1>2, <1>3, <1>4, <1>5 DEF StopStep

LEMMA WatchdogType ==
  ASSUME TypeOK, NEW w \in Watchdogs, Wake(w) \/ Restart(w)
  PROVE  TypeOK'
  <1>1. CASE Wake(w)
    BY <1>1, NamesAssumption, BeginsType
    DEF Wake, TypeOK, counters, Actors, ThreadSteps, WatchdogSteps, StartSteps
  <1>2. CASE Restart(w)
    BY <1>2, NamesAssumption
    DEF Restart, TypeOK, counters, Actors, ThreadSteps, WatchdogSteps,
        StartSteps
  <1> QED
    BY <1>1, <1>2

LEMMA NextType == ASSUME TypeOK, [Next]_vars PROVE TypeOK'
  <1>1. CASE \E p \in Procs : ProcessExits(p)
    BY <1>1, NamesAssumption
    DEF ProcessExits, Alive, TypeOK, counters, Actors, ThreadSteps,
        WatchdogSteps, StartSteps
  <1>2. CASE Reboot
    <2>1. watchdog_active' \in BOOLEAN
      BY <1>2 DEF Reboot
    <2>2. /\ pc' \in [Actors -> ThreadSteps \cup WatchdogSteps]
          /\ \A t \in Threads : pc'[t] \in ThreadSteps /\ pc'[t] # "waiting"
          /\ \A w \in Watchdogs : pc'[w] \in WatchdogSteps
      BY <1>2, NamesAssumption DEF Reboot, Actors, ThreadSteps, WatchdogSteps
    <2>3. /\ victim' \in [Threads -> Procs \cup {NoProc}]
          /\ \A t \in Threads : victim'[t] \notin Procs
      BY <1>2, NamesAssumption DEF Reboot
    <2> QED
      BY <1>2, <2>1, <2>2, <2>3 DEF Reboot, TypeOK
  <1>3. CASE UNCHANGED vars
    BY <1>3, NamesAssumption
    DEF vars, TypeOK, counters, Actors, ThreadSteps, WatchdogSteps, StartSteps
  <1> QED
    BY <1>1, <1>2, <1>3, StartType, StopType, WatchdogType
    DEF Next, WatchdogStep, Actors

----------------------------------------------------------------------------
(* Watchdogs.                                                              *)

Watching == {w \in Watchdogs : Live(w)}

LEMMA WatchingCounted ==
  /\ IsFiniteSet(Watching) /\ Cardinality(Watching) \in Nat
  /\ IsFiniteSet(Watching') /\ Cardinality(Watching') \in Nat
  BY FinitenessAssumption, FS_Subset, FS_CardinalityType DEF Watching

(* A start adds one watchdog when no flag stands for another; every other  *)
(* step but a stop leaves the flag set or lowers the number.               *)
LEMMA NextWatchdogs ==
  ASSUME TypeOK, WatchdogsCounted, [Next]_vars PROVE WatchdogsCounted'
  <1> DEFINE n == Cardinality(Watching)
             k == Cardinality(Watching')
             f == IF watchdog_active THEN 1 ELSE 0
             g == IF watchdog_active' THEN 1 ELSE 0
  <1>a. /\ n \in Nat /\ k \in Nat /\ stops \in Nat /\ stops' \in Nat
        /\ n <= f + stops
    BY WatchingCounted, NextType DEF WatchdogsCounted, Watching, TypeOK
  <1>b. SUFFICES k <= g + stops'
    BY DEF WatchdogsCounted, Watching, Live
  <1>1. ASSUME Watching' \subseteq Watching,
               \/ UNCHANGED <<watchdog_active, stops>>
               \/ stops' = stops + 1
        PROVE  k <= g + stops'
    <2>1. k <= n
      BY <1>1, WatchingCounted, FS_Subset
    <2>2. f \in {0, 1} /\ g \in {0, 1}
      OBVIOUS
    <2>3. CASE stops' = stops + 1
      <3> HIDE DEF n, k, f, g
      <3> QED
        BY <1>a, <2>1, <2>2, <2>3
    <2>4. CASE UNCHANGED <<watchdog_active, stops>>
      <3>1. f = g
        BY <2>4
      <3> HIDE DEF n, k, f, g
      <3> QED
        BY <1>a, <2>1, <2>2, <2>4, <3>1
    <2> QED
      BY <1>1, <2>3, <2>4
  <1>2. ASSUME NEW w \in Watching, Watching' = Watching \ {w}, UNCHANGED stops
        PROVE  k <= g + stops'
    <2>1. k = n - 1
      BY <1>2, WatchingCounted, FS_RemoveElement
    <2> HIDE DEF n, k
    <2> QED
      BY <1>2, <1>a, <2>1
  <1>3. ASSUME NEW w, w \notin Watching, Watching' = Watching \cup {w},
               ~watchdog_active, watchdog_active', UNCHANGED stops
        PROVE  k <= g + stops'
    <2>1. k = n + 1
      BY <1>3, WatchingCounted, FS_AddElement
    <2> HIDE DEF n, k
    <2> QED
      BY <1>3, <1>a, <2>1
  <1>4. ASSUME Watching' = {}, UNCHANGED stops PROVE k <= g + stops'
    <2>1. k = 0
      BY <1>4, FS_EmptySet
    <2> HIDE DEF n, k
    <2> QED
      BY <1>4, <1>a, <2>1
  <1> HIDE DEF n, k, f, g
  <1>5. ASSUME NEW a \in Actors,
               StartRefused(a) \/ StartPasses(a) \/ StartStep(a)
        PROVE  k <= g + stops'
    <2>1. CASE ~StartWatchdog(a)
      <3>1. UNCHANGED <<watchdog_active, stops>>
        BY <1>5, <2>1
        DEF StartStep, StartRefused, StartPasses, Popen, StartFails,
            ExitedImmediately, WriteRunning, counters
      <3>2. \A w \in Watchdogs : Live(w)' => Live(w)
        BY <1>5, <2>1, NamesAssumption
        DEF StartStep, StartRefused, StartPasses, Popen, StartFails,
            ExitedImmediately, WriteRunning, CanStart, Returned, Live, TypeOK,
            Actors
      <3> QED
        BY <1>1, <3>1, <3>2 DEF Watching
    <2>2. CASE StartWatchdog(a)
      <3>1. pc[a] = "watching" /\ watchdog_active' /\ UNCHANGED stops
        BY <2>2 DEF StartWatchdog, counters
      <3>2. CASE ~watchdog_active
        <4>1. PICK w \in Watchdogs :
                  /\ ~Live(w)
                  /\ pc' = [pc EXCEPT ![a] = Returned(a), ![w] = "sleeping"]
          BY <2>2, <3>2 DEF StartWatchdog, NeedsWatchdog
        <4>2. Watching' = Watching \cup {w} /\ w \notin Watching
          BY <3>1, <4>1, NamesAssumption
          DEF Watching, Live, Returned, TypeOK, Actors
        <4> QED
          BY <1>3, <3>1, <3>2, <4>2
      <3>3. CASE watchdog_active
        <4>1. pc' = [pc EXCEPT ![a] = Returned(a)]
          BY <2>2, <3>3 DEF StartWatchdog, NeedsWatchdog
        <4>2. Watching' \subseteq Watching
          BY <3>1, <4>1 DEF Watching, Live, Returned, TypeOK, Actors
        <4>3. UNCHANGED watchdog_active
          BY <3>1, <3>3 DEF TypeOK
        <4> QED
          BY <1>1, <3>1, <4>2, <4>3
      <3> QED
        BY <3>2, <3>3
    <2> QED
      BY <2>1, <2>2
  <1>6. ASSUME NEW t \in Threads, StopWatchdog(t) \/ StopStep(t)
        PROVE  k <= g + stops'
    <2>1. \/ UNCHANGED <<watchdog_active, stops>>
          \/ stops' = stops + 1
      BY <1>6
      DEF StopWatchdog, StopStep, WriteStopped, Terminate, Kill, Forget,
          counters
    <2>2. \A w \in Watchdogs : pc'[w] = pc[w]
      BY <1>6, NamesAssumption
      DEF StopWatchdog, StopStep, WriteStopped, Terminate, Kill, Forget,
          TypeOK, Actors
    <2> QED
      BY <1>1, <2>1, <2>2 DEF Watching, Live
  <1>7. ASSUME NEW w \in Watchdogs, Wake(w) PROVE k <= g + stops'
    <2>1. UNCHANGED stops
      BY <1>7 DEF Wake
    <2>2. CASE pc'[w] = "none"
      <3>1. w \in Watching /\ Watching' = Watching \ {w}
        BY <1>7, <2>2 DEF Wake, Watching, Live, TypeOK, Actors
      <3> QED
        BY <1>2, <2>1, <3>1
    <2>3. CASE pc'[w] # "none"
      <3>1. Watching' \subseteq Watching /\ UNCHANGED watchdog_active
        BY <1>7, <2>3 DEF Wake, Watching, Live, TypeOK, Actors
      <3> QED
        BY <1>1, <2>1, <3>1
    <2> QED
      BY <2>2, <2>3
  <1>8. ASSUME NEW w \in Watchdogs, Restart(w) PROVE k <= g + stops'
    <2>1. Watching' \subseteq Watching /\ UNCHANGED <<watchdog_active, stops>>
      BY <1>8 DEF Restart, Watching, Live, TypeOK, Actors, counters
    <2> QED
      BY <1>1, <2>1
  <1>9. CASE Reboot
    <2>1. Watching' = {} /\ UNCHANGED stops
      BY <1>9, NamesAssumption DEF Reboot, Watching, Live, Actors
    <2> QED
      BY <1>4, <2>1
  <1>10. CASE (\E p \in Procs : ProcessExits(p)) \/ UNCHANGED vars
    <2>1. UNCHANGED <<pc, watchdog_active, stops>>
      BY <1>10 DEF ProcessExits, vars, counters
    <2> QED
      BY <1>1, <2>1 DEF Watching, Live
  <1> QED
    BY <1>5, <1>6, <1>7, <1>8, <1>9, <1>10 DEF Next, WatchdogStep, Actors

----------------------------------------------------------------------------
(* Orphans.                                                                *)

LEMMA Counts ==
  /\ IsFiniteSet(Orphans) /\ Cardinality(Orphans) \in Nat
  /\ IsFiniteSet(Orphans') /\ Cardinality(Orphans') \in Nat
  /\ IsFiniteSet(Costly) /\ Cardinality(Costly) \in Nat
  /\ IsFiniteSet(Costly') /\ Cardinality(Costly') \in Nat
  /\ Cardinality(Costly) = 0 <=> Costly = {}
  /\ Cardinality(Costly') = 0 <=> Costly' = {}
  <1>1. IsFiniteSet(Actors)
    BY FinitenessAssumption, FS_Union DEF Actors
  <1>2. /\ Orphans \subseteq Procs /\ Orphans' \subseteq Procs
        /\ Costly \subseteq Actors /\ Costly' \subseteq Actors
    BY DEF Orphans, Alive, Costly
  <1>3. /\ IsFiniteSet(Orphans) /\ IsFiniteSet(Orphans')
        /\ IsFiniteSet(Costly) /\ IsFiniteSet(Costly')
    BY <1>1, <1>2, FinitenessAssumption, FS_Subset
  <1> QED
    BY <1>3, FS_CardinalityType, FS_EmptySet

(* An operation that begins beside another one is counted.                 *)
LEMMA BeginsCounted ==
  ASSUME TypeOK, NEW a \in Actors, a \notin Costly, Begins(a)
  PROVE  /\ overlaps \in Nat /\ overlaps' \in Nat /\ overlaps <= overlaps'
         /\ Costly # {} => overlaps' = overlaps + 1
  <1>1. Costly \subseteq Busy
    BY DEF Costly, Busy, Resting
  <1> QED
    BY <1>1 DEF Begins, TypeOK

LEMMA NoneCostlyNoneLoose ==
  /\ Costly = {} => ~Loose
  /\ Costly' = {} => ~Loose'
  BY DEF Costly, Loose, Actors

(* The balance of a step: what it adds to orphans, costly operations and   *)
(* risk is no more than what it adds to the counters.                      *)
LEMMA Balance ==
  ASSUME TypeOK, TypeOK', OrphansAndRisks,
         NEW o \in Nat, o = Cardinality(Orphans),
         NEW oo \in Nat, oo = Cardinality(Orphans'),
         NEW k \in Nat, k = Cardinality(Costly),
         NEW kk \in Nat, kk = Cardinality(Costly'),
         NEW l \in {0, 1}, l = (IF Loose THEN 1 ELSE 0),
         NEW ll \in {0, 1}, ll = (IF Loose' THEN 1 ELSE 0),
         OneFree(kk) + oo + ll + overlaps + reboots
             <= OneFree(k) + o + l + overlaps' + reboots'
  PROVE  OrphansAndRisks'
  <1>1. /\ overlaps \in Nat /\ overlaps' \in Nat
        /\ reboots \in Nat /\ reboots' \in Nat
    BY DEF TypeOK
  <1>2. OneFree(k) \in Nat /\ OneFree(kk) \in Nat
    BY DEF OneFree
  <1>3. o + OneFree(k) + l <= overlaps + reboots
    BY DEF OrphansAndRisks
  <1>4. oo + OneFree(kk) + ll <= overlaps' + reboots'
    BY <1>1, <1>2, <1>3
  <1> QED
    BY <1>4 DEF OrphansAndRisks

(* Steps that leave the engines, their name and the costly operations      *)
(* alone.                                                                  *)
LEMMA QuietOrphans ==
  ASSUME TypeOK, TypeOK', OrphansAndRisks,
         UNCHANGED <<trading_process, proc, victim, reboots>>,
         overlaps <= overlaps',
         Costly' = Costly,
         \A a \in Actors :
             pc'[a] \in {"spawning", "waiting", "killed"} => pc'[a] = pc[a]
  PROVE  OrphansAndRisks'
  <1>1. Orphans' = Orphans
    BY DEF Orphans, Alive
  <1>2. Loose' => Loose
    BY DEF Loose, Running, Alive, Actors
  <1> DEFINE l == IF Loose THEN 1 ELSE 0
  <1>3. l \in {0, 1} /\ l' \in {0, 1} /\ l' <= l
    BY <1>2
  <1>4. OneFree(Cardinality(Costly)) \in Nat
    BY Counts DEF OneFree
  <1>5. /\ overlaps \in Nat /\ overlaps' \in Nat /\ reboots \in Nat
        /\ Cardinality(Orphans) \in Nat
        /\ Cardinality(Orphans) + OneFree(Cardinality(Costly)) + l
               <= overlaps + reboots
    BY Counts DEF OrphansAndRisks, TypeOK
  <1> HIDE DEF l
  <1>6. Cardinality(Orphans') + OneFree(Cardinality(Costly')) + l'
            <= overlaps' + reboots'
    BY <1>1, <1>3, <1>4, <1>5
  <1> QED
    BY <1>6 DEF OrphansAndRisks, l

LEMMA QuietSteps ==
  ASSUME TypeOK, TypeOK', OrphansAndRisks,
         \/ \E a \in Actors : \/ StartRefused(a) \/ ExitedImmediately(a)
                             \/ WriteRunning(a) \/ StartWatchdog(a)
         \/ \E t \in Threads : WriteStopped(t)
         \/ \E w \in Watchdogs : Wake(w) \/ Restart(w)
         \/ UNCHANGED vars
  PROVE  OrphansAndRisks'
  <1>1. /\ UNCHANGED <<trading_process, proc, victim, reboots>>
        /\ overlaps <= overlaps'
    BY BeginsType
    DEF StartRefused, ExitedImmediately, WriteRunning, StartWatchdog,
        WriteStopped, Wake, Restart, Begins, vars, counters, TypeOK, Actors
  <1>2. \A a \in Actors :
            /\ pc'[a] \in {"spawning", "waiting", "killed"} => pc'[a] = pc[a]
            /\ a \in Costly' <=> a \in Costly
    BY NamesAssumption
    DEF StartRefused, ExitedImmediately, WriteRunning, StartWatchdog, CanStart,
        Returned, Live, WriteStopped, Wake, Restart, vars, Costly, TypeOK,
        Actors
  <1>3. Costly' = Costly
    BY <1>2 DEF Costly
  <1> QED
    BY <1>1, <1>2, <1>3, QuietOrphans

LEMMA NextOrphans ==
  ASSUME TypeOK, OrphansAndRisks, [Next]_vars PROVE OrphansAndRisks'
  <1> DEFINE o == Cardinality(Orphans)
             oo == Cardinality(Orphans')
             k == Cardinality(Costly)
             kk == Cardinality(Costly')
             l == IF Loose THEN 1 ELSE 0
             ll == IF Loose' THEN 1 ELSE 0
  <1>a. /\ o \in Nat /\ oo \in Nat /\ k \in Nat /\ kk \in Nat
        /\ l \in {0, 1} /\ ll \in {0, 1}
        /\ k = 0 <=> Costly = {}
        /\ Costly' = {} => ll = 0
        /\ ~Running => l = 0
        /\ ~Running' => ll = 0
        /\ (Loose' => Loose) => ll <= l
        /\ Loose => l = 1
    BY Counts, NoneCostlyNoneLoose DEF Loose
  <1>b. ASSUME OneFree(kk) + oo + ll + overlaps + reboots
                   <= OneFree(k) + o + l + overlaps' + reboots'
        PROVE  OrphansAndRisks'
    BY <1>a, <1>b, NextType, Balance
  <1>c. /\ overlaps \in Nat /\ overlaps' \in Nat
        /\ reboots \in Nat /\ reboots' \in Nat
    BY NextType DEF TypeOK
  <1>d. ASSUME NEW a \in Costly, Costly' = Costly \ {a}
        PROVE  kk = k - 1 /\ k >= 1
    BY <1>d, <1>a, Counts, FS_RemoveElement
  <1>e. ASSUME NEW a, a \notin Costly, Costly' = Costly \cup {a}
        PROVE  kk = k + 1
    BY <1>e, Counts, FS_AddElement
  <1>f. Alive' = Alive /\ trading_process' = trading_process => oo = o
    BY DEF Orphans
  <1>g. trading_process' \notin Alive' /\ Alive' = Alive =>
            oo = IF Running THEN o + 1 ELSE o
    <2>1. CASE Running
      <3> SUFFICES ASSUME trading_process' \notin Alive', Alive' = Alive
                   PROVE  oo = o + 1
        BY <2>1
      <3>1. Orphans' = Orphans \cup {trading_process}
            /\ trading_process \notin Orphans
        BY <2>1 DEF Orphans, Running
      <3> QED
        BY <3>1, Counts, FS_AddElement
    <2>2. CASE ~Running
      BY <2>2 DEF Orphans, Running
    <2> QED
      BY <2>1, <2>2
  <1> HIDE DEF o, oo, k, kk, l, ll
  <1>1. ASSUME NEW a \in Actors, StartPasses(a) PROVE OrphansAndRisks'
    <2>1. a \notin Costly /\ Costly' = Costly \cup {a}
      BY <1>1 DEF StartPasses, CanStart, Costly, TypeOK, Actors
    <2>2. /\ overlaps <= overlaps'
          /\ k # 0 => overlaps' = overlaps + 1
      BY <1>1, <1>a, <2>1, BeginsCounted DEF StartPasses
    <2>3. kk = k + 1
      BY <1>e, <2>1
    <2>4. ll = 0 /\ oo = o /\ reboots' = reboots
      BY <1>1, <1>a, <1>f DEF StartPasses, AlreadyRunning, Running, Alive
    <2>5. OneFree(kk) + overlaps <= OneFree(k) + overlaps'
      <3>1. CASE k = 0
        <4>1. kk = 1
          BY <2>3, <3>1
        <4>2. OneFree(kk) = 0 /\ OneFree(k) = 0
          BY <3>1, <4>1 DEF OneFree
        <4> DEFINE v == overlaps
                   vv == overlaps'
        <4>3. v \in Nat /\ vv \in Nat /\ v <= vv
          BY <1>c, <2>2
        <4> HIDE DEF v, vv
        <4>4. OneFree(kk) + v <= OneFree(k) + vv
          BY <4>2, <4>3
        <4> QED
          BY <4>4 DEF v, vv
      <3>2. CASE k # 0
        <4>1. OneFree(kk) = k /\ OneFree(k) = k - 1
          BY <1>a, <2>3, <3>2 DEF OneFree
        <4>2. overlaps' = overlaps + 1
          BY <2>2, <3>2
        <4> QED
          BY <1>a, <1>c, <4>1, <4>2
      <3> QED
        BY <3>1, <3>2
    <2>6. OneFree(k) \in Int /\ OneFree(kk) \in Int
      BY <1>a DEF OneFree
    <2> QED
      BY <1>a, <1>b, <1>c, <2>4, <2>5, <2>6
  <1>2. ASSUME NEW a \in Actors, NEW p \in Procs, Popen(a, p)
        PROVE  OrphansAndRisks'
    <2>1. a \in Costly /\ Costly' = Costly \ {a}
      BY <1>2 DEF Popen, Costly, TypeOK, Actors
    <2>2. kk = k - 1 /\ k >= 1 /\ (kk = 0 => ll = 0)
      <3>1. kk = k - 1 /\ k >= 1
        BY <1>d, <2>1
      <3>2. kk = 0 => Costly' = {}
        BY Counts DEF kk
      <3> QED
        BY <1>a, <3>1, <3>2
    <2>3. oo = IF Running THEN o + 1 ELSE o
      <3>1. Alive' = Alive \cup {p} /\ p \notin Alive /\ trading_process' = p
        BY <1>2 DEF Popen, Unused, Alive, TypeOK
      <3>2. Orphans' = Alive
        BY <3>1 DEF Orphans
      <3>3. CASE Running
        <4>1. Orphans' = Orphans \cup {trading_process}
              /\ trading_process \notin Orphans
          BY <3>2, <3>3 DEF Orphans, Running
        <4> QED
          BY <3>3, <4>1, Counts, FS_AddElement DEF o, oo
      <3>4. CASE ~Running
        BY <3>2, <3>4 DEF Orphans, Running, o, oo
      <3> QED
        BY <3>3, <3>4
    <2>4. Running => l = 1
      BY <1>2, <1>a DEF Popen, Loose
    <2>5. UNCHANGED <<overlaps, reboots>>
      BY <1>2 DEF Popen, counters
    <2>6. CASE Running
      BY <1>a, <1>b, <1>c, <2>2, <2>3, <2>4, <2>5, <2>6 DEF OneFree
    <2>7. CASE ~Running
      BY <1>a, <1>b, <1>c, <2>2, <2>3, <2>5, <2>7 DEF OneFree
    <2> QED
      BY <2>6, <2>7
  <1>3. ASSUME NEW a \in Actors, StartFails(a) PROVE OrphansAndRisks'
    <2>1. a \in Costly /\ Costly' = Costly \ {a}
      BY <1>3 DEF StartFails, Costly, Returned, TypeOK, Actors
    <2>2. Loose' => Loose
      BY <1>3 DEF StartFails, Loose, Running, Alive, Returned, TypeOK, Actors
    <2>3. oo = o /\ UNCHANGED <<overlaps, reboots>>
      BY <1>3, <1>f DEF StartFails, Alive
    <2> QED
      BY <1>a, <1>b, <1>c, <1>d, <2>1, <2>2, <2>3 DEF OneFree
  <1>4. ASSUME NEW t \in Threads, StopWatchdog(t) PROVE OrphansAndRisks'
    <2>1. t \in Actors /\ t \notin Costly /\ Costly' = Costly \cup {t}
      BY <1>4 DEF StopWatchdog, Costly, TypeOK, Actors
    <2>2. /\ overlaps <= overlaps'
          /\ k # 0 => overlaps' = overlaps + 1
      BY <1>4, <1>a, <2>1, BeginsCounted DEF StopWatchdog
    <2>3. kk = k + 1
      BY <1>e, <2>1
    <2>4. Loose' => Loose
      BY <1>4 DEF StopWatchdog, Loose, Running, Alive, TypeOK, Actors
    <2>5. oo = o /\ reboots' = reboots
      BY <1>4, <1>f DEF StopWatchdog, Alive
    <2>6. ll <= l
      BY <1>a, <2>4
    <2>7. OneFree(kk) + overlaps <= OneFree(k) + overlaps'
      <3>1. CASE k = 0
        <4>1. kk = 1
          BY <2>3, <3>1
        <4>2. OneFree(kk) = 0 /\ OneFree(k) = 0
          BY <3>1, <4>1 DEF OneFree
        <4> DEFINE v == overlaps
                   vv == overlaps'
        <4>3. v \in Nat /\ vv \in Nat /\ v <= vv
          BY <1>c, <2>2
        <4> HIDE DEF v, vv
        <4>4. OneFree(kk) + v <= OneFree(k) + vv
          BY <4>2, <4>3
        <4> QED
          BY <4>4 DEF v, vv
      <3>2. CASE k # 0
        <4>1. OneFree(kk) = k /\ OneFree(k) = k - 1
          BY <1>a, <2>3, <3>2 DEF OneFree
        <4>2. overlaps' = overlaps + 1
          BY <2>2, <3>2
        <4> QED
          BY <1>a, <1>c, <4>1, <4>2
      <3> QED
        BY <3>1, <3>2
    <2>8. OneFree(k) \in Int /\ OneFree(kk) \in Int
      BY <1>a DEF OneFree
    <2> QED
      BY <1>a, <1>b, <1>c, <2>5, <2>6, <2>7, <2>8
  <1>5. ASSUME NEW t \in Threads, Terminate(t) PROVE OrphansAndRisks'
    <2>1. oo = o /\ UNCHANGED <<overlaps, reboots>>
      BY <1>5, <1>f DEF Terminate, Alive, counters
    <2>2. CASE Running
      <3>1. Costly' = Costly
        BY <1>5, <2>2 DEF Terminate, Costly, TypeOK, Actors
      <3>2. Loose' => Loose
        BY <1>5, <2>2 DEF Terminate, Loose, Running, Alive, TypeOK, Actors
      <3>3. kk = k
        BY <3>1 DEF k, kk
      <3> QED
        BY <1>a, <1>b, <1>c, <2>1, <3>2, <3>3 DEF OneFree
    <2>3. CASE ~Running
      <3>1. t \in Costly /\ Costly' = Costly \ {t}
        BY <1>5, <2>3 DEF Terminate, Costly, TypeOK, Actors
      <3>2. ll = 0
        BY <1>5, <2>3, <1>a DEF Terminate, Running, Alive
      <3> QED
        BY <1>a, <1>b, <1>c, <1>d, <2>1, <3>1, <3>2 DEF OneFree
    <2> QED
      BY <2>2, <2>3
  <1>6. ASSUME NEW t \in Threads, Kill(t) PROVE OrphansAndRisks'
    <2>1. UNCHANGED <<trading_process, overlaps, reboots>>
      BY <1>6 DEF Kill, counters
    <2>2. CASE trading_process # NoProc
      <3>1. /\ Costly' = Costly
            /\ Alive' = Alive \ {trading_process}
        BY <1>6, <2>2 DEF Kill, KillsProcess, Costly, Alive, TypeOK, Actors
      <3>2. Orphans' = Orphans /\ ~Running'
        BY <2>1, <3>1 DEF Orphans, Running
      <3>3. kk = k /\ oo = o /\ ll = 0
        BY <3>1, <3>2, <1>a DEF k, kk, o, oo
      <3> QED
        BY <1>a, <1>b, <1>c, <2>1, <3>3 DEF OneFree
    <2>3. CASE trading_process = NoProc
      <3>1. t \in Costly /\ Costly' = Costly \ {t}
        BY <1>6, <2>3 DEF Kill, Costly, TypeOK, Actors
      <3>2. Alive' = Alive /\ ~Running'
        BY <1>6, <2>3, NamesAssumption DEF Kill, Running, Alive
      <3>3. oo = o /\ ll = 0
        BY <1>a, <1>f, <2>1, <3>2
      <3> QED
        BY <1>a, <1>b, <1>c, <1>d, <2>1, <3>1, <3>3 DEF OneFree
    <2> QED
      BY <2>2, <2>3
  <1>7. ASSUME NEW t \in Threads, Forget(t) PROVE OrphansAndRisks'
    <2>1. t \in Costly /\ Costly' = Costly \ {t}
      BY <1>7 DEF Forget, Costly, TypeOK, Actors
    <2>2. Alive' = Alive /\ trading_process' \notin Alive' /\ ~Running'
      BY <1>7, NamesAssumption DEF Forget, Alive, Running
    <2>3. (oo = IF Running THEN o + 1 ELSE o) /\ ll = 0
      BY <1>a, <1>g, <2>2
    <2>4. Running => l = 1
      <3> SUFFICES ASSUME Running PROVE Loose
        BY <1>a
      <3>1. victim[t] # trading_process
        BY <1>7 DEF Forget, Running
      <3> QED
        BY <1>7, <3>1 DEF Forget, Loose
    <2>5. UNCHANGED <<overlaps, reboots>>
      BY <1>7 DEF Forget, counters
    <2>6. kk = k - 1 /\ k >= 1
      BY <1>d, <2>1
    <2>7. CASE Running
      BY <1>a, <1>b, <1>c, <2>3, <2>4, <2>5, <2>6, <2>7 DEF OneFree
    <2>8. CASE ~Running
      BY <1>a, <1>b, <1>c, <2>3, <2>5, <2>6, <2>8 DEF OneFree
    <2> QED
      BY <2>7, <2>8
  <1>8. ASSUME NEW p \in Procs, ProcessExits(p) PROVE OrphansAndRisks'
    <2>1. /\ Costly' = Costly /\ Alive' \subseteq Alive
          /\ UNCHANGED <<trading_process, overlaps, reboots, pc, victim>>
      BY <1>8 DEF ProcessExits, Costly, Alive, TypeOK, counters
    <2>2. Orphans' \subseteq Orphans /\ (Loose' => Loose)
      BY <2>1 DEF Orphans, Loose, Running
    <2>3. oo <= o /\ kk = k
      BY <2>1, <2>2, Counts, FS_Subset DEF o, oo, k, kk
    <2> QED
      BY <1>a, <1>b, <1>c, <2>1, <2>2, <2>3 DEF OneFree
  <1>9. ASSUME Reboot PROVE OrphansAndRisks'
    <2>1. Costly' = {} /\ Alive' = Alive /\ trading_process' \notin Alive'
      BY <1>9, NamesAssumption DEF Reboot, Costly, Alive, Actors
    <2>2. kk = 0 /\ ll = 0
      BY <2>1, <1>a, Counts DEF kk
    <2>3. oo = IF Running THEN o + 1 ELSE o
      BY <1>g, <2>1
    <2>4. reboots' = reboots + 1 /\ overlaps' = overlaps
      BY <1>9 DEF Reboot
    <2>5. oo <= o + 1
      BY <1>a, <2>3
    <2> QED
      BY <1>a, <1>b, <1>c, <2>2, <2>4, <2>5 DEF OneFree
  <1> QED
    BY <1>1, <1>2, <1>3, <1>4, <1>5, <1>6, <1>7, <1>8, <1>9, NextType,
       QuietSteps
    DEF Next, StartStep, StopStep, WatchdogStep, Actors

----------------------------------------------------------------------------
(* Operations that come one at a time.                                     *)

LEMMA InitOrderly == Init => InOrder
  <1> SUFFICES ASSUME Init PROVE InOrder
    OBVIOUS
  <1>1. Alive = {}
    BY DEF Init, Alive
  <1>2. \A a \in Actors : pc[a] \in Resting
    BY DEF Init, Resting
  <1> QED
    BY <1>1, <1>2 DEF InOrder, Busy, Resting, Actors

(* When everybody else rests, only the thread that takes the step matters. *)
LEMMA OneActor ==
  ASSUME NEW a \in Actors,
         \A b \in Actors \ {a} : pc'[b] \in Resting,
         Alive' \subseteq {trading_process'},
         pc'[a] \in {"spawning", "killed"} => Alive' = {},
         pc'[a] \in {"watching", "delaying", "restarting"}
             => control' = "running",
         a \in Threads /\ pc'[a] = "waiting" => victim'[a] = trading_process',
         pc'[a] \in Resting /\ control' = "stopped" => Alive' = {}
  PROVE  InOrder'
  <1>1. \A b \in Busy' : b = a
    BY DEF Busy
  <1>2. Busy' = {} => pc'[a] \in Resting
    BY DEF Busy
  <1>3. \A b \in Actors :
            pc'[b] \in {"spawning", "killed", "watching", "delaying",
                       "restarting", "waiting"} => b = a
    BY DEF Resting
  <1> QED
    BY <1>1, <1>2, <1>3 DEF InOrder, Actors

(* Steps by which nobody begins or ends anything.                          *)
LEMMA NothingBegins ==
  ASSUME InOrder,
         UNCHANGED <<trading_process, control, victim>>,
         Alive' \subseteq Alive,
         \A a \in Actors :
             pc'[a] = pc[a] \/ (pc[a] \in Resting /\ pc'[a] \in Resting)
  PROVE  InOrder'
  <1>1. Busy' = Busy
    BY DEF Busy
  <1>2. \A a \in Actors :
            pc'[a] \in {"spawning", "killed", "watching", "delaying",
                       "restarting", "waiting"} => pc'[a] = pc[a]
    BY DEF Resting
  <1> QED
    BY <1>1, <1>2 DEF InOrder, Actors

LEMMA AloneWhenBegun ==
  ASSUME TypeOK, NEW a \in Actors, Begins(a), overlaps' = 0
  PROVE  \A b \in Actors \ {a} : pc[b] \in Resting
  <1>1. Busy \subseteq {a}
    BY DEF Begins, TypeOK
  <1> QED
    BY <1>1 DEF Busy

LEMMA AloneWhenBusy ==
  ASSUME InOrder, NEW a \in Actors, pc[a] \notin Resting
  PROVE  \A b \in Actors \ {a} : pc[b] \in Resting
  BY DEF InOrder, Busy

LEMMA StartInOrder ==
  ASSUME TypeOK, InOrder, overlaps' = 0, NEW a \in Actors,
         StartRefused(a) \/ StartPasses(a) \/ StartStep(a)
  PROVE  InOrder'
  <1>1. CASE StartRefused(a)
    <2>1. CASE pc[a] = "idle"
      <3>1. a \in Threads
        BY <2>1 DEF TypeOK, Actors, WatchdogSteps, StartSteps
      <3> QED
        BY <1>1, <2>1, <3>1, NothingBegins
        DEF StartRefused, Returned, Alive, TypeOK, Resting
    <2>2. CASE pc[a] = "restarting"
      <3>1. control = "running" /\ Alive \subseteq {trading_process}
        BY <2>2 DEF InOrder
      <3> QED
        BY <1>1, <2>2, <3>1, AloneWhenBusy, OneActor
        DEF StartRefused, Returned, Alive, TypeOK, Resting
    <2> QED
      BY <1>1, <2>1, <2>2 DEF StartRefused, CanStart
  <1>2. CASE StartPasses(a)
    <2>1. Alive = {}
      BY <1>2 DEF StartPasses, AlreadyRunning, Running, InOrder
    <2>2. /\ \A b \in Actors \ {a} : pc'[b] \in Resting
          /\ pc'[a] = "spawning" /\ Alive' = {}
      BY <1>2, <2>1, AloneWhenBegun DEF StartPasses, Alive, TypeOK
    <2> QED
      BY <2>2, OneActor DEF Resting
  <1>3. CASE \E p \in Procs : Popen(a, p)
    <2>1. Alive = {} /\ pc[a] = "spawning"
      BY <1>3 DEF Popen, InOrder
    <2>2. /\ \A b \in Actors \ {a} : pc'[b] \in Resting
          /\ pc'[a] = "settling" /\ Alive' \subseteq {trading_process'}
      BY <1>3, <2>1, AloneWhenBusy DEF Popen, Alive, Resting, TypeOK
    <2> QED
      BY <2>2, OneActor DEF Resting
  <1>4. CASE StartFails(a)
    <2>1. Alive = {} /\ pc[a] = "spawning"
      BY <1>4 DEF StartFails, InOrder
    <2>2. /\ \A b \in Actors \ {a} : pc'[b] \in Resting
          /\ pc'[a] \in Resting /\ Alive' = {}
      BY <1>4, <2>1, AloneWhenBusy
      DEF StartFails, Alive, Returned, Resting, TypeOK
    <2> QED
      BY <2>2, OneActor DEF Resting
  <1>5. CASE ExitedImmediately(a)
    <2>1. Alive = {} /\ pc[a] = "settling"
      BY <1>5 DEF ExitedImmediately, Running, InOrder
    <2>2. /\ \A b \in Actors \ {a} : pc'[b] \in Resting
          /\ pc'[a] \in Resting /\ Alive' = {}
      BY <1>5, <2>1, AloneWhenBusy
      DEF ExitedImmediately, Alive, Returned, Resting, TypeOK
    <2> QED
      BY <2>2, OneActor DEF Resting
  <1>6. CASE WriteRunning(a)
    <2>1. Alive \subseteq {trading_process} /\ pc[a] = "settling"
      BY <1>6 DEF WriteRunning, InOrder
    <2>2. /\ \A b \in Actors \ {a} : pc'[b] \in Resting
          /\ pc'[a] = "watching" /\ control' = "running"
          /\ Alive' \subseteq {trading_process'}
      BY <1>6, <2>1, AloneWhenBusy
      DEF WriteRunning, MarksRunning, Alive, Resting, TypeOK
    <2> QED
      BY <2>2, OneActor DEF Resting
  <1>7. CASE StartWatchdog(a)
    <2>1. /\ Alive \subseteq {trading_process} /\ pc[a] = "watching"
          /\ control = "running"
      BY <1>7 DEF StartWatchdog, InOrder
    <2>2. /\ \A b \in Actors \ {a} : pc[b] \in Resting
          /\ control' = "running" /\ Alive' \subseteq {trading_process'}
      BY <1>7, <2>1, AloneWhenBusy DEF StartWatchdog, Alive, Resting
    <2>3. /\ \A b \in Actors \ {a} : pc'[b] \in Resting
          /\ pc'[a] \in Resting
      BY <1>7, <2>1, <2>2
      DEF StartWatchdog, Live, Returned, Resting, TypeOK, Actors
    <2> QED
      BY <2>2, <2>3, OneActor DEF Resting
  <1> QED
    BY <1>1, <1>2, <1>3, <1>4, <1>5, <1>6, <1>7 DEF StartStep

LEMMA StopInOrder ==
  ASSUME TypeOK, InOrder, overlaps' = 0, NEW t \in Threads,
         StopWatchdog(t) \/ StopStep(t)
  PROVE  InOrder'
  <1>a. t \in Actors
    BY DEF Actors
  <1>1. CASE StopWatchdog(t)
    <2>1. /\ \A b \in Actors \ {t} : pc'[b] \in Resting
          /\ pc'[t] = "stopping" /\ Alive' \subseteq {trading_process'}
      BY <1>1, <1>a, AloneWhenBegun DEF StopWatchdog, Alive, InOrder, TypeOK
    <2> QED
      BY <1>a, <2>1, OneActor DEF Resting
  <1>2. CASE WriteStopped(t)
    <2>1. /\ \A b \in Actors \ {t} : pc'[b] \in Resting
          /\ pc'[t] = "stopped" /\ Alive' \subseteq {trading_process'}
      BY <1>2, <1>a, AloneWhenBusy
      DEF WriteStopped, Alive, InOrder, Resting, TypeOK
    <2> QED
      BY <1>a, <2>1, OneActor DEF Resting
  <1>3. CASE Terminate(t)
    <2>1. /\ \A b \in Actors \ {t} : pc'[b] \in Resting
          /\ Alive' = Alive /\ Alive \subseteq {trading_process}
          /\ trading_process' = trading_process
      BY <1>3, <1>a, AloneWhenBusy
      DEF Terminate, Alive, InOrder, Resting, TypeOK
    <2>2. CASE Running
      <3>1. pc'[t] = "waiting" /\ victim'[t] = trading_process
        BY <1>3, <1>a, <2>2 DEF Terminate, TypeOK
      <3> QED
        BY <1>a, <2>1, <3>1, OneActor DEF Resting
    <2>3. CASE ~Running
      <3>1. pc'[t] = "idle" /\ Alive = {}
        BY <1>3, <1>a, <2>1, <2>3 DEF Terminate, Running, TypeOK
      <3> QED
        BY <1>a, <2>1, <3>1, OneActor DEF Resting
    <2> QED
      BY <2>2, <2>3
  <1>4. CASE Kill(t)
    <2>1. /\ pc[t] = "waiting" /\ victim[t] = trading_process
          /\ victim[t] \in Alive /\ Alive \subseteq {trading_process}
      BY <1>4, <1>a DEF Kill, InOrder
    <2>2. trading_process # NoProc
      BY <2>1, NamesAssumption DEF Alive
    <2>3. /\ \A b \in Actors \ {t} : pc'[b] \in Resting
          /\ pc'[t] = "killed" /\ Alive' = {}
      BY <1>4, <1>a, <2>1, <2>2, AloneWhenBusy
      DEF Kill, KillsProcess, Alive, Resting, TypeOK
    <2> QED
      BY <1>a, <2>3, OneActor DEF Resting
  <1>5. CASE Forget(t)
    <2>1. Alive = {}
      BY <1>5, <1>a DEF Forget, InOrder
    <2>2. /\ \A b \in Actors \ {t} : pc'[b] \in Resting
          /\ pc'[t] = "idle" /\ Alive' = {}
      BY <1>5, <1>a, <2>1, AloneWhenBusy DEF Forget, Alive, Resting, TypeOK
    <2> QED
      BY <1>a, <2>2, OneActor DEF Resting
  <1> QED
    BY <1>1, <1>2, <1>3, <1>4, <1>5 DEF StopStep

LEMMA WatchdogInOrder ==
  ASSUME TypeOK, InOrder, overlaps' = 0, NEW w \in Watchdogs,
         Wake(w) \/ Restart(w)
  PROVE  InOrder'
  <1>a. w \in Actors /\ w \notin Threads
    BY NamesAssumption DEF Actors
  <1>1. CASE Wake(w) /\ pc'[w] = "none"
    BY <1>1, <1>a, NothingBegins DEF Wake, Alive, Resting, TypeOK
  <1>2. CASE Wake(w) /\ pc'[w] # "none"
    <2>1. /\ Begins(w) /\ RestartWanted /\ pc' = [pc EXCEPT ![w] = "delaying"]
      BY <1>2, <1>a DEF Wake, TypeOK
    <2>2. /\ \A b \in Actors \ {w} : pc'[b] \in Resting
          /\ pc'[w] = "delaying" /\ control' = "running"
          /\ Alive' \subseteq {trading_process'}
      BY <1>2, <1>a, <2>1, AloneWhenBegun
      DEF Wake, RestartWanted, Alive, InOrder, TypeOK
    <2> QED
      BY <1>a, <2>2, OneActor DEF Resting
  <1>3. CASE Restart(w)
    <2>1. control = "running"
      BY <1>3, <1>a DEF Restart, InOrder
    <2>2. /\ \A b \in Actors \ {w} : pc'[b] \in Resting
          /\ pc'[w] = "restarting" /\ control' = "running"
          /\ Alive' \subseteq {trading_process'}
      BY <1>3, <1>a, <2>1, AloneWhenBusy
      DEF Restart, Alive, InOrder, Resting, TypeOK
    <2> QED
      BY <1>a, <2>2, OneActor DEF Resting
  <1> QED
    BY <1>1, <1>2, <1>3

LEMMA NextOrderly ==
  ASSUME TypeOK, Orderly, [Next]_vars PROVE Orderly'
  <1> SUFFICES ASSUME overlaps' = 0, reboots' = 0 PROVE InOrder'
    BY DEF Orderly
  <1>1. overlaps <= overlaps' /\ reboots <= reboots' /\ ~Reboot
    <2>1. overlaps' \in {overlaps, overlaps + 1}
      BY BeginsType
      DEF Next, StartStep, StopStep, WatchdogStep, StartRefused, StartPasses,
          Popen, StartFails, ExitedImmediately, WriteRunning, StartWatchdog,
          StopWatchdog, WriteStopped, Terminate, Kill, Forget, Wake, Restart,
          ProcessExits, Reboot, vars, counters, Actors
    <2>2. /\ reboots' \in {reboots, reboots + 1}
          /\ Reboot => reboots' = reboots + 1
      BY
      DEF Next, StartStep, StopStep, WatchdogStep, StartRefused, StartPasses,
          Popen, StartFails, ExitedImmediately, WriteRunning, StartWatchdog,
          StopWatchdog, WriteStopped, Terminate, Kill, Forget, Wake, Restart,
          ProcessExits, Reboot, vars, counters
    <2>3. overlaps \in Nat /\ reboots \in Nat
      BY DEF TypeOK
    <2> QED
      BY <2>1, <2>2, <2>3
  <1>2. InOrder
    BY <1>1 DEF Orderly, TypeOK
  <1>3. CASE \E p \in Procs : ProcessExits(p)
    BY <1>2, <1>3, NothingBegins DEF ProcessExits, Alive, TypeOK
  <1>4. CASE UNCHANGED vars
    BY <1>2, <1>4, NothingBegins DEF vars, Alive
  <1> QED
    BY <1>1, <1>2, <1>3, <1>4, StartInOrder, StopInOrder, WatchdogInOrder
    DEF Next, StartStep, WatchdogStep, Actors

----------------------------------------------------------------------------

LEMMA InitInv == Init => IInv
  <1> SUFFICES ASSUME Init PROVE IInv
    OBVIOUS
  <1>1. Orphans = {} /\ Costly = {} /\ Watching = {} /\ ~Loose
    BY NamesAssumption
    DEF Init, Orphans, Alive, Costly, Watching, Live, Actors, Loose, Running
  <1>2. Cardinality(Orphans) = 0 /\ Cardinality(Costly) = 0
        /\ Cardinality(Watching) = 0
    BY <1>1, FS_EmptySet
  <1>3. overlaps = 0 /\ reboots = 0 /\ stops = 0
    BY DEF Init
  <1>4. OrphansAndRisks
    BY <1>1, <1>2, <1>3 DEF OrphansAndRisks, OneFree
  <1>5. WatchdogsCounted
    <2>1. (IF watchdog_active THEN 1 ELSE 0) \in {0, 1}
      OBVIOUS
    <2> QED
      BY <1>2, <1>3, <2>1 DEF WatchdogsCounted, Watching
  <1> QED
    BY <1>4, <1>5, InitType, InitOrderly DEF IInv, Orderly

LEMMA Inductive == Spec => []IInv
  <1>1. ASSUME IInv, [Next]_vars PROVE IInv'
    BY <1>1, NextType, NextOrphans, NextWatchdogs, NextOrderly DEF IInv
  <1> QED
    BY <1>1, InitInv, PTL DEF Spec

(* Type correctness; in particular stop_trading_process waits for a        *)
(* process it has terminated exactly while it is in wait().                *)
THEOREM TypeCorrect == Spec => []TypeOK
  BY Inductive, PTL DEF IInv

(* Engines that trade unnamed are paid for, one each, by operations that   *)
(* overlapped or by restarts of the server, for any number of threads,     *)
(* watchdogs and engines: start_trading_process and stop_trading_process.  *)
THEOREM OrphansArePaidFor == Spec => []OrphansPaidFor
  <1>1. ASSUME IInv PROVE OrphansPaidFor
    <2> DEFINE o == Cardinality(Orphans)
               c == OneFree(Cardinality(Costly))
               l == IF Loose THEN 1 ELSE 0
    <2>1. /\ o \in Nat /\ c \in Nat /\ l \in {0, 1}
          /\ overlaps \in Nat /\ reboots \in Nat
          /\ o + c + l <= overlaps + reboots
      BY <1>1, Counts DEF IInv, OrphansAndRisks, OneFree, TypeOK
    <2> HIDE DEF o, c, l
    <2>2. o <= overlaps + reboots
      BY <2>1
    <2> QED
      BY <2>2 DEF o, OrphansPaidFor, Orphans
  <1> QED
    BY <1>1, Inductive, PTL

(* "stopped" is true of a server whose operations came one at a time.      *)
THEOREM StoppedIsStopped == Spec => []StoppedMeansStopped
  <1>1. IInv => StoppedMeansStopped
    BY DEF IInv, Orderly, InOrder, StoppedMeansStopped
  <1> QED
    BY <1>1, Inductive, PTL

(* start_watchdog and watchdog_loop: one watchdog, and one more at most    *)
(* for each stop.                                                          *)
THEOREM WatchdogsArePaidFor == Spec => []WatchdogsPaidFor
  <1>1. ASSUME IInv PROVE WatchdogsPaidFor
    <2> DEFINE n == Cardinality(Watching)
               f == IF watchdog_active THEN 1 ELSE 0
    <2>1. n \in Nat /\ f \in {0, 1} /\ stops \in Nat /\ n <= f + stops
      BY <1>1, WatchingCounted DEF IInv, WatchdogsCounted, Watching, TypeOK
    <2> HIDE DEF n, f
    <2>2. n <= 1 + stops
      BY <2>1
    <2> QED
      BY <2>2 DEF n, WatchdogsPaidFor, Watching
  <1> QED
    BY <1>1, Inductive, PTL
=============================================================================
