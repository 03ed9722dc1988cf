---------------------------- MODULE LiveTrading ----------------------------
(***************************************************************************)
(* The process manager of api/routes/live_trading.py: /start and /stop run *)
(* on the server's threads, a watchdog thread restarts an engine that has  *)
(* died, and all of them share trading_process, watchdog_active and the    *)
(* control file with no lock.  Each action is what one thread does between *)
(* two sleeps, waits or calls of the operating system.                     *)
(*                                                                         *)
(* The engine itself is the script the server runs as a child process; it  *)
(* may exit at any time and may be slow to obey a SIGTERM.  What /start    *)
(* tests first (terminal, credentials, script) is a choice.                *)
(***************************************************************************)
EXTENDS Naturals, FiniteSets

CONSTANTS
    Threads,        \* threads of the server that serve /start and /stop
    Watchdogs,      \* watchdog threads there is room for
    Procs,          \* engine processes that ever run
    NoProc,
    MaxFailures,    \* bound on starts that fail before a process exists
    MaxStops,       \* bound on calls of /stop
    MaxReboots      \* bound on restarts of the server

ASSUME NamesAssumption == NoProc \notin Procs /\ Threads \cap Watchdogs = {}
ASSUME BoundsAssumption ==
    MaxFailures \in Nat /\ MaxStops \in Nat /\ MaxReboots \in Nat
ASSUME FinitenessAssumption ==
    IsFiniteSet(Threads) /\ IsFiniteSet(Watchdogs) /\ IsFiniteSet(Procs)

VARIABLES
    trading_process,    \* the process the server knows of
    watchdog_active,
    control,            \* status in the control file
    proc,               \* unused, alive or dead
    pc,                 \* where each thread is
    victim,             \* the process a stop has terminated and waits for
    failures, stops, reboots,   \* counters of the bounded events
    overlaps            \* history: operations begun while another was under way

counters == <<failures, stops, reboots, overlaps>>
vars == <<trading_process, watchdog_active, control, proc, pc, victim, counters>>

Actors == Threads \cup Watchdogs
Alive == {p \in Procs : proc[p] = "alive"}
Unused == {p \in Procs : proc[p] = "unused"}
Resting == {"idle", "sleeping", "none"}
Live(w) == pc[w] # "none"

(* The threads in the middle of a start, a restart or a stop.              *)
Busy == {a \in Actors : pc[a] \notin Resting}

(* An operation of a begins; it counts when another is under way.          *)
Begins(a) ==
    overlaps' = IF Busy \subseteq {a} THEN overlaps ELSE overlaps + 1

(* Whether trading_process names a live process: poll() is None.           *)
Running == trading_process \in Alive

Init ==
    /\ trading_process = NoProc
    /\ watchdog_active = FALSE
    /\ control = "stopped"
    /\ proc = [p \in Procs |-> "unused"]
    /\ pc = [a \in Actors |-> IF a \in Threads THEN "idle" ELSE "none"]
    /\ victim = [t \in Threads |-> NoProc]
    /\ failures = 0 /\ stops = 0 /\ reboots = 0 /\ overlaps = 0

----------------------------------------------------------------------------
(* start_trading_process, called by /start and by a watchdog.              *)

CanStart(a) == pc[a] \in {"idle", "restarting"}

Returned(a) == IF a \in Threads THEN "idle" ELSE "sleeping"

(* Mutant: a process that is already running is not looked for.            *)
NeverRefused == FALSE

AlreadyRunning == Running

StartRefused(a) ==
    /\ CanStart(a)
    /\ AlreadyRunning
    /\ pc' = [pc EXCEPT ![a] = Returned(a)]
    /\ UNCHANGED <<trading_process, watchdog_active, control, proc, victim,
                   counters>>

(* The check is over and the process is not yet created; there is one for  *)
(* everybody who got this far.                                             *)
StartPasses(a) ==
    /\ CanStart(a)
    /\ ~AlreadyRunning
    /\ Cardinality({b \in Actors : pc[b] = "spawning"}) < Cardinality(Unused)
    /\ pc' = [pc EXCEPT ![a] = "spawning"]
    /\ Begins(a)
    /\ UNCHANGED <<trading_process, watchdog_active, control, proc, victim,
                   failures, stops, reboots>>

Popen(a, p) ==
    /\ pc[a] = "spawning"
    /\ p \in Unused
    /\ proc' = [proc EXCEPT ![p] = "alive"]
    /\ trading_process' = p
    /\ pc' = [pc EXCEPT ![a] = "settling"]
    /\ UNCHANGED <<watchdog_active, control, victim, counters>>

(* No credentials, no script, or Popen raises.                             *)
StartFails(a) ==
    /\ pc[a] = "spawning"
    /\ failures < MaxFailures
    /\ failures' = failures + 1
    /\ pc' = [pc EXCEPT ![a] = Returned(a)]
    /\ UNCHANGED <<trading_process, watchdog_active, control, proc, victim,
                   stops, reboots, overlaps>>

(* Three seconds later: the process has exited, or the variable is empty   *)
(* and the exception is answered as an error.                              *)
ExitedImmediately(a) ==
    /\ pc[a] = "settling"
    /\ ~Running
    /\ pc' = [pc EXCEPT ![a] = Returned(a)]
    /\ UNCHANGED <<trading_process, watchdog_active, control, proc, victim,
                   counters>>

(* Mutant: the control file is left as it was.                             *)
LeavesControl == UNCHANGED control

MarksRunning == control' = "running"

WriteRunning(a) ==
    /\ pc[a] = "settling"
    /\ Running
    /\ MarksRunning
    /\ pc' = [pc EXCEPT ![a] = "watching"]
    /\ UNCHANGED <<trading_process, watchdog_active, proc, victim, counters>>

(* Mutant: the flag is set after the thread was started, not tested.       *)
AlwaysNeedsWatchdog == TRUE

NeedsWatchdog == ~watchdog_active

(* start_watchdog.                                                         *)
StartWatchdog(a) ==
    /\ pc[a] = "watching"
    /\ IF NeedsWatchdog
       THEN \E w \in Watchdogs :
                /\ ~Live(w)
                /\ pc' = [pc EXCEPT ![a] = Returned(a), ![w] = "sleeping"]
       ELSE pc' = [pc EXCEPT ![a] = Returned(a)]
    /\ watchdog_active' = TRUE
    /\ UNCHANGED <<trading_process, control, proc, victim, counters>>

----------------------------------------------------------------------------
(* stop_trading_process.                                                   *)

StopWatchdog(t) ==
    /\ pc[t] = "idle"
    /\ stops < MaxStops
    /\ stops' = stops + 1
    /\ watchdog_active' = FALSE
    /\ pc' = [pc EXCEPT ![t] = "stopping"]
    /\ Begins(t)
    /\ UNCHANGED <<trading_process, control, proc, victim, failures, reboots>>

WriteStopped(t) ==
    /\ pc[t] = "stopping"
    /\ control' = "stopped"
    /\ pc' = [pc EXCEPT ![t] = "stopped"]
    /\ UNCHANGED <<trading_process, watchdog_active, proc, victim, counters>>

(* terminate() and the call of wait(); with nothing running it returns and *)
(* trading_process stays as it is.                                         *)
Terminate(t) ==
    /\ pc[t] = "stopped"
    /\ IF Running
       THEN /\ victim' = [victim EXCEPT ![t] = trading_process]
            /\ pc' = [pc EXCEPT ![t] = "waiting"]
       ELSE /\ pc' = [pc EXCEPT ![t] = "idle"]
            /\ UNCHANGED victim
    /\ UNCHANGED <<trading_process, watchdog_active, control, proc, counters>>

(* Mutant: a process that outlives the wait is left alone.                 *)
SparesProcess == UNCHANGED proc

KillsProcess == proc' = [proc EXCEPT ![trading_process] = "dead"]

(* Mutant: the process is still waited for once the stop has returned.     *)
KeepsVictim(t) == UNCHANGED victim

LetsVictimGo(t) == victim' = [victim EXCEPT ![t] = NoProc]

(* The wait has timed out: kill() goes to what trading_process now names,  *)
(* and raises when that is nothing.                                        *)
Kill(t) ==
    /\ pc[t] = "waiting"
    /\ victim[t] \in Alive
    /\ IF trading_process # NoProc
       THEN KillsProcess /\ pc' = [pc EXCEPT ![t] = "killed"]
       ELSE UNCHANGED proc /\ pc' = [pc EXCEPT ![t] = "idle"]
    /\ LetsVictimGo(t)
    /\ UNCHANGED <<trading_process, watchdog_active, control, counters>>

(* The wait is over; trading_process is cleared, whatever it names by now. *)
Forget(t) ==
    /\ pc[t] \in {"waiting", "killed"}
    /\ victim[t] \notin Alive
    /\ trading_process' = NoProc
    /\ LetsVictimGo(t)
    /\ pc' = [pc EXCEPT ![t] = "idle"]
    /\ UNCHANGED <<watchdog_active, control, proc, counters>>

----------------------------------------------------------------------------
(* watchdog_loop.                                                          *)

(* Mutant: the watchdog restarts only what it was told to stop.            *)
StopWanted == control = "stopped"

RestartWanted == control = "running"

(* Ten seconds have passed.                                                *)
Wake(w) ==
    /\ pc[w] = "sleeping"
    /\ \/ /\ ~watchdog_active
          /\ pc' = [pc EXCEPT ![w] = "none"]
          /\ UNCHANGED <<watchdog_active, overlaps>>
       \/ /\ watchdog_active
          /\ trading_process # NoProc /\ ~Running
          /\ RestartWanted
          /\ pc' = [pc EXCEPT ![w] = "delaying"]
          /\ Begins(w)
          /\ UNCHANGED watchdog_active
       \/ /\ watchdog_active
          /\ trading_process # NoProc /\ ~Running
          /\ ~RestartWanted
          /\ pc' = [pc EXCEPT ![w] = "none"]
          /\ watchdog_active' = FALSE
          /\ UNCHANGED overlaps
    /\ UNCHANGED <<trading_process, control, proc, victim, failures, stops,
                   reboots>>

(* Five seconds later it starts a process; nothing is asked again.         *)
Restart(w) ==
    /\ pc[w] = "delaying"
    /\ pc' = [pc EXCEPT ![w] = "restarting"]
    /\ UNCHANGED <<trading_process, watchdog_active, control, proc, victim,
                   counters>>

----------------------------------------------------------------------------
(* The engine and the server.                                              *)

ProcessExits(p) ==
    /\ p \in Alive
    /\ proc' = [proc EXCEPT ![p] = "dead"]
    /\ UNCHANGED <<trading_process, watchdog_active, control, pc, victim,
                   counters>>

(* The server is restarted: its threads and variables start over, its      *)
(* children and the control file stay.                                     *)
Reboot ==
    /\ reboots < MaxReboots
    /\ reboots' = reboots + 1
    /\ trading_process' = NoProc
    /\ watchdog_active' = FALSE
    /\ pc' = [a \in Actors |-> IF a \in Threads THEN "idle" ELSE "none"]
    /\ victim' = [t \in Threads |-> NoProc]
    /\ UNCHANGED <<control, proc, failures, stops, overlaps>>

----------------------------------------------------------------------------

StartStep(a) ==
    \/ \E p \in Procs : Popen(a, p)
    \/ StartFails(a)
    \/ ExitedImmediately(a)
    \/ WriteRunning(a)
    \/ StartWatchdog(a)

StopStep(t) ==
    \/ WriteStopped(t)
    \/ Terminate(t)
    \/ Kill(t)
    \/ Forget(t)

WatchdogStep(w) ==
    \/ Wake(w)
    \/ Restart(w)
    \/ StartRefused(w)
    \/ StartPasses(w)
    \/ StartStep(w)

Next ==
    \/ \E t \in Threads : StartRefused(t) \/ StartPasses(t) \/ StartStep(t)
    \/ \E t \in Threads : StopWatchdog(t) \/ StopStep(t)
    \/ \E w \in Watchdogs : WatchdogStep(w)
    \/ \E p \in Procs : ProcessExits(p)
    \/ Reboot

(* A request that was accepted is worked on and a watchdog's sleeps end;   *)
(* nobody has to ask for a start or a stop, and no engine has to exit.     *)
Fairness ==
    /\ \A t \in Threads : WF_vars(StartStep(t) \/ StopStep(t))
    /\ \A w \in Watchdogs : WF_vars(WatchdogStep(w))

Spec == Init /\ [][Next]_vars /\ Fairness

----------------------------------------------------------------------------
(* Properties.                                                             *)

StartSteps == {"spawning", "settling", "watching"}
ThreadSteps ==
    StartSteps \cup {"idle", "stopping", "stopped", "waiting", "killed"}
WatchdogSteps ==
    StartSteps \cup {"none", "sleeping", "delaying", "restarting"}

(* Every variable keeps its type, and a thread has a victim exactly while  *)
(* it waits for one to exit.                                               *)
TypeOK ==
    /\ trading_process \in Procs \cup {NoProc}
    /\ watchdog_active \in BOOLEAN
    /\ control \in {"running", "stopped"}
    /\ proc \in [Procs -> {"unused", "alive", "dead"}]
    /\ pc \in [Actors -> ThreadSteps \cup WatchdogSteps]
    /\ \A t \in Threads : pc[t] \in ThreadSteps
    /\ \A w \in Watchdogs : pc[w] \in WatchdogSteps
    /\ victim \in [Threads -> Procs \cup {NoProc}]
    /\ \A t \in Threads : victim[t] \in Procs <=> pc[t] = "waiting"
    /\ failures \in Nat /\ stops \in Nat /\ reboots \in Nat /\ overlaps \in Nat

(* An engine that trades but that trading_process does not name, so that   *)
(* no stop can reach it and no start is refused for it, is the price of an *)
(* operation that began while another was under way (two starts, a start   *)
(* during the wait of a stop, a stop during the watchdog's five seconds)   *)
(* or of a restart of the server.  Each costs one engine at most.          *)
OrphansPaidFor ==
    Cardinality(Alive \ {trading_process}) <= overlaps + reboots

(* As long as operations come one at a time, "stopped" in the control file *)
(* is the truth once no operation is under way: nothing is trading.        *)
StoppedMeansStopped ==
    overlaps = 0 /\ reboots = 0 /\ Busy = {} /\ control = "stopped"
        => Alive = {}

(* A stop does not end a sleeping watchdog, it only clears the flag that a *)
(* start sets again: each stop may leave one watchdog more, not more.      *)
WatchdogsPaidFor ==
    Cardinality({w \in Watchdogs : Live(w)}) <= 1 + stops

Watched ==
    /\ control = "running" /\ watchdog_active
    /\ \E w \in Watchdogs : pc[w] = "sleeping"

(* An engine that dies while a watchdog is about and the control file says *)
(* "running" is started again, unless a stop or a restart of the server    *)
(* intervenes or nothing is left to start.                                 *)
DeadEngineRestarts ==
    trading_process # NoProc /\ ~Running /\ Watched
        ~> \/ Running
           \/ control = "stopped" \/ trading_process = NoProc
           \/ Unused = {}

(* A stop ends the engine it has told to terminate, also one that ignores  *)
(* it, unless another operation has come between or the server died.       *)
StopEndsEngine ==
    \A t \in Threads, p \in Procs :
        victim[t] = p ~> p \notin Alive \/ overlaps > 0 \/ reboots > 0

============================================================================
