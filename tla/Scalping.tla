------------------------------ MODULE Scalping ------------------------------
(***************************************************************************)
(* ScalpingEngine (apps/scalping/engine.py), which the trading cycle runs  *)
(* after the scalper, and the switches of its strategies                   *)
(* (api/routes/scalping.py).  The routes are served by two processes: the  *)
(* engine's own, where the trading thread reads the switches in memory,    *)
(* and the API server's.  Both write one file of settings and each keeps   *)
(* what it read of it for two seconds.                                     *)
(*                                                                         *)
(* A handler is an async function that never awaits, so one process serves *)
(* one request at a time, but the other process and the trading thread go  *)
(* on between its accesses to the file and to the switches.                *)
(***************************************************************************)
EXTENDS Integers, Sequences, FiniteSets

CONSTANTS
    Engine, Api,    \* the processes
    Strategies,     \* names in SCALPING_STRATEGIES
    Loadable,       \* ALL_STRATEGIES, in order
    Gate,           \* mtf_cascading_scalper_enabled
    Default,        \* what is on when a process starts
    Symbols,        \* WATCHLIST
    Answers,        \* what each strategy can say to the symbols
    None, Torn,
    Changes,        \* what is asked of the switches, as <<key, on>>
    MaxToggles, MaxRestarts     \* bounds

Procs == {Engine, Api}
Keys == Strategies \cup {Gate}
Settings == UNION {[K -> BOOLEAN] : K \in SUBSET Keys}
Nothing == [k \in {} |-> TRUE]
Requests == [at : {"open", "write", "set"}, key : Keys, on : BOOLEAN, state : Settings]

ASSUME ScalpingAssumption ==
    /\ Engine # Api
    /\ Torn \notin Settings /\ None \notin Requests
    /\ Gate \notin Strategies
    /\ Loadable \in Seq(Strategies)
    /\ Default \in [Keys -> BOOLEAN]
    /\ \A s \in Strategies : \A a \in Answers[s] : Len(a) = Len(Symbols)
    /\ Changes \subseteq Keys \X BOOLEAN
    /\ MaxToggles \in Nat /\ MaxRestarts \in Nat

VARIABLES
    file,       \* toggle_state.json; Nothing when it is missing
    cache,      \* _toggle_cache of each process
    fresh,      \* whether it is younger than two seconds
    request,    \* the toggle each process is serving
    flags,      \* SCALPING_STRATEGIES of each process, and the CONFIG that
                \* the routes import
    gate,       \* the CONFIG that the trading thread reads
    cycle,      \* where the trading thread is, what is left of
                \* self.strategies, and the cycle's history
    wanted,     \* history: what was written last for each key
    behind,     \* history: whether the file was written by the other process
                \* since this one read it
    damaged,    \* history: whether two toggles met, or a write failed or was
                \* cut short
    toggles, restarts

settings == <<file, cache, fresh, request, flags, wanted, behind, damaged, toggles>>
engine == <<gate, cycle>>
vars == <<settings, engine, restarts>>

Idle == [at |-> "idle", left |-> << >>, asked |-> {}, placed |-> {}, always |-> {}]
Other(p) == IF p = Engine THEN Api ELSE Engine
PutExisting(state, k, on) == [j \in DOMAIN state |-> IF j = k THEN on ELSE state[j]]
Put(state, k, on) == [j \in DOMAIN state \cup {k} |-> IF j = k THEN on ELSE state[j]]
On(p) == {s \in Strategies : flags[p][s]}

----------------------------------------------------------------------------
(* _load_toggle_state.  An empty cache does not count as one; a file that  *)
(* is missing or cannot be parsed gives an empty state of its own, which   *)
(* is not remembered, even if an older state still is.                     *)
CachedForGood(p) == cache[p] # Nothing
Cached(p) == fresh[p] /\ cache[p] # Nothing
Readable == file \notin {Torn, Nothing}
Loads(p) == IF Cached(p) THEN cache[p] ELSE IF Readable THEN file ELSE Nothing

RemembersCopy(p, state) ==
    IF Cached(p) THEN cache[p] ELSE IF Readable THEN file ELSE cache[p]

(* What is returned is the cache itself, so that a change of it is one of  *)
(* the cache, before it is saved.                                          *)
Remembers(p, state) == IF Cached(p) \/ Readable THEN state ELSE cache[p]

Load(p, state) ==
    /\ cache' = [cache EXCEPT ![p] = Remembers(p, state)]
    /\ fresh' = [fresh EXCEPT ![p] = @ \/ Readable]
    /\ behind' = [behind EXCEPT ![p] = @ /\ (Cached(p) \/ ~Readable)]

Overlaps(p) ==
    \/ behind[p] /\ Cached(p)
    \/ request[Other(p)] # None /\ request[Other(p)].at # "set"

(* _set_strategy_toggle and _set_toggle.                                   *)
BeginToggle(p, k, on) ==
    LET state == Put(Loads(p), k, on)
    IN  /\ request[p] = None
        /\ toggles < MaxToggles
        /\ toggles' = toggles + 1
        /\ request' = [request EXCEPT ![p] =
                           [at |-> "open", key |-> k, on |-> on, state |-> state]]
        /\ Load(p, state)
        /\ damaged' = (damaged \/ Overlaps(p))
        /\ UNCHANGED <<file, flags, wanted, engine, restarts>>

(* write_text opens the file, which empties it, and then writes.           *)
OpenFile(p) ==
    /\ request[p] # None /\ request[p].at = "open"
    /\ file' = Torn
    /\ request' = [request EXCEPT ![p].at = "write"]
    /\ UNCHANGED <<cache, fresh, flags, wanted, behind, damaged, toggles, engine, restarts>>

WriteFile(p) ==
    /\ request[p] # None /\ request[p].at = "write"
    /\ file' = request[p].state
    /\ wanted' = Put(wanted, request[p].key, request[p].on)
    /\ behind' = [behind EXCEPT ![Other(p)] = TRUE]
    /\ request' = [request EXCEPT ![p].at = "set"]
    /\ UNCHANGED <<cache, fresh, flags, damaged, toggles, engine, restarts>>

(* A write that raises, before or after it has emptied the file, ends the  *)
(* request: the cache keeps the change that was not saved.                 *)
WriteFails(p) ==
    /\ request[p] # None /\ request[p].at \in {"open", "write"}
    /\ request' = [request EXCEPT ![p] = None]
    /\ damaged' = TRUE
    /\ UNCHANGED <<file, cache, fresh, flags, wanted, behind, toggles, engine, restarts>>

(* The engine runs as __main__, so that what the routes import as          *)
(* unified_engine is a second copy, whose CONFIG nobody reads but they.    *)
(* The strategies' configuration is one for all of a process.              *)
SetFlag(p) ==
    /\ request[p] # None /\ request[p].at = "set"
    /\ flags' = [flags EXCEPT ![p][request[p].key] = request[p].on]
    /\ cycle' = [cycle EXCEPT !.always = {s \in @ : flags'[Engine][s]}]
    /\ request' = [request EXCEPT ![p] = None]
    /\ UNCHANGED <<file, cache, fresh, wanted, behind, damaged, toggles, gate, restarts>>

(* What get_scalping_status and get_engine_toggles say: the setting, or    *)
(* the process's own value of a key that was never set.                    *)
Shown(p, k) == IF k \in DOMAIN Loads(p) THEN Loads(p)[k] ELSE flags[p][k]

Status(p) ==
    /\ request[p] = None
    /\ ~Cached(p) /\ Readable
    /\ Load(p, Loads(p))
    /\ UNCHANGED <<file, request, flags, wanted, damaged, toggles, engine, restarts>>

Expire(p) ==
    /\ request[p] = None /\ fresh[p]
    /\ fresh' = [fresh EXCEPT ![p] = FALSE]
    /\ UNCHANGED <<file, cache, request, flags, wanted, behind, damaged, toggles, engine, restarts>>

(* toggle_scalper, and toggle_feature for mtf_scalper: the switch that     *)
(* works, and is saved nowhere.                                            *)
ToggleScalper ==
    /\ gate' = ~gate
    /\ UNCHANGED <<settings, cycle, restarts>>

----------------------------------------------------------------------------
(* The trading cycle.                                                      *)

(* Only a cycle that runs the scalper gets to the strategies.              *)
BeginCycle ==
    /\ cycle = Idle
    /\ gate
    /\ cycle' = [Idle EXCEPT !.at = "begun", !.always = On(Engine)]
    /\ UNCHANGED <<settings, gate, restarts>>

(* A cycle without strategies, outside the sessions or below the daily     *)
(* limit ends here.                                                        *)
Check(allowed) ==
    /\ cycle.at = "begun"
    /\ cycle' = IF On(Engine) # {} /\ allowed THEN [cycle EXCEPT !.at = "checked"] ELSE Idle
    /\ UNCHANGED <<settings, gate, restarts>>

(* reload_strategies: new instances of what is on now, in order.           *)
Instances(s) == IF s \in On(Engine) THEN <<s>> ELSE << >>
Reloaded ==
    LET first[n \in 0..Len(Loadable)] ==
            IF n = 0 THEN << >> ELSE first[n - 1] \o Instances(Loadable[n])
    IN  first[Len(Loadable)]

Reload ==
    /\ cycle.at = "checked"
    /\ cycle' = [cycle EXCEPT !.at = "running", !.left = Reloaded]
    /\ UNCHANGED <<settings, gate, restarts>>

(* _run_strategy: the symbols before the one at which analyze raises.      *)
Asked(answers) == {i \in DOMAIN answers : \A j \in 1..i : answers[j].kind # "raises"}

(* Validated signals that spread, correlation, portfolio and breaker let   *)
(* through and for which there is a tick are orders.                       *)
Orders(s, answers, approved) ==
    {[strategy |-> s, symbol |-> Symbols[i], action |-> answers[i].action] :
         i \in {j \in Asked(answers) \cap approved :
                    answers[j].kind = "signal" /\ answers[j].valid}}

(* An exception ends the strategy's turn, not the cycle.                   *)
LeftAfterFailure(answers) ==
    IF Asked(answers) = DOMAIN answers THEN Tail(cycle.left) ELSE << >>
LeftAfter(answers) == Tail(cycle.left)

RunStrategy ==
    /\ cycle.at = "running"
    /\ cycle.left # << >>
    /\ \E answers \in Answers[Head(cycle.left)], approved \in SUBSET DOMAIN Symbols :
           cycle' = [cycle EXCEPT !.left = LeftAfter(answers),
                                  !.asked = @ \cup {Head(cycle.left)},
                                  !.placed = Orders(Head(cycle.left), answers, approved)]
    /\ UNCHANGED <<settings, gate, restarts>>

EndCycle ==
    /\ cycle.at = "running"
    /\ cycle.left = << >>
    /\ cycle' = Idle
    /\ UNCHANGED <<settings, gate, restarts>>

----------------------------------------------------------------------------
(* A crash and a new start: memory is as configured, the file is as it is. *)
Restart(p) ==
    /\ restarts < MaxRestarts
    /\ restarts' = restarts + 1
    /\ damaged' = (damaged \/ (request[p] # None /\ request[p].at = "write"))
    /\ request' = [request EXCEPT ![p] = None]
    /\ flags' = [flags EXCEPT ![p] = Default]
    /\ cache' = [cache EXCEPT ![p] = Nothing]
    /\ fresh' = [fresh EXCEPT ![p] = FALSE]
    /\ IF p = Engine
       THEN gate' = Default[Gate] /\ cycle' = Idle
       ELSE UNCHANGED engine
    /\ UNCHANGED <<file, wanted, behind, toggles>>

Init ==
    /\ file = Nothing /\ wanted = Nothing
    /\ cache = [p \in Procs |-> Nothing]
    /\ fresh = [p \in Procs |-> FALSE]
    /\ request = [p \in Procs |-> None]
    /\ flags = [p \in Procs |-> Default]
    /\ gate = Default[Gate]
    /\ cycle = Idle
    /\ behind = [p \in Procs |-> FALSE]
    /\ damaged = FALSE
    /\ toggles = 0 /\ restarts = 0

Toggle(p) ==
    \/ \E c \in Changes : BeginToggle(p, c[1], c[2])
    \/ OpenFile(p) \/ WriteFile(p) \/ WriteFails(p) \/ SetFlag(p)

Cycle ==
    \/ BeginCycle \/ (\E allowed \in BOOLEAN : Check(allowed))
    \/ Reload \/ RunStrategy \/ EndCycle

Next ==
    \/ \E p \in Procs : Toggle(p) \/ Status(p) \/ Expire(p) \/ Restart(p)
    \/ ToggleScalper
    \/ Cycle

(* Handlers finish, and time passes.                                       *)
Fairness ==
    \A p \in Procs : /\ WF_vars(OpenFile(p) \/ WriteFile(p) \/ WriteFails(p) \/ SetFlag(p))
                     /\ WF_vars(Expire(p))

Spec == Init /\ [][Next]_vars /\ Fairness

----------------------------------------------------------------------------
TypeOK ==
    /\ file \in Settings \cup {Torn}
    /\ wanted \in Settings
    /\ cache \in [Procs -> Settings]
    /\ fresh \in [Procs -> BOOLEAN] /\ behind \in [Procs -> BOOLEAN]
    /\ \A p \in Procs :
           request[p] = None \/ /\ request[p].at \in {"open", "write", "set"}
                                /\ request[p].key \in DOMAIN request[p].state
    /\ flags \in [Procs -> [Keys -> BOOLEAN]]
    /\ gate \in BOOLEAN /\ damaged \in BOOLEAN
    /\ cycle.left \in Seq(Strategies)
    /\ cycle.at \in {"idle", "begun", "checked", "running"}
    /\ cycle.always \subseteq Strategies /\ cycle.asked \subseteq Strategies

(* Settings are lost only when toggles of the two processes meet, or one   *)
(* finds the other's older than its cache, or a write fails or is cut      *)
(* short by a crash: until then the file says of every key what was        *)
(* written last, except while it is being written.                         *)
SettingsSurvive ==
    \/ damaged
    \/ file = wanted
    \/ file = Torn /\ \E p \in Procs : request[p] # None /\ request[p].at = "write"

(* Once toggles stop, and unless settings were lost, both processes end up *)
(* saying the same of every switch, restarts or not.                       *)
StatusesAgree ==
    <>[](damaged \/ \A k \in Keys : Shown(Engine, k) = Shown(Api, k))

(* A cycle that has finished has asked every strategy that was on all the  *)
(* time, whatever exceptions others raised.                                *)
EveryStrategyAsked ==
    cycle.at = "running" /\ cycle.left = << >> =>
        {s \in cycle.always : \E i \in DOMAIN Loadable : Loadable[i] = s} \subseteq cycle.asked
=============================================================================
