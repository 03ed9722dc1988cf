-------------------------- MODULE Scalping_proofs --------------------------
(***************************************************************************)
(* Theorems about Scalping, for all sets of strategies, switches and       *)
(* answers: its type invariant, when the file of settings may lose what    *)
(* was written last, and that a finished cycle has asked every strategy    *)
(* that was on all the time.                                               *)
(***************************************************************************)
EXTENDS Scalping, WellFoundedInduction, TLAPS

----------------------------------------------------------------------------
(* Types.                                                                  *)

CycleTyped ==
    /\ cycle = [at |-> cycle.at, left |-> cycle.left, asked |-> cycle.asked,
                placed |-> cycle.placed, always |-> cycle.always]
    /\ cycle.at \in {"idle", "begun", "checked", "running"}
    /\ cycle.left \in Seq(Strategies)
    /\ cycle.asked \subseteq Strategies /\ cycle.always \subseteq Strategies

SettingsTyped ==
    /\ file \in Settings \cup {Torn}
    /\ wanted \in Settings
    /\ cache \in [Procs -> Settings]
    /\ fresh \in [Procs -> BOOLEAN] /\ behind \in [Procs -> BOOLEAN]
    /\ request \in [Procs -> Requests \cup {None}]
    /\ \A p \in Procs :
           request[p] # None => request[p].key \in DOMAIN request[p].state
    /\ flags \in [Procs -> [Keys -> BOOLEAN]]
    /\ damaged \in BOOLEAN

Typed == CycleTyped /\ SettingsTyped /\ gate \in BOOLEAN

(* Settings are functions of some of the keys.                             *)
LEMMA SettingsAre ==
    \A state : state \in Settings
                   <=> /\ DOMAIN state \subseteq Keys
                       /\ state \in [DOMAIN state -> BOOLEAN]
  BY DEF Settings

LEMMA NothingTyped == Nothing \in Settings
  <1>1. /\ DOMAIN Nothing = {}
        /\ Nothing \in [DOMAIN Nothing -> BOOLEAN]
    BY DEF Nothing
  <1> QED
    BY <1>1, SettingsAre

LEMMA PutTyped ==
    ASSUME NEW state \in Settings, NEW k \in Keys, NEW on \in BOOLEAN
    PROVE  /\ Put(state, k, on) \in Settings
           /\ k \in DOMAIN Put(state, k, on)
  <1> DEFINE put == Put(state, k, on)
  <1>1. /\ DOMAIN state \subseteq Keys
        /\ state \in [DOMAIN state -> BOOLEAN]
    BY SettingsAre
  <1>2. /\ DOMAIN put = DOMAIN state \cup {k}
        /\ put \in [DOMAIN state \cup {k} -> BOOLEAN]
    BY <1>1 DEF Put
  <1> HIDE DEF put
  <1>3. DOMAIN put \subseteq Keys /\ put \in [DOMAIN put -> BOOLEAN]
    BY <1>1, <1>2
  <1> QED
    BY <1>2, <1>3, SettingsAre DEF put

LEMMA LoadsTyped ==
    ASSUME SettingsTyped, NEW p \in Procs PROVE Loads(p) \in Settings
  <1>1. cache[p] \in Settings /\ (Readable => file \in Settings)
    BY DEF SettingsTyped, Readable
  <1> QED
    BY <1>1, NothingTyped DEF Loads

LEMMA LoadTyped ==
    ASSUME SettingsTyped, NEW p \in Procs, NEW state \in Settings,
           Load(p, state)
    PROVE  /\ cache' \in [Procs -> Settings]
           /\ fresh' \in [Procs -> BOOLEAN] /\ behind' \in [Procs -> BOOLEAN]
  <1>1. Remembers(p, state) \in Settings
    BY DEF Remembers, SettingsTyped
  <1>2. (fresh[p] \/ Readable) \in BOOLEAN
        /\ (behind[p] /\ (Cached(p) \/ ~Readable)) \in BOOLEAN
    BY DEF SettingsTyped
  <1> QED
    BY <1>1, <1>2 DEF Load, SettingsTyped

----------------------------------------------------------------------------
(* The types, action by action.                                            *)

LEMMA BeginToggleTyped ==
    ASSUME Typed, NEW p \in Procs, NEW c \in Changes, BeginToggle(p, c[1], c[2])
    PROVE  Typed'
  <1> DEFINE k == c[1]
             on == c[2]
             state == Put(Loads(p), k, on)
             r == [at |-> "open", key |-> k, on |-> on, state |-> state]
  <1>1. k \in Keys /\ on \in BOOLEAN
    BY ScalpingAssumption
  <1>2. state \in Settings /\ k \in DOMAIN state
    BY <1>1, LoadsTyped, PutTyped DEF Typed
  <1>3. /\ request' = [request EXCEPT ![p] = r]
        /\ Load(p, state)
        /\ damaged' = (damaged \/ Overlaps(p))
        /\ UNCHANGED <<file, flags, wanted, gate, cycle>>
    BY DEF BeginToggle, engine
  <1>4. r \in Requests /\ r.key \in DOMAIN r.state
    <2> HIDE DEF state
    <2> QED
      BY <1>1, <1>2 DEF Requests
  <1> HIDE DEF k, on, state, r
  <1>5. /\ request' \in [Procs -> Requests \cup {None}]
        /\ \A q \in Procs :
               request'[q] # None => request'[q].key \in DOMAIN request'[q].state
    BY <1>3, <1>4 DEF Typed, SettingsTyped
  <1>6. /\ cache' \in [Procs -> Settings]
        /\ fresh' \in [Procs -> BOOLEAN] /\ behind' \in [Procs -> BOOLEAN]
    BY <1>2, <1>3, LoadTyped DEF Typed
  <1>7. damaged' \in BOOLEAN
    BY <1>3 DEF Typed, SettingsTyped
  <1> QED
    BY <1>3, <1>5, <1>6, <1>7 DEF Typed, SettingsTyped, CycleTyped

(* What a request under way asks for.                                      *)
LEMMA RequestOf ==
    ASSUME SettingsTyped, NEW p \in Procs, request[p] # None
    PROVE  /\ request[p] \in Requests
           /\ request[p].state \in Settings
           /\ request[p].key \in Keys /\ request[p].on \in BOOLEAN
           /\ request[p].key \in DOMAIN request[p].state
           /\ \A at \in {"open", "write", "set"} :
                  /\ [request[p] EXCEPT !.at = at] \in Requests
                  /\ [request[p] EXCEPT !.at = at].at = at
                  /\ [request[p] EXCEPT !.at = at].key = request[p].key
                  /\ [request[p] EXCEPT !.at = at].on = request[p].on
                  /\ [request[p] EXCEPT !.at = at].state = request[p].state
  <1> DEFINE r == request[p]
  <1>1. r \in Requests /\ r.key \in DOMAIN r.state
    BY DEF SettingsTyped
  <1> HIDE DEF r
  <1>2. \A at \in {"open", "write", "set"} :
            /\ [r EXCEPT !.at = at] \in Requests
            /\ [r EXCEPT !.at = at].at = at
            /\ [r EXCEPT !.at = at].key = r.key
            /\ [r EXCEPT !.at = at].on = r.on
            /\ [r EXCEPT !.at = at].state = r.state
    BY <1>1 DEF Requests
  <1>3. r.state \in Settings /\ r.key \in Keys /\ r.on \in BOOLEAN
    BY <1>1 DEF Requests
  <1> QED
    BY <1>1, <1>2, <1>3 DEF r

(* A request that goes on.                                                 *)
LEMMA GoesOn ==
    ASSUME SettingsTyped, NEW p \in Procs, request[p] # None,
           NEW at \in {"open", "write", "set"},
           request' = [request EXCEPT ![p].at = at]
    PROVE  /\ request' \in [Procs -> Requests \cup {None}]
           /\ \A q \in Procs : request'[q] # None =>
                  request'[q].key \in DOMAIN request'[q].state
           /\ \A q \in Procs : q # p => request'[q] = request[q]
           /\ request'[p].at = at
           /\ request'[p].key = request[p].key /\ request'[p].on = request[p].on
           /\ request'[p].state = request[p].state
           /\ request'[p] # None
  <1> DEFINE r == [request[p] EXCEPT !.at = at]
  <1>1. /\ r \in Requests /\ r.at = at /\ r.key = request[p].key
        /\ r.on = request[p].on /\ r.state = request[p].state
        /\ request[p].key \in DOMAIN request[p].state
    BY RequestOf
  <1>2. request' = [request EXCEPT ![p] = r]
    BY DEF SettingsTyped
  <1>3. r # None
    BY <1>1, ScalpingAssumption
  <1> HIDE DEF r
  <1>4. request'[p] = r /\ \A q \in Procs : q # p => request'[q] = request[q]
    BY <1>2 DEF SettingsTyped
  <1> QED
    BY <1>1, <1>2, <1>3, <1>4 DEF SettingsTyped

LEMMA OpenFileTyped ==
    ASSUME Typed, NEW p \in Procs, OpenFile(p) PROVE Typed'
  <1>1. /\ request[p] # None /\ file' = Torn
        /\ request' = [request EXCEPT ![p].at = "write"]
        /\ UNCHANGED <<cache, fresh, flags, wanted, behind, damaged, gate, cycle>>
    BY DEF OpenFile, engine
  <1>2. /\ request' \in [Procs -> Requests \cup {None}]
        /\ \A q \in Procs : request'[q] # None =>
               request'[q].key \in DOMAIN request'[q].state
    BY <1>1, GoesOn DEF Typed
  <1> QED
    BY <1>1, <1>2 DEF Typed, SettingsTyped, CycleTyped

LEMMA WriteFileTyped ==
    ASSUME Typed, NEW p \in Procs, WriteFile(p) PROVE Typed'
  <1>1. /\ request[p] # None /\ file' = request[p].state
        /\ wanted' = Put(wanted, request[p].key, request[p].on)
        /\ behind' = [behind EXCEPT ![Other(p)] = TRUE]
        /\ request' = [request EXCEPT ![p].at = "set"]
        /\ UNCHANGED <<cache, fresh, flags, damaged, gate, cycle>>
    BY DEF WriteFile, engine
  <1>2. /\ request' \in [Procs -> Requests \cup {None}]
        /\ \A q \in Procs : request'[q] # None =>
               request'[q].key \in DOMAIN request'[q].state
    BY <1>1, GoesOn DEF Typed
  <1>3. file' \in Settings /\ wanted' \in Settings
    BY <1>1, RequestOf, PutTyped DEF Typed, SettingsTyped
  <1>4. behind' \in [Procs -> BOOLEAN]
    BY <1>1 DEF Typed, SettingsTyped
  <1> QED
    BY <1>1, <1>2, <1>3, <1>4 DEF Typed, SettingsTyped, CycleTyped

(* A write that fails forgets the request and changes no setting.          *)
LEMMA WriteFailsTyped ==
    ASSUME Typed, NEW p \in Procs, WriteFails(p) PROVE Typed'
  <1>1. /\ request' = [request EXCEPT ![p] = None]
        /\ damaged' = TRUE
        /\ UNCHANGED <<file, cache, fresh, flags, wanted, behind, gate, cycle>>
    BY DEF WriteFails, engine
  <1>2. /\ request' \in [Procs -> Requests \cup {None}]
        /\ \A q \in Procs : request'[q] # None =>
               request'[q].key \in DOMAIN request'[q].state
    BY <1>1 DEF Typed, SettingsTyped
  <1> QED
    BY <1>1, <1>2 DEF Typed, SettingsTyped, CycleTyped

(* The flag that is set is of a switch, and the cycle forgets the          *)
(* strategies that are off.                                                *)
LEMMA SetFlagEffect ==
    ASSUME Typed, NEW p \in Procs, SetFlag(p)
    PROVE  /\ flags' \in [Procs -> [Keys -> BOOLEAN]]
           /\ cycle' = [at |-> cycle.at, left |-> cycle.left,
                        asked |-> cycle.asked, placed |-> cycle.placed,
                        always |-> {s \in cycle.always : flags'[Engine][s]}]
  <1> DEFINE k == request[p].key
             on == request[p].on
             kept == {s \in cycle.always : flags'[Engine][s]}
  <1>1. k \in Keys /\ on \in BOOLEAN
    BY RequestOf DEF SetFlag, Typed
  <1>2. flags' = [flags EXCEPT ![p] = [flags[p] EXCEPT ![k] = on]]
    BY DEF SetFlag, Typed, SettingsTyped
  <1>3. flags' \in [Procs -> [Keys -> BOOLEAN]]
    <2> HIDE DEF k, on
    <2> QED
      BY <1>1, <1>2 DEF Typed, SettingsTyped
  <1>4. cycle' = [cycle EXCEPT !.always = kept]
    BY DEF SetFlag
  <1>5. cycle = [at |-> cycle.at, left |-> cycle.left, asked |-> cycle.asked,
                 placed |-> cycle.placed, always |-> cycle.always]
    BY DEF Typed, CycleTyped
  <1> HIDE DEF kept
  <1>6. cycle' = [at |-> cycle.at, left |-> cycle.left, asked |-> cycle.asked,
                  placed |-> cycle.placed, always |-> kept]
    BY <1>4, <1>5
  <1> QED
    BY <1>3, <1>6 DEF kept

LEMMA SetFlagTyped ==
    ASSUME Typed, NEW p \in Procs, SetFlag(p) PROVE Typed'
  <1>1. /\ request' = [request EXCEPT ![p] = None]
        /\ UNCHANGED <<file, cache, fresh, wanted, behind, damaged, gate>>
    BY DEF SetFlag
  <1>2. /\ request' \in [Procs -> Requests \cup {None}]
        /\ \A q \in Procs : request'[q] # None =>
               request'[q].key \in DOMAIN request'[q].state
    BY <1>1 DEF Typed, SettingsTyped
  <1>3. CycleTyped'
    BY SetFlagEffect DEF Typed, CycleTyped
  <1> QED
    BY <1>1, <1>2, <1>3, SetFlagEffect DEF Typed, SettingsTyped

LEMMA StatusTyped ==
    ASSUME Typed, NEW p \in Procs, Status(p) PROVE Typed'
  <1>1. /\ Load(p, Loads(p))
        /\ UNCHANGED <<file, request, flags, wanted, damaged, gate, cycle>>
    BY DEF Status, engine
  <1>2. /\ cache' \in [Procs -> Settings]
        /\ fresh' \in [Procs -> BOOLEAN] /\ behind' \in [Procs -> BOOLEAN]
    BY <1>1, LoadsTyped, LoadTyped DEF Typed
  <1> QED
    BY <1>1, <1>2 DEF Typed, SettingsTyped, CycleTyped

LEMMA IdleTyped ==
    /\ Idle = [at |-> Idle.at, left |-> Idle.left, asked |-> Idle.asked,
               placed |-> Idle.placed, always |-> Idle.always]
    /\ Idle.at = "idle" /\ Idle.left = << >> /\ Idle.left \in Seq(Strategies)
    /\ Idle.asked = {} /\ Idle.always = {}
  BY DEF Idle

LEMMA RestartTyped ==
    ASSUME Typed, NEW p \in Procs, Restart(p) PROVE Typed'
  <1>1. /\ damaged' = (damaged \/ (request[p] # None /\ request[p].at = "write"))
        /\ request' = [request EXCEPT ![p] = None]
        /\ flags' = [flags EXCEPT ![p] = Default]
        /\ cache' = [cache EXCEPT ![p] = Nothing]
        /\ fresh' = [fresh EXCEPT ![p] = FALSE]
        /\ \/ gate' = Default[Gate] /\ cycle' = Idle
           \/ UNCHANGED <<gate, cycle>>
        /\ UNCHANGED <<file, wanted, behind>>
    BY DEF Restart, engine
  <1>2. Default \in [Keys -> BOOLEAN] /\ Default[Gate] \in BOOLEAN
    BY ScalpingAssumption DEF Keys
  <1>3. CycleTyped' /\ gate' \in BOOLEAN
    BY <1>1, <1>2, IdleTyped DEF Typed, CycleTyped
  <1>4. /\ request' \in [Procs -> Requests \cup {None}]
        /\ \A q \in Procs : request'[q] # None =>
               request'[q].key \in DOMAIN request'[q].state
    BY <1>1 DEF Typed, SettingsTyped
  <1>5. /\ flags' \in [Procs -> [Keys -> BOOLEAN]]
        /\ cache' \in [Procs -> Settings] /\ fresh' \in [Procs -> BOOLEAN]
    BY <1>1, <1>2, NothingTyped DEF Typed, SettingsTyped
  <1>6. damaged' \in BOOLEAN
    BY <1>1 DEF Typed, SettingsTyped
  <1> QED
    BY <1>1, <1>3, <1>4, <1>5, <1>6 DEF Typed, SettingsTyped

----------------------------------------------------------------------------
(* reload_strategies, by induction over the list of strategies.            *)

(* A set of naturals that is not empty has a least element.                *)
LEMMA LeastNatural ==
    ASSUME NEW T \in SUBSET Nat, T # {}
    PROVE  \E x \in T : \A y \in T : x <= y
  <1> DEFINE R == OpToRel(<, Nat)
  <1>1. \A x, y \in Nat : <<y, x>> \in R <=> y < x
    BY DEF OpToRel
  <1>2. IsWellFoundedOn(R, Nat)
    BY NatLessThanWellFounded
  <1> HIDE DEF R
  <1>3. PICK x \in T : \A y \in T : ~(<<y, x>> \in R)
    BY <1>2, WFMin
  <1>4. ASSUME NEW y \in T PROVE x <= y
    <2>1. ~(y < x) /\ x \in Nat /\ y \in Nat
      BY <1>1, <1>3
    <2> QED
      BY <2>1
  <1> QED
    BY <1>4

(* A set with zero and every successor has all naturals.                   *)
LEMMA SetInduction ==
    ASSUME NEW S, 0 \in S, \A n \in Nat : n \in S => n + 1 \in S
    PROVE  Nat \subseteq S
  <1> SUFFICES ASSUME Nat \ S # {} PROVE FALSE
    OBVIOUS
  <1>1. PICK x \in Nat \ S : \A y \in Nat \ S : x <= y
    BY LeastNatural
  <1>2. x # 0
    BY <1>1
  <1>3. x - 1 \in Nat /\ x - 1 \in S
    BY <1>1, <1>2
  <1> QED
    BY <1>1, <1>3

(* f[n] is what is loaded of the first n entries.                          *)
LoadsFirst(f, n) ==
    f = [k \in 0..n |->
            IF k = 0 THEN << >> ELSE f[k - 1] \o Instances(Loadable[k])]

LEMMA LoadedExists ==
    ASSUME NEW n \in Nat PROVE \E f : LoadsFirst(f, n)
  <1> DEFINE S == {m \in Nat : \E f : LoadsFirst(f, m)}
  <1>1. 0 \in S
    <2>1. LoadsFirst([k \in 0..0 |-> << >>], 0)
      BY DEF LoadsFirst
    <2> QED
      BY <2>1
  <1>2. ASSUME NEW m \in Nat, m \in S PROVE m + 1 \in S
    <2>1. PICK f : LoadsFirst(f, m)
      BY <1>2
    <2> DEFINE last == f[m] \o Instances(Loadable[m + 1])
               g == [k \in 0..(m + 1) |-> IF k <= m THEN f[k] ELSE last]
    <2>2. \A k \in 0..m :
              f[k] = IF k = 0 THEN << >> ELSE f[k - 1] \o Instances(Loadable[k])
      BY <2>1 DEF LoadsFirst
    <2>3. ASSUME NEW k \in 0..(m + 1)
          PROVE  g[k] = IF k = 0 THEN << >> ELSE g[k - 1] \o Instances(Loadable[k])
      <3>1. CASE k = 0
        BY <2>2, <3>1
      <3>2. CASE k \in 1..m
        BY <2>2, <3>2
      <3>3. CASE k = m + 1
        BY <3>3
      <3> QED
        BY <3>1, <3>2, <3>3
    <2>4. g = [k \in 0..(m + 1) |->
                  IF k = 0 THEN << >> ELSE g[k - 1] \o Instances(Loadable[k])]
      BY <2>3
    <2>5. LoadsFirst(g, m + 1)
      BY <2>4 DEF LoadsFirst
    <2> QED
      BY <2>5
  <1>3. Nat \subseteq S
    BY <1>1, <1>2, SetInduction
  <1> QED
    BY <1>3

Has(seq, s) == \E j \in 1..Len(seq) : seq[j] = s

LEMMA Appended ==
    ASSUME NEW seq \in Seq(Strategies), NEW s \in Strategies
    PROVE  /\ seq \o Instances(s) \in Seq(Strategies)
           /\ \A r : Has(seq, r) => Has(seq \o Instances(s), r)
           /\ s \in On(Engine) => Has(seq \o Instances(s), s)
  <1>1. CASE s \in On(Engine)
    <2>1. Instances(s) = <<s>>
      BY <1>1 DEF Instances
    <2> DEFINE longer == seq \o <<s>>
    <2>2. /\ longer \in Seq(Strategies) /\ Len(longer) = Len(seq) + 1
          /\ Len(seq) \in Nat
          /\ \A j \in 1..Len(seq) : longer[j] = seq[j]
          /\ longer[Len(seq) + 1] = s
      OBVIOUS
    <2> HIDE DEF longer
    <2>3. /\ \A j \in 1..Len(seq) : j \in 1..Len(longer)
          /\ Len(seq) + 1 \in 1..Len(longer)
      BY <2>2
    <2>4. (\A r : Has(seq, r) => Has(longer, r)) /\ Has(longer, s)
      BY <2>2, <2>3 DEF Has
    <2> QED
      BY <2>1, <2>2, <2>4 DEF longer
  <1>2. CASE s \notin On(Engine)
    <2>1. Instances(s) = << >>
      BY <1>2 DEF Instances
    <2>2. seq \o << >> = seq
      OBVIOUS
    <2> QED
      BY <1>2, <2>1, <2>2
  <1> QED
    BY <1>1, <1>2

LEMMA LoadedHas ==
    ASSUME NEW n \in 0..Len(Loadable), NEW f, LoadsFirst(f, n)
    PROVE  /\ f[n] \in Seq(Strategies)
           /\ \A i \in 1..n : Loadable[i] \in On(Engine) => Has(f[n], Loadable[i])
  <1> DEFINE Done(m) ==
                 /\ f[m] \in Seq(Strategies)
                 /\ \A i \in 1..m :
                        Loadable[i] \in On(Engine) => Has(f[m], Loadable[i])
             S == {m \in Nat : m <= n => Done(m)}
  <1>1. /\ \A k \in 0..n :
               f[k] = IF k = 0 THEN << >> ELSE f[k - 1] \o Instances(Loadable[k])
        /\ n \in Nat
        /\ \A k \in 1..n : Loadable[k] \in Strategies
    BY ScalpingAssumption DEF LoadsFirst
  <1>2. 0 \in S
    <2>1. f[0] = IF 0 = 0 THEN << >> ELSE f[0 - 1] \o Instances(Loadable[0])
      <3>1. 0 \in 0..n
        BY <1>1
      <3> QED
        BY <1>1, <3>1
    <2>2. f[0] = << >>
      BY <2>1
    <2>3. << >> \in Seq(Strategies)
      OBVIOUS
    <2>4. 1..0 = {}
      OBVIOUS
    <2>5. Done(0)
      BY <2>2, <2>3, <2>4
    <2> QED
      BY <2>5
  <1>3. ASSUME NEW m \in Nat, m \in S PROVE m + 1 \in S
    <2> SUFFICES ASSUME m + 1 <= n PROVE Done(m + 1)
      OBVIOUS
    <2>1. Done(m)
      BY <1>1, <1>3
    <2> DEFINE s == Loadable[m + 1]
    <2>2. s \in Strategies /\ f[m + 1] = f[m] \o Instances(s)
      <3>1. /\ m + 1 \in 0..n /\ m + 1 \in 1..n
            /\ m + 1 # 0 /\ (m + 1) - 1 = m
        BY <1>1
      <3>2. f[m + 1] = IF m + 1 = 0 THEN << >>
                       ELSE f[(m + 1) - 1] \o Instances(Loadable[m + 1])
        BY <1>1, <3>1
      <3> QED
        BY <1>1, <3>1, <3>2
    <2>3. /\ f[m + 1] \in Seq(Strategies)
          /\ \A r : Has(f[m], r) => Has(f[m + 1], r)
          /\ s \in On(Engine) => Has(f[m + 1], s)
      BY <2>1, <2>2, Appended
    <2>4. ASSUME NEW i \in 1..(m + 1), Loadable[i] \in On(Engine)
          PROVE  Has(f[m + 1], Loadable[i])
      <3>1. CASE i = m + 1
        BY <2>3, <2>4, <3>1
      <3>2. CASE i \in 1..m
        BY <2>1, <2>3, <2>4, <3>2
      <3> QED
        BY <3>1, <3>2
    <2> QED
      BY <2>3, <2>4
  <1> HIDE DEF Done
  <1>4. Nat \subseteq S
    BY <1>2, <1>3, SetInduction
  <1>5. Done(n)
    BY <1>1, <1>4
  <1> QED
    BY <1>5 DEF Done

(* What is on is loaded.                                                   *)
LEMMA ReloadedHas ==
    /\ Reloaded \in Seq(Strategies)
    /\ \A i \in 1..Len(Loadable) :
           Loadable[i] \in On(Engine) => Has(Reloaded, Loadable[i])
  <1> DEFINE n == Len(Loadable)
             first == CHOOSE f : LoadsFirst(f, n)
  <1>1. n \in Nat /\ n \in 0..n
    BY ScalpingAssumption
  <1>2. Reloaded = first[n]
    BY DEF Reloaded, LoadsFirst
  <1>3. LoadsFirst(first, n)
    BY <1>1, LoadedExists
  <1> HIDE DEF first
  <1> QED
    BY <1>1, <1>2, <1>3, LoadedHas

----------------------------------------------------------------------------
(* The cycle.                                                              *)

(* What has been on all the time is on, and once the strategies run has    *)
(* been asked or is still to be.                                           *)
Turns ==
    /\ cycle.always \subseteq On(Engine)
    /\ cycle.at = "running" =>
           \A i \in 1..Len(Loadable) :
               Loadable[i] \in cycle.always =>
                   Loadable[i] \in cycle.asked \/ Has(cycle.left, Loadable[i])

LEMMA CycleStep ==
    ASSUME Typed, Turns, Cycle
    PROVE  Typed' /\ Turns'
  <1>1. UNCHANGED <<settings, gate>>
    BY DEF Cycle, BeginCycle, Check, Reload, RunStrategy, EndCycle
  <1>2. /\ SettingsTyped' /\ gate' \in BOOLEAN /\ On(Engine)' = On(Engine)
        /\ On(Engine) \subseteq Strategies
    BY <1>1 DEF settings, Typed, SettingsTyped, On
  <1>3. cycle = [at |-> cycle.at, left |-> cycle.left, asked |-> cycle.asked,
                 placed |-> cycle.placed, always |-> cycle.always]
    BY DEF Typed, CycleTyped
  <1>4. CASE cycle' = Idle
    <2>1. Turns'
      BY <1>4, IdleTyped DEF Turns
    <2>2. CycleTyped'
      BY <1>4, IdleTyped DEF CycleTyped
    <2> QED
      BY <1>2, <2>1, <2>2 DEF Typed
  <1>5. CASE BeginCycle
    <2>1. cycle' = [at |-> "begun", left |-> << >>, asked |-> {},
                    placed |-> {}, always |-> On(Engine)]
      BY <1>5 DEF BeginCycle, Idle
    <2>2. Turns'
      BY <1>2, <2>1 DEF Turns
    <2>3. CycleTyped'
      BY <1>2, <2>1 DEF CycleTyped
    <2> QED
      BY <1>2, <2>2, <2>3 DEF Typed
  <1>6. CASE cycle' = [cycle EXCEPT !.at = "checked"]
    <2>1. cycle' = [at |-> "checked", left |-> cycle.left, asked |-> cycle.asked,
                    placed |-> cycle.placed, always |-> cycle.always]
      BY <1>3, <1>6
    <2>2. Turns'
      BY <1>2, <2>1 DEF Turns
    <2>3. CycleTyped'
      BY <2>1 DEF CycleTyped, Typed
    <2> QED
      BY <1>2, <2>2, <2>3 DEF Typed
  <1>7. CASE Reload
    <2>1. cycle' = [cycle EXCEPT !.at = "running", !.left = Reloaded]
      BY <1>7 DEF Reload
    <2>2. cycle' = [at |-> "running", left |-> Reloaded, asked |-> cycle.asked,
                    placed |-> cycle.placed, always |-> cycle.always]
      BY <1>3, <2>1
    <2>3. Turns'
      BY <1>2, <2>2, ReloadedHas DEF Turns
    <2>4. CycleTyped'
      BY <2>2, ReloadedHas DEF CycleTyped, Typed
    <2> QED
      BY <1>2, <2>3, <2>4 DEF Typed
  <1>8. CASE RunStrategy
    <2>1. PICK placed :
              cycle' = [cycle EXCEPT !.left = Tail(cycle.left),
                                     !.asked = @ \cup {Head(cycle.left)},
                                     !.placed = placed]
      BY <1>8 DEF RunStrategy, LeftAfter
    <2>2. cycle' = [at |-> cycle.at, left |-> Tail(cycle.left),
                    asked |-> cycle.asked \cup {Head(cycle.left)},
                    placed |-> placed, always |-> cycle.always]
      BY <1>3, <2>1
    <2> DEFINE left == cycle.left
    <2>3. left \in Seq(Strategies) /\ left # << >> /\ cycle.at = "running"
      BY <1>8 DEF RunStrategy, Typed, CycleTyped
    <2>4. ASSUME NEW s, Has(left, s) PROVE s = Head(left) \/ Has(Tail(left), s)
      <3>1. PICK j \in 1..Len(left) : left[j] = s
        BY <2>4 DEF Has
      <3> HIDE DEF left
      <3>2. CASE j = 1
        BY <2>3, <3>1, <3>2
      <3>3. CASE j # 1
        <4>1. j - 1 \in 1..Len(Tail(left)) /\ Tail(left)[j - 1] = left[j]
          BY <2>3, <3>1, <3>3
        <4> QED
          BY <3>1, <4>1 DEF Has
      <3> QED
        BY <3>2, <3>3
    <2>5. Tail(left) \in Seq(Strategies) /\ Head(left) \in Strategies
      <3> HIDE DEF left
      <3> QED
        BY <2>3
    <2>6. ASSUME NEW i \in 1..Len(Loadable), Loadable[i] \in cycle.always
          PROVE  \/ Loadable[i] \in cycle.asked \cup {Head(left)}
                 \/ Has(Tail(left), Loadable[i])
      BY <2>3, <2>4, <2>6 DEF Turns
    <2>7. Turns'
      BY <1>2, <2>2, <2>6 DEF Turns
    <2>8. CycleTyped'
      BY <2>2, <2>5 DEF CycleTyped, Typed
    <2> QED
      BY <1>2, <2>7, <2>8 DEF Typed
  <1> QED
    BY <1>4, <1>5, <1>6, <1>7, <1>8 DEF Cycle, Check, EndCycle

(* The switches: what is turned off has not been on all the time.          *)
LEMMA SetFlagTurns ==
    ASSUME Typed, Turns, NEW p \in Procs, SetFlag(p) PROVE Turns'
  <1>1. cycle' = [at |-> cycle.at, left |-> cycle.left,
                  asked |-> cycle.asked, placed |-> cycle.placed,
                  always |-> {s \in cycle.always : flags'[Engine][s]}]
    BY SetFlagEffect
  <1>2. cycle.always \subseteq Strategies
    BY DEF Typed, CycleTyped
  <1>3. cycle'.always \subseteq On(Engine)'
    BY <1>1, <1>2 DEF On
  <1> QED
    BY <1>1, <1>3 DEF Turns

LEMMA RestartTurns ==
    ASSUME Typed, Turns, NEW p \in Procs, Restart(p) PROVE Turns'
  <1>1. CASE p = Engine
    BY <1>1, IdleTyped DEF Restart, Turns
  <1>2. CASE p # Engine
    <2>1. UNCHANGED cycle /\ flags'[Engine] = flags[Engine]
      BY <1>2 DEF Restart, engine, Typed, SettingsTyped, Procs
    <2> QED
      BY <2>1 DEF Turns, On
  <1> QED
    BY <1>1, <1>2

LEMMA StepTurns ==
    ASSUME Typed, Turns, [Next]_vars PROVE Typed' /\ Turns'
  <1>1. ASSUME UNCHANGED <<flags, cycle>> PROVE Turns'
    BY <1>1 DEF Turns, On
  <1>2. ASSUME NEW p \in Procs, Toggle(p) PROVE Typed' /\ Turns'
    <2>1. ASSUME NEW c \in Changes, BeginToggle(p, c[1], c[2])
          PROVE  Typed' /\ Turns'
      BY <1>1, <2>1, BeginToggleTyped DEF BeginToggle, engine
    <2>2. CASE OpenFile(p)
      BY <1>1, <2>2, OpenFileTyped DEF OpenFile, engine
    <2>3. CASE WriteFile(p)
      BY <1>1, <2>3, WriteFileTyped DEF WriteFile, engine
    <2>4. CASE SetFlag(p)
      BY <2>4, SetFlagTyped, SetFlagTurns
    <2>5. CASE WriteFails(p)
      BY <1>1, <2>5, WriteFailsTyped DEF WriteFails, engine
    <2> QED
      BY <1>2, <2>1, <2>2, <2>3, <2>4, <2>5 DEF Toggle
  <1>3. ASSUME NEW p \in Procs, Status(p) PROVE Typed' /\ Turns'
    BY <1>1, <1>3, StatusTyped DEF Status, engine
  <1>4. ASSUME NEW p \in Procs, Expire(p) PROVE Typed' /\ Turns'
    <2>1. fresh' \in [Procs -> BOOLEAN]
      BY <1>4 DEF Expire, Typed, SettingsTyped
    <2> QED
      BY <1>1, <1>4, <2>1 DEF Expire, engine, Typed, SettingsTyped, CycleTyped
  <1>5. ASSUME NEW p \in Procs, Restart(p) PROVE Typed' /\ Turns'
    BY <1>5, RestartTyped, RestartTurns
  <1>6. CASE ToggleScalper
    BY <1>1, <1>6 DEF ToggleScalper, settings, Typed, SettingsTyped, CycleTyped
  <1>7. CASE UNCHANGED vars
    BY <1>1, <1>7 DEF vars, settings, engine, Typed, SettingsTyped, CycleTyped
  <1> QED
    BY <1>2, <1>3, <1>4, <1>5, <1>6, <1>7, CycleStep DEF Next

LEMMA InitTurns == ASSUME Init PROVE Typed /\ Turns
  <1>1. Default \in [Keys -> BOOLEAN] /\ Default[Gate] \in BOOLEAN
    BY ScalpingAssumption DEF Keys
  <1>2. CycleTyped /\ Turns
    BY IdleTyped DEF Init, CycleTyped, Turns
  <1>3. SettingsTyped /\ gate \in BOOLEAN
    BY <1>1, NothingTyped DEF Init, SettingsTyped
  <1> QED
    BY <1>2, <1>3 DEF Typed

LEMMA TurnsInvariant == Spec => [](Typed /\ Turns)
  BY InitTurns, StepTurns, PTL DEF Spec

(* Every variable keeps its type.                                          *)
THEOREM TypeCorrect == Spec => []TypeOK
  <1>1. Typed => TypeOK
    <2>1. ASSUME Typed, NEW p \in Procs, request[p] # None
          PROVE  /\ request[p].at \in {"open", "write", "set"}
                 /\ request[p].key \in DOMAIN request[p].state
      BY <2>1 DEF Typed, SettingsTyped, Requests
    <2> QED
      BY <2>1 DEF Typed, SettingsTyped, CycleTyped, TypeOK
  <1> QED
    BY <1>1, TurnsInvariant, PTL

(* A cycle that has finished has asked every strategy that was on all the  *)
(* time (run_cycle, _run_strategy), whatever exceptions others raised and  *)
(* whatever switches changed under way.                                    *)
THEOREM EveryStrategyIsAsked == Spec => []EveryStrategyAsked
  <1>1. ASSUME Turns, cycle.at = "running", cycle.left = << >>,
               NEW i \in DOMAIN Loadable, Loadable[i] \in cycle.always
        PROVE  Loadable[i] \in cycle.asked
    <2>1. i \in 1..Len(Loadable)
      BY ScalpingAssumption
    <2>2. ~Has(cycle.left, Loadable[i])
      BY <1>1 DEF Has
    <2> QED
      BY <1>1, <2>1, <2>2 DEF Turns
  <1>2. Turns => EveryStrategyAsked
    BY <1>1 DEF EveryStrategyAsked
  <1> QED
    BY <1>2, TurnsInvariant, PTL

----------------------------------------------------------------------------
(* The file of settings.  As long as no two toggles have met, at most one  *)
(* process is between the reading and the end of the writing of the file,  *)
(* its request is what was written last with its own key changed, and the  *)
(* cache of a process is what was written last unless the other process    *)
(* has written since.                                                      *)

Busy(p) == request[p] # None /\ request[p].at # "set"
Writing(p) == request[p] # None /\ request[p].at = "write"

Good(p) ==
    /\ Busy(p) => ~Busy(Other(p))
    /\ Busy(p) => request[p].state = Put(wanted, request[p].key, request[p].on)
    /\ Cached(p) /\ ~behind[p] =>
           cache[p] = IF Busy(p) THEN request[p].state ELSE wanted

Filed == IF \E p \in Procs : Writing(p) THEN file = Torn ELSE file = wanted
Whole == Filed /\ \A p \in Procs : Good(p)
Sound == damaged \/ Whole

LEMMA Others ==
    \A p \in Procs : /\ Other(p) \in Procs /\ Other(p) # p /\ Other(Other(p)) = p
                     /\ \A q \in Procs : q = p \/ q = Other(p)
  BY ScalpingAssumption DEF Procs, Other

(* Without overlap a process loads what was written last.                  *)
LEMMA LoadsWanted ==
    ASSUME Typed, Whole, NEW p \in Procs, ~Busy(p), ~Overlaps(p)
    PROVE  /\ Loads(p) = wanted
           /\ \A q \in Procs : ~Busy(q)
           /\ file = wanted
  <1>1. \A q \in Procs : ~Busy(q)
    BY Others DEF Overlaps, Busy
  <1>2. file = wanted
    BY <1>1 DEF Whole, Filed, Busy, Writing
  <1>3. Cached(p) => cache[p] = wanted
    BY DEF Overlaps, Whole, Good
  <1>4. wanted # Torn
    BY ScalpingAssumption DEF Typed, SettingsTyped
  <1> QED
    BY <1>1, <1>2, <1>3, <1>4 DEF Loads, Readable

(* The request that a toggle starts.                                       *)
LEMMA RequestMade ==
    ASSUME SettingsTyped, NEW p \in Procs, NEW c \in Changes,
           NEW r, r = [at |-> "open", key |-> c[1], on |-> c[2],
                       state |-> Put(Loads(p), c[1], c[2])]
    PROVE  /\ r \in Requests /\ r # None
           /\ r.at = "open" /\ r.key = c[1] /\ r.on = c[2]
           /\ r.state = Put(Loads(p), c[1], c[2])
  <1> DEFINE k == c[1]
             on == c[2]
             state == Put(Loads(p), k, on)
  <1>1. k \in Keys /\ on \in BOOLEAN
    BY ScalpingAssumption
  <1>2. state \in Settings
    BY <1>1, LoadsTyped, PutTyped
  <1>3. r = [at |-> "open", key |-> k, on |-> on, state |-> state]
    OBVIOUS
  <1> HIDE DEF k, on, state
  <1>4. /\ r \in Requests /\ r.at = "open" /\ r.key = k /\ r.on = on
        /\ r.state = state
    BY <1>1, <1>2, <1>3 DEF Requests
  <1> QED
    BY <1>4, ScalpingAssumption DEF k, on, state

LEMMA BeginToggleSound ==
    ASSUME Typed, Sound, NEW p \in Procs, NEW c \in Changes,
           BeginToggle(p, c[1], c[2])
    PROVE  Sound'
  <1> DEFINE k == c[1]
             on == c[2]
             state == Put(Loads(p), k, on)
             r == [at |-> "open", key |-> k, on |-> on, state |-> state]
  <1>1. CASE damaged \/ Overlaps(p)
    BY <1>1 DEF BeginToggle, Sound
  <1>2. CASE ~damaged /\ ~Overlaps(p)
    <2>1. request[p] = None /\ ~Busy(p) /\ Whole
      BY <1>2 DEF BeginToggle, Busy, Sound
    <2>2. /\ Loads(p) = wanted /\ file = wanted
          /\ \A q \in Procs : ~Busy(q)
      BY <1>2, <2>1, LoadsWanted
    <2>3. /\ request' = [request EXCEPT ![p] = r]
          /\ cache' = [cache EXCEPT ![p] = Remembers(p, state)]
          /\ fresh' = [fresh EXCEPT ![p] = @ \/ Readable]
          /\ behind' = [behind EXCEPT ![p] = @ /\ (Cached(p) \/ ~Readable)]
          /\ file' = file /\ wanted' = wanted
      BY DEF BeginToggle, Load
    <2>4. /\ r # None /\ r.at = "open" /\ r.key = k /\ r.on = on
          /\ r.state = state /\ state = Put(wanted, k, on)
      BY <2>2, RequestMade DEF Typed
    <2> HIDE DEF r, state, k, on
    <2>5. /\ request'[p] = r
          /\ \A q \in Procs : q # p =>
                 /\ request'[q] = request[q] /\ cache'[q] = cache[q]
                 /\ fresh'[q] = fresh[q] /\ behind'[q] = behind[q]
          /\ cache'[p] = Remembers(p, state)
          /\ fresh'[p] = (fresh[p] \/ Readable)
      BY <2>3 DEF Typed, SettingsTyped
    <2>6. Busy(p)' /\ \A q \in Procs : ~Writing(q)' /\ (q # p => ~Busy(q)')
      BY <2>2, <2>4, <2>5 DEF Busy, Writing
    <2>7. Filed'
      BY <2>2, <2>3, <2>6 DEF Filed
    <2>8. ASSUME NEW q \in Procs, q # p PROVE Good(q)'
      BY <2>1, <2>2, <2>3, <2>5, <2>6, <2>8 DEF Good, Whole, Cached
    <2>9. Cached(p)' => cache'[p] = state
      BY <2>5 DEF Cached, Remembers
    <2>10. Good(p)'
      BY <2>3, <2>4, <2>5, <2>6, <2>9, Others DEF Good
    <2> QED
      BY <2>7, <2>8, <2>10 DEF Sound, Whole
  <1> QED
    BY <1>1, <1>2

(* The file is emptied.                                                    *)
LEMMA OpenFileSound ==
    ASSUME Typed, Sound, NEW p \in Procs, OpenFile(p) PROVE Sound'
  <1>1. /\ request[p] # None /\ request[p].at = "open" /\ file' = Torn
        /\ request' = [request EXCEPT ![p].at = "write"]
        /\ UNCHANGED <<cache, fresh, wanted, behind, damaged>>
    BY DEF OpenFile
  <1>2. /\ \A q \in Procs : q # p => request'[q] = request[q]
        /\ request'[p] # None /\ request'[p].at = "write"
        /\ request'[p].key = request[p].key /\ request'[p].on = request[p].on
        /\ request'[p].state = request[p].state
    BY <1>1, GoesOn DEF Typed
  <1>3. /\ Writing(p)'
        /\ \A q \in Procs : Busy(q)' <=> Busy(q)
    BY <1>1, <1>2 DEF Busy, Writing
  <1>4. Filed'
    BY <1>1, <1>3 DEF Filed
  <1>5. ASSUME NEW q \in Procs, Good(q) PROVE Good(q)'
    <2>1. /\ request'[q].key = request[q].key /\ request'[q].on = request[q].on
          /\ request'[q].state = request[q].state
      BY <1>2
    <2>2. Cached(q)' <=> Cached(q)
      BY <1>1 DEF Cached
    <2> QED
      BY <1>1, <1>3, <1>5, <2>1, <2>2, Others DEF Good
  <1> QED
    BY <1>1, <1>4, <1>5 DEF Sound, Whole

(* It is written: the other process's cache is behind from here on.        *)
LEMMA WriteFileSound ==
    ASSUME Typed, Sound, NEW p \in Procs, WriteFile(p) PROVE Sound'
  <1>1. /\ request[p] # None /\ request[p].at = "write"
        /\ file' = request[p].state
        /\ wanted' = Put(wanted, request[p].key, request[p].on)
        /\ behind' = [behind EXCEPT ![Other(p)] = TRUE]
        /\ request' = [request EXCEPT ![p].at = "set"]
        /\ UNCHANGED <<cache, fresh, damaged>>
    BY DEF WriteFile
  <1> SUFFICES ASSUME Whole PROVE Whole'
    BY <1>1 DEF Sound
  <1>2. /\ \A q \in Procs : q # p => request'[q] = request[q]
        /\ request'[p] # None /\ request'[p].at = "set"
    BY <1>1, GoesOn DEF Typed
  <1>3. Busy(p) /\ ~Busy(Other(p)) /\ file' = wanted'
    BY <1>1 DEF Busy, Whole, Good
  <1>4. \A q \in Procs : ~Busy(q)' /\ ~Writing(q)'
    BY <1>2, <1>3, Others DEF Busy, Writing
  <1>5. Filed'
    BY <1>3, <1>4 DEF Filed
  <1>6. behind'[Other(p)] = TRUE /\ behind'[p] = behind[p]
    BY <1>1, Others DEF Typed, SettingsTyped
  <1>7. Good(Other(p))'
    BY <1>4, <1>6, Others DEF Good
  <1>8. Good(p)'
    <2>1. Cached(p)' <=> Cached(p)
      BY <1>1 DEF Cached
    <2> QED
      BY <1>1, <1>3, <1>4, <1>6, <2>1 DEF Good, Whole
  <1> QED
    BY <1>5, <1>7, <1>8, Others DEF Whole

(* The request ends.                                                       *)
LEMMA SetFlagSound ==
    ASSUME Typed, Sound, NEW p \in Procs, SetFlag(p) PROVE Sound'
  <1>1. /\ request[p] # None /\ request[p].at = "set"
        /\ request' = [request EXCEPT ![p] = None]
        /\ UNCHANGED <<file, cache, fresh, wanted, behind, damaged>>
    BY DEF SetFlag
  <1>2. request'[p] = None /\ \A q \in Procs : q # p => request'[q] = request[q]
    BY <1>1 DEF Typed, SettingsTyped
  <1>3. \A q \in Procs : (Busy(q)' <=> Busy(q)) /\ (Writing(q)' <=> Writing(q))
    BY <1>1, <1>2 DEF Busy, Writing
  <1>4. Filed => Filed'
    BY <1>1, <1>3 DEF Filed
  <1>5. ASSUME NEW q \in Procs, Good(q) PROVE Good(q)'
    <2>1. Cached(q)' <=> Cached(q)
      BY <1>1 DEF Cached
    <2>2. q # p => request'[q] = request[q]
      BY <1>2
    <2>3. ~Busy(p)
      BY <1>1 DEF Busy
    <2> QED
      BY <1>1, <1>3, <1>5, <2>1, <2>2, <2>3, Others DEF Good
  <1> QED
    BY <1>1, <1>4, <1>5 DEF Sound, Whole

(* A status request may read the file into the cache.                      *)
LEMMA StatusSound ==
    ASSUME Typed, Sound, NEW p \in Procs, Status(p) PROVE Sound'
  <1>1. /\ request[p] = None /\ ~Cached(p) /\ Readable
        /\ cache' = [cache EXCEPT ![p] = Remembers(p, Loads(p))]
        /\ fresh' = [fresh EXCEPT ![p] = @ \/ Readable]
        /\ behind' = [behind EXCEPT ![p] = @ /\ (Cached(p) \/ ~Readable)]
        /\ UNCHANGED <<file, request, wanted, damaged>>
    BY DEF Status, Load
  <1> SUFFICES ASSUME Whole PROVE Whole'
    BY <1>1 DEF Sound
  <1>2. Loads(p) = file /\ Remembers(p, Loads(p)) = file /\ file # Torn
    BY <1>1 DEF Loads, Remembers, Readable
  <1>3. file = wanted
    BY <1>2 DEF Whole, Filed
  <1>4. cache'[p] = wanted
        /\ \A q \in Procs : q # p =>
               /\ cache'[q] = cache[q] /\ fresh'[q] = fresh[q]
               /\ behind'[q] = behind[q]
    BY <1>1, <1>2, <1>3 DEF Typed, SettingsTyped
  <1>5. \A q \in Procs : (Busy(q)' <=> Busy(q)) /\ (Writing(q)' <=> Writing(q))
    BY <1>1 DEF Busy, Writing
  <1>6. Filed'
    BY <1>1, <1>5 DEF Whole, Filed
  <1>7. ~Busy(p)
    BY <1>1 DEF Busy
  <1>8. Good(p)'
    BY <1>1, <1>4, <1>5, <1>7, Others DEF Good, Whole
  <1>9. ASSUME NEW q \in Procs, q # p PROVE Good(q)'
    <2>1. Cached(q)' <=> Cached(q)
      BY <1>4, <1>9 DEF Cached
    <2> QED
      BY <1>1, <1>4, <1>5, <1>9, <2>1, Others DEF Good, Whole
  <1> QED
    BY <1>6, <1>8, <1>9 DEF Whole

(* A cache grows old.                                                      *)
LEMMA ExpireSound ==
    ASSUME Typed, Sound, NEW p \in Procs, Expire(p) PROVE Sound'
  <1>1. /\ fresh' = [fresh EXCEPT ![p] = FALSE]
        /\ UNCHANGED <<file, cache, request, wanted, behind, damaged>>
    BY DEF Expire
  <1>2. \A q \in Procs : Cached(q)' => Cached(q)
    BY <1>1 DEF Cached, Typed, SettingsTyped
  <1>3. \A q \in Procs : (Busy(q)' <=> Busy(q)) /\ (Writing(q)' <=> Writing(q))
    BY <1>1 DEF Busy, Writing
  <1>4. Filed => Filed'
    BY <1>1, <1>3 DEF Filed
  <1>5. ASSUME NEW q \in Procs, Good(q) PROVE Good(q)'
    BY <1>1, <1>2, <1>3, <1>5, Others DEF Good
  <1> QED
    BY <1>1, <1>4, <1>5 DEF Sound, Whole

(* A process that is not writing dies without a trace in the file.         *)
LEMMA RestartSound ==
    ASSUME Typed, Sound, NEW p \in Procs, Restart(p) PROVE Sound'
  <1>1. /\ damaged' = (damaged \/ Writing(p))
        /\ request' = [request EXCEPT ![p] = None]
        /\ cache' = [cache EXCEPT ![p] = Nothing]
        /\ UNCHANGED <<file, wanted, behind>>
    BY DEF Restart, Writing
  <1>2. fresh' = [fresh EXCEPT ![p] = FALSE]
    BY DEF Restart
  <1> SUFFICES ASSUME ~Writing(p), Whole PROVE Whole'
    BY <1>1 DEF Sound
  <1>3. /\ request'[p] = None /\ cache'[p] = Nothing
        /\ \A q \in Procs : q # p =>
               /\ request'[q] = request[q] /\ cache'[q] = cache[q]
               /\ fresh'[q] = fresh[q]
    BY <1>1, <1>2 DEF Typed, SettingsTyped
  <1>4. /\ ~Busy(p)' /\ ~Writing(p)'
        /\ \A q \in Procs : q # p => /\ Busy(q)' <=> Busy(q)
                                     /\ Writing(q)' <=> Writing(q)
    BY <1>3 DEF Busy, Writing
  <1>5. Filed'
    BY <1>1, <1>4 DEF Whole, Filed
  <1>6. Good(p)'
    BY <1>3, <1>4 DEF Good, Cached
  <1>7. ASSUME NEW q \in Procs, q # p PROVE Good(q)'
    <2>1. Cached(q)' <=> Cached(q)
      BY <1>3, <1>7 DEF Cached
    <2>2. Other(q) = p
      BY <1>7, Others
    <2> QED
      BY <1>1, <1>3, <1>4, <1>7, <2>1, <2>2 DEF Good, Whole
  <1> QED
    BY <1>5, <1>6, <1>7 DEF Whole

LEMMA StepSound ==
    ASSUME Typed, Sound, [Next]_vars PROVE Sound'
  <1>1. ASSUME UNCHANGED settings PROVE Sound'
    <2>1. UNCHANGED <<file, cache, fresh, request, wanted, behind, damaged>>
      BY <1>1 DEF settings
    <2>2. \A q \in Procs : /\ Busy(q)' <=> Busy(q)
                           /\ Writing(q)' <=> Writing(q)
                           /\ Cached(q)' <=> Cached(q)
      BY <2>1 DEF Busy, Writing, Cached
    <2>3. Filed => Filed'
      BY <2>1, <2>2 DEF Filed
    <2>4. ASSUME NEW q \in Procs, Good(q) PROVE Good(q)'
      BY <2>1, <2>2, <2>4, Others DEF Good
    <2> QED
      BY <2>1, <2>3, <2>4 DEF Sound, Whole
  <1>2. ASSUME NEW p \in Procs, Toggle(p) PROVE Sound'
    <2>1. CASE WriteFails(p)
      BY <2>1 DEF WriteFails, Sound
    <2> QED
      BY <1>2, <2>1, BeginToggleSound, OpenFileSound, WriteFileSound, SetFlagSound
         DEF Toggle
  <1>3. CASE ToggleScalper
    BY <1>1, <1>3 DEF ToggleScalper
  <1>4. CASE Cycle
    BY <1>1, <1>4 DEF Cycle, BeginCycle, Check, Reload, RunStrategy, EndCycle
  <1>5. CASE UNCHANGED vars
    BY <1>1, <1>5 DEF vars
  <1> QED
    BY <1>2, <1>3, <1>4, <1>5, StatusSound, ExpireSound, RestartSound DEF Next

LEMMA InitSound == ASSUME Init PROVE Sound
  <1>1. \A p \in Procs : ~Busy(p) /\ ~Writing(p) /\ ~Cached(p)
    BY DEF Init, Busy, Writing, Cached
  <1> QED
    BY <1>1 DEF Init, Sound, Whole, Filed, Good

(* Settings are lost only when toggles of the two processes meet, or one   *)
(* finds the other's older than its cache, or a write fails or is cut      *)
(* short by a crash (_save_toggle_state): until then the file says of      *)
(* every key what was written last, except while it is being written.      *)
THEOREM SettingsAreKept == Spec => []SettingsSurvive
  <1>1. Sound => SettingsSurvive
    BY DEF Sound, Whole, Filed, Writing, SettingsSurvive
  <1>2. Spec => [](Typed /\ Turns /\ Sound)
    BY InitTurns, InitSound, StepTurns, StepSound, PTL DEF Spec
  <1> QED
    BY <1>1, <1>2, PTL
============================================================================
