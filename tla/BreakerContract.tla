-------------------------- MODULE BreakerContract --------------------------
(***************************************************************************)
(* What a trading circuit breaker promises, independent of how it counts:  *)
(*  - it opens exactly when a loss makes the current run of losses reach   *)
(*    the limit (again, if it was half open), and from then on time must   *)
(*    pass before anything is admitted;                                    *)
(*  - it leaves OPEN only for HALF_OPEN, and only once it has cooled;      *)
(*  - it leaves HALF_OPEN for CLOSED only on a winning trade.              *)
(* RiskManager implements it, with its counters and its clock hidden.      *)
(***************************************************************************)
EXTENDS Integers

CONSTANT LossLimit

VARIABLES
    state,      \* "CLOSED", "OPEN" or "HALF_OPEN"
    streak,     \* losing trades since the last winning one
    cooled      \* the cooldown has elapsed since the breaker last opened

vars == <<state, streak, cooled>>

Init == state = "CLOSED" /\ streak = 0 /\ cooled = FALSE

Loss ==
    /\ streak' = streak + 1
    /\ IF streak' >= LossLimit
       THEN state' = "OPEN" /\ cooled' = FALSE
       ELSE UNCHANGED <<state, cooled>>

Win ==
    /\ streak' = 0
    /\ \/ state' = state
       \/ state = "HALF_OPEN" /\ state' = "CLOSED"
    /\ UNCHANGED cooled

CoolDown ==
    /\ cooled' = TRUE
    /\ UNCHANGED <<state, streak>>

Probe ==
    /\ state = "OPEN" /\ cooled
    /\ state' = "HALF_OPEN"
    /\ UNCHANGED <<streak, cooled>>

Next == Loss \/ Win \/ CoolDown \/ Probe

Spec == Init /\ [][Next]_vars

============================================================================
