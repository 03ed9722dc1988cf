-------------------------- MODULE MCTradingEngine --------------------------
(***************************************************************************)
(* TradingEngine for TLC: three tickets for three symbols, with a          *)
(* portfolio limit of two.  Neither tickets nor symbols are told apart.    *)
(***************************************************************************)
EXTENDS TradingEngine, TLC

MCLosses == {-1}

(* Two rare events in behaviours that leave a ticket, and one in those     *)
(* that use all; then there is no midnight.                                *)
RareEvents ==
    IF \E t \in Tickets : broker[t] = NoPosition
    THEN outsiders + faults + restarts + days <= 2
    ELSE outsiders + faults + restarts + 2 * days <= 1

Symmetry == Permutations(Tickets) \cup Permutations(Symbols)
============================================================================
