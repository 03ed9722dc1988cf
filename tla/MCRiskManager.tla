--------------------------- MODULE MCRiskManager ---------------------------
(***************************************************************************)
(* RiskManager for TLC, and the order filters on small books and curves.   *)
(***************************************************************************)
EXTENDS RiskManager, OrderFilters

MCPnLs == {-1, 0, 2}
MCFloating == {-1, 1}

----------------------------------------------------------------------------
(* What is checked of the order filters, once, before the run.             *)
MCCurves == UNION {[1..k -> 9..11] : k \in 0..6}
Still(curve, equity) == Extended(Extended(Extended(curve, equity, 3), equity, 3), equity, 3)

(* A pause of the equity curve ends once the equity has not moved for as   *)
(* many cycles as the average is over.                                     *)
ASSUME StillCurveResumes ==
    /\ \A curve \in MCCurves, equity \in 9..11 :
           OnCurve(Still(curve, equity), 3) /\ Len(Still(curve, equity)) <= 6
    /\ \E curve \in MCCurves : ~OnCurve(curve, 3)

(* The symbols of the books that grow order by order under a filter.       *)
Books(Passes(_, _)) ==
    LET grown[n \in 0..6] ==
            IF n = 0 THEN {{}}
            ELSE {c[1] \cup {c[2]} :
                      c \in {d \in grown[n - 1] \X Watched :
                                 d[2] \notin d[1] /\ Passes(d[2], d[1])}}
    IN  UNION {grown[n] : n \in 0..6}
Neighbours(s, book) == {t \in book : t \in Correlated[s] \/ s \in Correlated[t]}
Crowded(book) == \E s \in book : Cardinality(Neighbours(s, book)) > 2
BothFilters(s, book) == FewOfItsOwn(s, book) /\ FewNameIt(s, book)

(* The two correlation filters count differently, for NZDUSD's sake.  Only *)
(* together they keep every symbol from having more than two correlated    *)
(* ones beside it.                                                         *)
ASSUME BothFiltersAreNeeded ==
    /\ \A book \in Books(BothFilters) : ~Crowded(book)
    /\ \E book \in Books(FewOfItsOwn) : Crowded(book)

(* The sixth smallest position needs a balance of more than 10000.         *)
SmallBook(symbols) == [s \in symbols |-> [size |-> 1, entry |-> 110000, sl |-> 0]]
ASSUME SixNeedTenThousand ==
    \A open \in SUBSET Watched, funds \in {1, 2000, 2001, 10000, 10001} :
        Cardinality(open) <= 5 =>
            (HasExposure(SmallBook(open), funds)
                <=> Cardinality(open) < (funds + 1999) \div 2000)

(* The same stop in pips is a hundred times as hot in yen.                 *)
Stopped(s, pips, size) ==
    [t \in {s} |-> [size |-> size, entry |-> 20000000,
                    sl |-> 20000000 - (10 * pips * Point(s))]]
ASSUME YenIsHot ==
    \A pips \in 1..40, size \in 1..3, funds \in 1..20 :
        Cool(Stopped("EURJPY", pips, size), 100 * funds)
            <=> Cool(Stopped("EURUSD", pips, size), funds)

(* A spread of two hundred pips is accepted, but for yen not one of sixteen*)
(* pips, and no spread of a symbol without data.                           *)
ASSUME SpreadsAccepted ==
    \A s \in Watched, pips \in 0..200 :
        /\ SpreadAccepted(s, [kind |-> "points", n |-> 10 * pips])
               <=> (s \in Yen => pips <= 15)
        /\ ~SpreadAccepted(s, [kind |-> "none"])

(* Targets are at least twice as far as stops, on the right side of them.  *)
ASSUME RewardsTwiceTheRisk ==
    \A s \in Watched \cup {"XAUUSD"}, atr \in {10, 100, 250} :
        LET buy == StopAndTarget(s, "BUY", 100000, atr)
            sell == StopAndTarget(s, "SELL", 100000, atr)
        IN  /\ buy.tp - 100000 >= 2 * (100000 - buy.sl) /\ buy.sl < 100000
            /\ 100000 - sell.tp >= 2 * (sell.sl - 100000) /\ sell.sl > 100000

(* The more volatile symbol never weighs more, the weights never exceed    *)
(* the whole, and one chart is not enough to change them.                  *)
MCMeasured == [{"EURUSD", "GBPUSD", "USDJPY"} -> {0, 40, 60, 100, 200}]
ASSUME WeightsAreShares ==
    \A measured \in MCMeasured :
        LET weights == Rebalanced(<< >>, measured, TRUE)
        IN  /\ MapThenSumSet(LAMBDA s : weights[s], DOMAIN weights) \in 990..1000
            /\ \A s, t \in DOMAIN weights :
                   measured[s] <= measured[t] => weights[s] >= weights[t]
            /\ Rebalanced(weights, [s \in {"EURUSD"} |-> measured[s]], TRUE) = weights

(* Risk parity makes any order smaller, in yen as if it wanted none at all,*)
(* but never nothing of it.                                                *)
ASSUME ParityOnlyShrinks ==
    \A own \in 1..50, weight \in {50, 100, 500, 1000},
       equity \in {100, 1000, 10000, 100000} :
        LET dollars == ParityLots(weight, equity, 1100)
            yen == ParityLots(weight, equity, 150000)
        IN  /\ yen = 0 /\ Blend(own, yen) \in 1..own
            /\ equity <= 10000 => Blend(own, dollars) \in 1..own

============================================================================
