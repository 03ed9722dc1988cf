----------------------------- MODULE Consensus -----------------------------
(***************************************************************************)
(* From a look at the market to a direction and a confidence, as           *)
(* _analyze_symbol of unified_engine.py does it: generate_signal adds up   *)
(* indicators, mtf_analysis asks for the same direction on other           *)
(* timeframes, twelve analysts and five legendary agents vote, and the     *)
(* votes move the confidence or block the signal.                          *)
(*                                                                         *)
(* Confidence is in thousandths.  Indicators and voters only appear by     *)
(* what they contribute: points of a score, and counts of votes.  A voter  *)
(* that raises an exception is in no count.                                *)
(***************************************************************************)
EXTENDS Integers, FiniteSets, Folds

CONSTANTS
    Timeframes,     \* mtf_timeframes
    Weight          \* mtf_weights, in hundredths

ASSUME WeightAssumption ==
    IsFiniteSet(Timeframes) /\ Weight \in [Timeframes -> Nat \ {0}]

Actions == {"BUY", "SELL"}
MinScore == 2           \* min_score
MinConfidence == 250    \* min_confidence
MtfMinAgree == 2        \* mtf_min_agree

Magnitude(n) == IF n < 0 THEN -n ELSE n
Sign(n) == IF n > 0 THEN 1 ELSE IF n < 0 THEN -1 ELSE 0
Between(low, n, high) == IF n < low THEN low ELSE IF n > high THEN high ELSE n

----------------------------------------------------------------------------
(* Layers 2 and 3.                                                         *)

(* A loud volume confirms whatever the indicators before it have said; the *)
(* ones after it may still outvote them.                                   *)
Score(look) ==
    look.early + (IF look.loud THEN Sign(look.early) ELSE 0) + look.late

Direction(score) ==
    CASE score >= MinScore -> "BUY"
      [] score <= -MinScore -> "SELL"
      [] OTHER -> "HOLD"

Confidence(score) ==
    IF Direction(score) = "HOLD" THEN 0 ELSE Between(0, Magnitude(score) * 100, 1000)

Total(f) == MapThenFoldSet(+, 0, LAMBDA x : f[x], LAMBDA S : CHOOSE x \in S : TRUE,
                           DOMAIN f)

(* mtf_analysis of the scores of those timeframes that have candles.       *)
MtfDirection(scores) ==
    LET lean == Total([t \in DOMAIN scores |->
                          Sign(scores[t]) * Weight[t] * Confidence(scores[t])])
        weight == Total([t \in DOMAIN scores |-> Weight[t]])
        Votes(a) == Cardinality({t \in DOMAIN scores : Direction(scores[t]) = a})
    IN  CASE lean > 200 * weight /\ Votes("BUY") >= MtfMinAgree -> "BUY"
          [] lean < -200 * weight /\ Votes("SELL") >= MtfMinAgree -> "SELL"
          [] OTHER -> "HOLD"

----------------------------------------------------------------------------
(* Layer 5: polls.                                                         *)

Other(a) == IF a = "BUY" THEN "SELL" ELSE "BUY"
Voters(poll) == poll["BUY"] + poll["SELL"] + poll["HOLD"]
Directional(poll) == poll["BUY"] + poll["SELL"]

MinDirectional(poll) ==
    IF Voters(poll) \div 4 > 3 THEN Voters(poll) \div 4 ELSE 3

AnalystsFor(poll, a) ==
    poll[a] > poll[Other(a)] /\ poll[a] >= MinDirectional(poll)

(* The boost counts everybody who has a view, for the trade or against it. *)
AnalystModifier(poll) ==
    IF ~\E a \in Actions : AnalystsFor(poll, a) THEN 0
    ELSE IF Directional(poll) * 10 >= Voters(poll) * 7 THEN 200
    ELSE IF Directional(poll) * 2 >= Voters(poll) THEN 100
    ELSE IF Directional(poll) * 10 < Voters(poll) * 3 THEN -150
    ELSE 0

LegendsFor(poll, a) ==
    /\ poll[a] > poll[Other(a)] /\ poll[a] > poll["HOLD"]
    /\ poll[a] * 2 >= Voters(poll)

LegendModifier(poll) ==
    LET Share(k) == \E a \in Actions :
            LegendsFor(poll, a) /\ poll[a] * 5 >= Voters(poll) * k
    IN  IF Share(4) THEN 150 ELSE IF Share(3) THEN 75 ELSE 0

(* Analysts of the other direction whose confidence is above 0.6.          *)
Opposed(look, a) == AnalystsFor(look.analysts, Other(a))

Blocks(look, a) == Opposed(look, a) /\ look.strong >= 4

Adjusted(look, a) ==
    LET moved == Between(0, Confidence(Score(look)) + AnalystModifier(look.analysts)
                               + LegendModifier(look.legends), 1000)
        warned == IF Opposed(look, a) /\ look.strong = 3 THEN (moved * 7) \div 10
                  ELSE moved
    IN  IF LegendsFor(look.legends, Other(a)) /\ look.legends[Other(a)] >= 4
        THEN (warned * 3) \div 4 ELSE warned

(* What is left of a look: a direction for which there is a signal.        *)
SignalsFor(look, a) ==
    /\ Direction(Score(look)) = a
    /\ Confidence(Score(look)) >= MinConfidence
    /\ MtfDirection(look.scores) = a
    /\ ~Blocks(look, a)
    /\ Adjusted(look, a) >= MinConfidence
============================================================================
