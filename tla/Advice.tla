------------------------------- MODULE Advice -------------------------------
(***************************************************************************)
(* The advice of the API server (api/routes/consensus.py): the vote of     *)
(* apps/consensus/engine.py, its eight gates and the debate.  It is shown  *)
(* and trades nothing; two of its gates are asked by the engine as well,   *)
(* see GatesPass of Learning.                                              *)
(*                                                                         *)
(* Probabilities, confidences and prices are in thousandths.               *)
(***************************************************************************)
EXTENDS Consensus, Sequences

(* What becomes of an analyst within the 25 seconds: a vote, a vote        *)
(* without data, an exception, or nothing, as gather is cancelled.         *)
Vote(signal, confidence) ==
    [kind |-> "vote", signal |-> signal, confidence |-> confidence]
Silences == {[kind |-> k] : k \in {"stub", "raised", "late"}}

Valid(answers) == SelectSeq(answers, LAMBDA a : a.kind = "vote")

Mean(confidences) == Total(confidences) \div Len(confidences)
Confidences(votes) == [i \in DOMAIN votes |-> votes[i].confidence]

(* VoteCounter.  Without a strict winner the vote is to hold, if nobody    *)
(* said so with an agreement of nothing.                                   *)
CountVotes(votes) ==
    LET Of(signal) == SelectSeq(votes, LAMBDA v : v.signal = signal)
        Leads(a) == \A s \in {"BUY", "SELL", "HOLD"} \ {a} : Len(Of(a)) > Len(Of(s))
        action == IF \E a \in Actions : Leads(a) THEN CHOOSE a \in Actions : Leads(a)
                  ELSE "HOLD"
    IN  [action |-> action, agreed |-> Len(Of(action)), total |-> Len(votes),
         confidence |-> IF votes = << >> THEN 0
                        ELSE IF Of(action) = << >> THEN 500
                        ELSE Mean(Confidences(Of(action)))]

Agrees(result) == result.total > 0 /\ 10 * result.agreed >= 7 * result.total

(* DebateEngine.  A side without a language model is sure to 0.6.          *)
Argues(said) == IF said.kind = "none" THEN 600 ELSE said.confidence

Debate(bull, bear) ==
    LET b == Argues(bull)
        s == Argues(bear)
    IN  [winner |-> IF b > s + 100 THEN "BULL" ELSE IF s > b + 100 THEN "BEAR" ELSE "NEUTRAL",
         bull |-> b, bear |-> s]

Aligned(action, debate) ==
    \/ action = "BUY" /\ debate.winner = "BULL"
    \/ action = "SELL" /\ debate.winner = "BEAR"

(* ConsensusEngine.evaluate.  An exception in the debate leaves the vote   *)
(* as it is.                                                               *)
Counted(answers) ==
    LET votes == CountVotes(Valid(answers))
    IN  IF Agrees(votes) THEN votes ELSE [votes EXCEPT !.action = "HOLD"]

Blended(result, debate) ==
    LET sure == IF debate.winner = "BULL" THEN debate.bull ELSE debate.bear
        mixed == (6 * result.confidence + 4 * sure) \div 10
    IN  [result EXCEPT !.confidence = IF mixed > 1000 THEN 1000 ELSE mixed]

Evaluate(answers, bull, bear) ==
    LET result == Counted(answers)
        debate == Debate(bull, bear)
    IN  IF "raised" \in {bull.kind, bear.kind} THEN result
        ELSE IF Aligned(result.action, debate) THEN Blended(result, debate)
        ELSE result

(* get_consensus: what was said of the same question in the last twenty    *)
(* seconds, or a vote, or what is said when there can be none.             *)
Fallback == [action |-> "HOLD", agreed |-> 0, total |-> 0, confidence |-> 0]
Advises(cached, evaluation) ==
    IF cached.kind = "fresh" THEN cached.result
    ELSE IF evaluation.kind = "raised" THEN Fallback ELSE evaluation.result

----------------------------------------------------------------------------
(* ConsensusGates.                                                         *)

(* A prediction is a probability of a rising price; an untrained model     *)
(* says a half, and one that was trained on other features raises.         *)
MLGate(prediction, threshold, direction) ==
    CASE prediction.kind = "none" -> TRUE
      [] prediction.kind = "raised" -> FALSE
      [] prediction.kind = "up" /\ direction = "SELL" ->
             prediction.up <= 1000 - threshold
      [] prediction.kind = "up" /\ direction # "SELL" ->
             prediction.up >= threshold

(* check_sentiment and check_technical: the analysts whose names contain   *)
(* one of the words.                                                       *)
ConfidenceGate(results, words) ==
    LET named == SelectSeq(results, LAMBDA r : r.name \in words)
    IN  \/ named = << >>
        \/ Total(Confidences(named)) >= 700 * Len(named)

EdgeGate(up, price) == up - price > 10

Regime(r) ==
    IF r.spread > 100 /\ r.imbalance > 700 THEN "adverse_selection"
    ELSE IF r.atr > 850 /\ r.failed THEN "trap"
    ELSE IF r.adx < 20 THEN "chop"
    ELSE IF r.adx >= 25 THEN "trending" ELSE "normal"
Blocking == {"adverse_selection", "trap", "chop"}
RegimeGate(r) == Regime(r) \notin Blocking

LiquidityGate(positions, most) == positions < most

AnalysisGate(said, direction) ==
    \/ said.kind = "none"
    \/ said.signal = direction /\ said.confidence >= 400

(* evaluate_all asks gate 1 without a direction, which makes it BUY.       *)
AllGates(asked) ==
    /\ MLGate(asked.prediction, 500, "BUY")
    /\ Agrees(asked.result)
    /\ ConfidenceGate(asked.analysts, {"sentiment"})
    /\ ConfidenceGate(asked.analysts, {"technical", "market"})
    /\ EdgeGate(asked.up, asked.price)
    /\ RegimeGate(asked.regime)
    /\ LiquidityGate(asked.positions, asked.most)
    /\ AnalysisGate(asked.llm, "BUY")

(* get_full_consensus: the gates are given the prediction and the vote,    *)
(* and for everything else nothing or what they assume without it.         *)
Nobody == [kind |-> "none"]
Normal == [adx |-> 25, atr |-> 500, failed |-> FALSE, spread |-> 50, imbalance |-> 500]
Up(prediction) == IF prediction.kind = "up" THEN prediction.up ELSE 500

TradeAllowed(result, prediction) ==
    AllGates([prediction |-> prediction, result |-> result, analysts |-> << >>,
              up |-> Up(prediction), price |-> 500, regime |-> Normal,
              positions |-> 0, most |-> 10, llm |-> Nobody])
=============================================================================
