--------------------------- MODULE PerformanceScore ---------------------------
(***************************************************************************)
(* calculate_score: how long an entry is fuzzed with havoc, in percent.     *)
(* The comparisons with 0.1, 0.25, ... of a value are written with integers, *)
(* and a product with a fraction is cut off, as by its assignment to u32.   *)
(***************************************************************************)
EXTENDS Integers

CONSTANT HavocMaxMult       \* HAVOC_MAX_MULT

ASSUME HavocMaxMultTyped == HavocMaxMult \in Nat \ {0}

(* Slow entries get less time: q takes execUs, the average entry avg. *)
ExecScore(execUs, avg) ==
    IF execUs > 10 * avg THEN 10
    ELSE IF execUs > 4 * avg THEN 25
    ELSE IF execUs > 2 * avg THEN 50
    ELSE IF 3 * execUs > 4 * avg THEN 75
    ELSE IF 4 * execUs < avg THEN 300
    ELSE IF 3 * execUs < avg THEN 200
    ELSE IF 2 * execUs < avg THEN 150
    ELSE 100

(* entries that hit more of the map get more *)
SizeScore(score, size, avg) ==
    IF 3 * size > 10 * avg THEN score * 3
    ELSE IF size > 2 * avg THEN score * 2
    ELSE IF 3 * size > 4 * avg THEN (score * 3) \div 2
    ELSE IF size * 3 < avg THEN score \div 4
    ELSE IF size * 2 < avg THEN score \div 2
    ELSE IF size * 3 < 2 * avg THEN (score * 3) \div 4
    ELSE score

(* latecomers catch up, and use up their handicap *)
HandicapScore(score, handicap) ==
    IF handicap >= 4 THEN score * 4 ELSE IF handicap > 0 THEN score * 2 ELSE score
HandicapLeft(handicap) ==
    IF handicap >= 4 THEN handicap - 4 ELSE IF handicap > 0 THEN handicap - 1 ELSE 0

DepthFactor(depth) ==
    IF depth <= 3 THEN 1 ELSE IF depth <= 7 THEN 2 ELSE IF depth <= 13 THEN 3
    ELSE IF depth <= 25 THEN 4 ELSE 5

Capped(score) == IF score > HavocMaxMult * 100 THEN HavocMaxMult * 100 ELSE score

CalculateScore(q, avgExecUs, avgBitmapSize) ==
    Capped(DepthFactor(q.depth)
           * HandicapScore(SizeScore(ExecScore(q.execUs, avgExecUs), q.bitmapSize, avgBitmapSize), q.handicap))

=============================================================================
