----------------------------- MODULE Scoreboard -----------------------------
(***************************************************************************)
(* The scoreboard of a post (signals/scoreboard.py): its ranking signals,  *)
(* each compared with the median of the account's other posts.  There are  *)
(* signals that are a metric as it was polled and signals that are one     *)
(* metric divided by another; one of each stands for all.  Any metric of   *)
(* any post may be missing.  Fractions are kept exact: a signal's value is *)
(* Scale times what it is, and Scale a multiple of every denominator.      *)
(***************************************************************************)
EXTENDS Integers, Sequences, FiniteSets

CONSTANTS
  Counts,      \* values of a numerator
  Divisors,    \* values of a denominator
  Scale,       \* a common multiple of them
  MinBaseline, \* MIN_BASELINE_N
  MaxOthers    \* bound: posts to compare with

ASSUME MetricsAssumption ==
  /\ Counts \subseteq Nat /\ Divisors \subseteq Nat
  /\ Scale \in Nat \ {0} /\ \A d \in Divisors \ {0} : Scale % d = 0
  /\ MinBaseline \in Nat \ {0} /\ MaxOthers \in Nat

VARIABLES
  target,  \* the metrics of the post
  others,  \* those of the posts it is compared with
  board    \* the rows of its scoreboard, <<>> before there is one

scoreVars == <<target, others, board>>

None == -1
Metrics == [num : Counts \cup {None}, den : Divisors \cup {None}]
Tags    == {"above", "below", "at", "no_verdict"}
Signals == <<"ratio", "raw">>

ScoreboardInit ==
  /\ target = [num |-> None, den |-> None]
  /\ others = <<>>
  /\ board = <<>>

-----------------------------------------------------------------------------
(* Mutant: what is missing, or divided by zero, counts as zero.            *)
SignalValueZero(signal, metrics) ==
  IF signal = "raw"
  THEN IF metrics.num = None THEN None ELSE Scale * metrics.num
  ELSE IF None \in {metrics.num, metrics.den} \/ metrics.den = 0
       THEN 0
       ELSE metrics.num * (Scale \div metrics.den)

(* A signal has no value if a metric is missing or the denominator zero.   *)
SignalValue(signal, metrics) ==
  IF signal = "raw"
  THEN IF metrics.num = None THEN None ELSE Scale * metrics.num
  ELSE IF None \in {metrics.num, metrics.den} \/ metrics.den = 0
       THEN None
       ELSE metrics.num * (Scale \div metrics.den)

(* The values the others have of a signal, by post.                       *)
Samples(signal) ==
  LET having == {k \in DOMAIN others : SignalValue(signal, others[k]) # None}
  IN  [k \in having |-> SignalValue(signal, others[k])]

(* The n-th of the samples, were they sorted.                              *)
Nth(samples, n) ==
  CHOOSE value \in {samples[k] : k \in DOMAIN samples} :
    /\ Cardinality({k \in DOMAIN samples : samples[k] < value}) < n
    /\ n <= Cardinality({k \in DOMAIN samples : samples[k] <= value})

(* Twice the median: the middle of the sorted samples, or the two there.   *)
TwiceMedian(samples) ==
  LET n == Cardinality(DOMAIN samples)
  IN  Nth(samples, (n + 1) \div 2) + Nth(samples, n \div 2 + 1)

(* There is a baseline if there are posts enough, and samples enough among *)
(* them.                                                                   *)
Baseline(signal) ==
  IF /\ Len(others) >= MinBaseline
     /\ Cardinality(DOMAIN Samples(signal)) >= MinBaseline
  THEN TwiceMedian(Samples(signal)) ELSE None

Tag(value, baseline) ==
  IF None \in {value, baseline} THEN "no_verdict"
  ELSE IF 2 * value = baseline THEN "at"
  ELSE IF 2 * value > baseline THEN "above" ELSE "below"

(* compute_scoreboard, for a post whose metrics have been polled like      *)
(* those of the others; every signal there is is better the higher it is.  *)
Poll(metrics) ==
  /\ board = <<>>
  /\ Len(others) < MaxOthers
  /\ others' = Append(others, metrics)
  /\ UNCHANGED <<target, board>>

Compute(metrics) ==
  /\ board = <<>>
  /\ target' = metrics
  /\ board' = [i \in DOMAIN Signals |->
                LET value    == SignalValue(Signals[i], metrics)
                    baseline == Baseline(Signals[i])
                IN  [value |-> value, baseline |-> baseline,
                     tag |-> Tag(value, baseline)]]
  /\ UNCHANGED others

ScoreboardNext == \E metrics \in Metrics : Poll(metrics) \/ Compute(metrics)

ScoreboardSpec == ScoreboardInit /\ [][ScoreboardNext]_scoreVars

-----------------------------------------------------------------------------
(* Properties                                                              *)

ScoreboardTypeOK ==
  /\ target \in Metrics
  /\ others \in Seq(Metrics)
  /\ board \in Seq([value : Nat \cup {None}, baseline : Nat \cup {None}, tag : Tags])

(* A verdict is earned (FR-A1, FR-A3, NFR-3): it is given if and only if   *)
(* the post has the signal and MinBaseline others have it too, and then    *)
(* it says on which side of at least half of those the post is.  A metric  *)
(* that is missing, or a denominator of zero, counts for nothing.          *)
Measured(i, m) ==
  m.num # None /\ (Signals[i] = "ratio" => m.den \notin {None, 0})
Less(i, m, n) ==
  IF Signals[i] = "raw" THEN m.num < n.num ELSE m.num * n.den < n.num * m.den
VerdictEarned ==
  \A i \in DOMAIN board :
    LET samples == {k \in DOMAIN others : Measured(i, others[k])}
        under   == Cardinality({k \in samples : Less(i, others[k], target)})
        over    == Cardinality({k \in samples : Less(i, target, others[k])})
        n       == Cardinality(samples)
        tag     == board[i].tag
    IN
    /\ tag # "no_verdict" <=> Measured(i, target) /\ n >= MinBaseline
    /\ tag = "above" => 2 * under >= n
    /\ tag = "below" => 2 * over >= n
    /\ tag = "at" => 2 * under <= n /\ 2 * over <= n
=============================================================================
