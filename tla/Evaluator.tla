------------------------------ MODULE Evaluator ------------------------------
(***************************************************************************)
(* How a signal is scored and sized (src/evaluator/, src/trading_style.py, *)
(* src/news_calendar.py): five axes, their composition under a trading     *)
(* style, the news window, and the lot multiplier drawn from the           *)
(* language model's probabilities.                                         *)
(*                                                                         *)
(* The gathered inputs are a record whose DOMAIN is what is available.     *)
(* Scores and probabilities are in thousandths, relative moves in 0.01 %,  *)
(* h1_recent_closes in 0.1 $, weights and geopolitical_index in percent.   *)
(* An event is a record of its impact and the minute it is due.            *)
(***************************************************************************)
EXTENDS Integers, Sequences, FiniteSets

Sides  == {"BUY", "SELL"}
Styles == {"scalp", "intraday", "swing", "position"}

Sign(side) == IF side = "BUY" THEN 1 ELSE -1
Clamp(x, lo, hi) == IF x < lo THEN lo ELSE IF x > hi THEN hi ELSE x
Abs(x) == IF x < 0 THEN -x ELSE x

(* A reading's part of a weight, the whole of it from full on.             *)
Share(x, full, weight) ==
    (IF x < 0 THEN -1 ELSE 1) * ((weight * Clamp(Abs(x), 0, full)) \div full)

-----------------------------------------------------------------------------
(* The news window. *)

(* Ties go to the event that stands first in the file.                     *)
NextEvent(events, now) ==
    LET ahead == {i \in DOMAIN events : events[i].impact # "low" /\ events[i].at > now}
        first == CHOOSE i \in ahead : \A j \in ahead :
                    events[i].at < events[j].at \/ (events[i].at = events[j].at /\ i <= j)
    IN  IF ahead = {} THEN [impact |-> "none", minutes |-> 0]
        ELSE [impact |-> events[first].impact, minutes |-> events[first].at - now]

LastEvent(events, now) ==
    LET past == {i \in DOMAIN events : events[i].impact # "low" /\ events[i].at <= now}
        last == CHOOSE i \in past : \A j \in past :
                    events[i].at > events[j].at \/ (events[i].at = events[j].at /\ i <= j)
    IN  IF past = {} THEN [impact |-> "none", minutes |-> 0]
        ELSE [impact |-> events[last].impact, minutes |-> now - events[last].at]

PreNews(window) == window.next.impact = "high" /\ window.next.minutes < 30
PostNews(window) == window.last.impact = "high" /\ window.last.minutes < 15

-----------------------------------------------------------------------------
Net(closes) == closes[Len(closes)] - closes[1]

(* The axes: how favourable the market is for the side asked for. *)

Trend(side, in) ==
    LET D1 == IF "d1" \in DOMAIN in THEN Share(in.d1.gap, 200, 500) ELSE 0
        H4 == IF "h4" \in DOMAIN in THEN Share(in.h4, 100, 200) ELSE 0
        H1 == IF "h1_recent_closes" \in DOMAIN in
              THEN Share(Net(in.h1_recent_closes), 100, 300) ELSE 0
    IN  Clamp(Sign(side) * (D1 + H4 + H1), -1000, 1000)

(* Yesterday's high and low near the price, and a day that has used up     *)
(* 1.5 times its usual range in the direction asked for.                   *)
Levels(side, in) ==
    LET known == {"market_mid", "d1_prev"} \subseteq DOMAIN in
        High == IF known /\ Abs(in.d1_prev.high - in.market_mid) <= 10
                THEN -400 * Sign(side) ELSE 0
        Low == IF known /\ Abs(in.d1_prev.low - in.market_mid) <= 10
               THEN 400 * Sign(side) ELSE 0
        spent == /\ {"d1", "adr20"} \subseteq DOMAIN in
                 /\ in.adr20 > 0
                 /\ 2 * (in.d1.high - in.d1.low) > 3 * in.adr20
                 /\ Sign(side) = IF in.d1.move > 0 THEN 1 ELSE -1
    IN  Clamp(High + Low - IF spent THEN 300 ELSE 0, -1000, 1000)

Regime(side, in) ==
    LET along == Sign(side) = IF Net(in.h1_recent_closes) > 0 THEN 1 ELSE -1
        Adx == IF "adx_h1" \notin DOMAIN in THEN 0
               ELSE IF in.adx_h1 < 20 THEN -400
               ELSE IF in.adx_h1 <= 25 THEN 0
               ELSE IF "h1_recent_closes" \notin DOMAIN in THEN 100
               ELSE IF along THEN 400 ELSE -400
        Vix == IF "vix" \notin DOMAIN in THEN 0
               ELSE IF in.vix > 30 THEN 300 * Sign(side)
               ELSE IF in.vix < 13 THEN -100 ELSE 0
    IN  Clamp(Adx + Vix, -1000, 1000)

Macro(side, in) ==
    LET Yield == IF "real_yield_10y" \in DOMAIN in
                 THEN Share(-in.real_yield_10y, 50, 500) ELSE 0
        Dxy == IF "dxy" \in DOMAIN in THEN Share(-in.dxy, 50, 300) ELSE 0
        Cot == IF "cot_extremes_percentile" \notin DOMAIN in THEN 0
               ELSE IF in.cot_extremes_percentile > 85 THEN -300
               ELSE IF in.cot_extremes_percentile < 15 THEN 300 ELSE 0
        Geo == IF "geopolitical_index" \in DOMAIN in /\ in.geopolitical_index > 60
               THEN 200 ELSE 0
        Etf == IF "etf_flows_30d_trend" \in DOMAIN in
               THEN 200 * Clamp(in.etf_flows_30d_trend, -1, 1) ELSE 0
    IN  Clamp(Sign(side) * (Yield + Dxy + Cot + Geo + Etf), -1000, 1000)

(* score_catalyst looking back before it looks ahead.                      *)
CatalystWhipsawFirst(in) ==
    IF "news_window" \notin DOMAIN in THEN 0
    ELSE IF PostNews(in.news_window) THEN -500
    ELSE IF PreNews(in.news_window) THEN -1000 ELSE 0

Catalyst(in) ==
    IF "news_window" \notin DOMAIN in THEN 0
    ELSE IF PreNews(in.news_window) THEN -1000
    ELSE IF PostNews(in.news_window) THEN -500 ELSE 0

ScoreAll(side, in) ==
    [trend |-> Trend(side, in), levels |-> Levels(side, in), regime |-> Regime(side, in),
     macro |-> Macro(side, in), catalyst |-> Catalyst(in)]

Wanted == {"d1", "h4", "h1_recent_closes", "d1_prev", "market_mid", "adr20", "adx_h1", "vix",
           "real_yield_10y", "dxy", "cot_extremes_percentile", "geopolitical_index",
           "etf_flows_30d_trend", "news_window"}

Missing(in) == Wanted \ DOMAIN in

-----------------------------------------------------------------------------
(* The regime tag that goes to the language model beside the scores. *)

Direction(x, noise) == IF x > noise THEN 1 ELSE IF x < -noise THEN -1 ELSE 0

MacroTag(in) ==
    LET yield == IF "real_yield_10y" \in DOMAIN in THEN Direction(in.real_yield_10y, 5) ELSE 0
        dxy   == IF "dxy" \in DOMAIN in THEN Direction(in.dxy, 15) ELSE 0
    IN  IF {"real_yield_10y", "dxy"} \cap DOMAIN in = {} THEN "unknown"
        ELSE IF yield = 0 /\ dxy = 0 THEN "neutral"
        ELSE IF yield # 0 /\ dxy = -yield THEN "mixed"
        ELSE IF yield = 1 \/ (yield = 0 /\ dxy = 1) THEN "headwind" ELSE "tailwind"

VolTag(in) ==
    IF "vix" \notin DOMAIN in THEN "unknown"
    ELSE IF in.vix < 13 THEN "compressed"
    ELSE IF in.vix < 20 THEN "normal"
    ELSE IF in.vix < 30 THEN "elevated" ELSE "panic"

TrendTag(in) ==
    LET d1 == IF "d1" \in DOMAIN in THEN Direction(in.d1.gap, 10) ELSE 0
        h1 == IF "h1_recent_closes" \in DOMAIN in
              THEN Direction(Net(in.h1_recent_closes), 50) ELSE 0
    IN  IF {"d1", "h1_recent_closes"} \cap DOMAIN in = {} THEN "unknown"
        ELSE IF d1 = 0 /\ h1 = 0 THEN "flat"
        ELSE IF d1 # 0 /\ h1 = -d1 THEN "mixed"
        ELSE IF d1 = h1 THEN IF d1 = 1 THEN "aligned_up" ELSE "aligned_down"
        ELSE IF d1 + h1 = 1 THEN "weakly_up" ELSE "weakly_down"

CatalystTag(in) ==
    IF "news_window" \notin DOMAIN in THEN "clean"
    ELSE IF PreNews(in.news_window) THEN "pre_news"
    ELSE IF PostNews(in.news_window) THEN "post_news" ELSE "clean"

Classify(in) == [macro |-> MacroTag(in), vol |-> VolTag(in), trend |-> TrendTag(in),
                 catalyst |-> CatalystTag(in)]

-----------------------------------------------------------------------------
(* Composition under a trading style. *)

Weights ==
    [scalp    |-> [trend |-> 15, levels |-> 30, regime |-> 35, macro |-> 5,  catalyst |-> 15],
     intraday |-> [trend |-> 30, levels |-> 25, regime |-> 20, macro |-> 15, catalyst |-> 10],
     swing    |-> [trend |-> 35, levels |-> 15, regime |-> 10, macro |-> 30, catalyst |-> 10],
     position |-> [trend |-> 25, levels |-> 10, regime |-> 5,  macro |-> 50, catalyst |-> 10]]

(* What the message declares, the shortest hold first, if that may         *)
(* override the stack's style.                                             *)
Resolve(default, declared, override) ==
    IF ~override \/ declared = {} THEN default
    ELSE CHOOSE s \in declared :
            LET Rank(t) == CASE t = "scalp" -> 1 [] t = "swing" -> 2
                             [] t = "position" -> 3 [] t = "intraday" -> 4
            IN  \A t \in declared : Rank(s) <= Rank(t)

(* n / d to the nearest integer, a half to the even one.                   *)
RoundHalfEven(n, d) ==
    LET q == n \div d
        r == n % d
    IN  IF 2 * r > d \/ (2 * r = d /\ q % 2 = 1) THEN q + 1 ELSE q

Verdict(score) ==
    IF score >= 80 THEN "strong" ELSE IF score >= 60 THEN "moderate"
    ELSE IF score >= 40 THEN "weak" ELSE "avoid"

Weighted(w, axes) ==
    w.trend * axes.trend + w.levels * axes.levels + w.regime * axes.regime
      + w.macro * axes.macro + w.catalyst * axes.catalyst

Compose(style, axes, missing) ==
    LET vetoed == axes.catalyst <= -900
        raw    == Clamp(RoundHalfEven(Weighted(Weights[style], axes) + 100000, 2000), 0, 100)
        capped == IF vetoed THEN Clamp(raw, 0, 30) ELSE raw
        score  == IF missing # {} THEN Clamp(capped, 0, 70) ELSE capped
    IN  [score |-> score, verdict |-> Verdict(score), vetoed |-> vetoed,
         quality |-> IF missing # {} THEN "reduced" ELSE "full"]

-----------------------------------------------------------------------------
(* Lot sizing.  estimates is the model's answer: a sequence of records of  *)
(* minutes and p; empty without an answer.                                 *)

Bands == <<[lo |-> 450, hi |-> 500,  lots |-> 400],
           [lo |-> 500, hi |-> 550,  lots |-> 700],
           [lo |-> 550, hi |-> 600,  lots |-> 1000],
           [lo |-> 600, hi |-> 650,  lots |-> 1400],
           [lo |-> 650, hi |-> 1010, lots |-> 1800]>>

Shorter(estimates, i) ==
    {j \in DOMAIN estimates :
       \/ estimates[j].minutes < estimates[i].minutes
       \/ estimates[j].minutes = estimates[i].minutes /\ j < i}

(* The median horizon, the shorter one of an even number.                  *)
Median(estimates, i) == Cardinality(Shorter(estimates, i)) = (Len(estimates) - 1) \div 2
Decisional(estimates) == estimates[CHOOSE i \in DOMAIN estimates : Median(estimates, i)]

(* Bands open at their lower end.                                          *)
MultiplierExclusive(p) ==
    IF \E b \in DOMAIN Bands : Bands[b].lo < p /\ p < Bands[b].hi
    THEN Bands[CHOOSE b \in DOMAIN Bands : Bands[b].lo < p /\ p < Bands[b].hi].lots
    ELSE Bands[Len(Bands)].lots

Multiplier(p) ==
    IF \E b \in DOMAIN Bands : Bands[b].lo <= p /\ p < Bands[b].hi
    THEN Bands[CHOOSE b \in DOMAIN Bands : Bands[b].lo <= p /\ p < Bands[b].hi].lots
    ELSE Bands[Len(Bands)].lots

Sizing(vetoed, estimates, threshold) ==
    IF vetoed THEN [skip |-> TRUE, lots |-> 0]
    ELSE IF estimates = <<>> THEN [skip |-> FALSE, lots |-> 1000]
    ELSE IF Decisional(estimates).p < threshold THEN [skip |-> TRUE, lots |-> 0]
    ELSE [skip |-> FALSE, lots |-> Multiplier(Decisional(estimates).p)]

-----------------------------------------------------------------------------
(* evaluate_signal_v2.  stack is the style it trades in and whether a      *)
(* message, which declares a set of styles, may override it.               *)
Evaluate(side, stack, declared, in, estimates, threshold) ==
    LET style    == Resolve(stack.style, declared, stack.override)
        composed == Compose(style, ScoreAll(side, in), Missing(in))
    IN  [style   |-> style,
         score   |-> composed.score,
         verdict |-> composed.verdict,
         vetoed  |-> composed.vetoed,
         quality |-> composed.quality,
         regime  |-> Classify(in),
         sizing  |-> Sizing(composed.vetoed, estimates, threshold)]
=============================================================================
