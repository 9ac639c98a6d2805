-------------------------- MODULE LegacyEvaluator --------------------------
(***************************************************************************)
(* The earlier evaluator (src/ai_evaluator.py), in use where the setting   *)
(* evaluator_version is not "v2": what it derives from a snapshot for the  *)
(* language model, what it counts as missing, and what it makes of the     *)
(* reply.  Inputs are those of Evaluator.                                  *)
(***************************************************************************)
EXTENDS Evaluator, FiniteSetsExt

(* _compute_h1_momentum: the share of the gains in all hourly moves.       *)
Moves(closes) == [i \in 1 .. Len(closes) - 1 |-> closes[i + 1] - closes[i]]
Total(moves, side) == MapThenSumSet(LAMBDA i : Clamp(Sign(side) * moves[i], 0, 100000), DOMAIN moves)

Momentum(closes) ==
  LET gains == Total(Moves(closes), "BUY")
      all   == gains + Total(Moves(closes), "SELL")
  IN  IF all = 0 THEN "neutral"
      ELSE IF 10 * gains >= 7 * all THEN "overbought"
      ELSE IF 20 * gains >= 11 * all THEN "bullish"
      ELSE IF 10 * gains <= 3 * all THEN "oversold"
      ELSE IF 20 * gains <= 9 * all THEN "bearish" ELSE "neutral"

(* _compute_trend_labels, up as 1, down as -1.                             *)
D1Trend(in) == Direction(in.d1.gap, 10)
H4Trend(in) == Direction(in.h4, 0)

H1Trend(closes) ==
  LET moves == Moves(closes)
      ups   == Cardinality({i \in DOMAIN moves : moves[i] > 0})
  IN  IF Net(closes) > 0 /\ 2 * ups > Len(moves) THEN 1
      ELSE IF Net(closes) < 0 /\ 2 * ups < Len(moves) THEN -1 ELSE 0

(* Down days not told from up days.                                        *)
AlignmentUnsigned(in) ==
  IF ~{"d1", "h1_recent_closes"} \subseteq DOMAIN in THEN "none"
  ELSE IF Abs(D1Trend(in)) = 1 /\ Abs(H1Trend(in.h1_recent_closes)) = 1
  THEN "ALIGNED_UP" ELSE "MIXED"

Alignment(in) ==
  LET d1 == D1Trend(in)
      h1 == H1Trend(in.h1_recent_closes)
  IN  IF ~{"d1", "h1_recent_closes"} \subseteq DOMAIN in THEN "none"
      ELSE IF d1 = 1 /\ h1 = 1 THEN "ALIGNED_UP"
      ELSE IF d1 = -1 /\ h1 = -1 THEN "ALIGNED_DOWN" ELSE "MIXED"

(* _compute_key_levels; 0 stands for none.                                 *)
KeyLevels(in) ==
  (IF "d1" \in DOMAIN in THEN {in.d1.open, in.d1.high, in.d1.low} ELSE {})
    \cup (IF "d1_prev" \in DOMAIN in THEN {in.d1_prev.high, in.d1_prev.low} ELSE {})

NearestResistance(in) ==
  LET above == {l \in KeyLevels(in) : l > in.market_mid} IN IF above = {} THEN 0 ELSE Min(above)
NearestSupport(in) ==
  LET below == {l \in KeyLevels(in) : l < in.market_mid} IN IF below = {} THEN 0 ELSE Max(below)

-----------------------------------------------------------------------------
(* fresh: of "snapshot" and "macro", those on record for less than two and *)
(* five minutes.  A stale snapshot is still read for trends and levels.    *)
SnapshotPresent(in) == "h4" \in DOMAIN in
MacroPresent(in) == {"dxy", "vix", "real_yield_10y"} \cap DOMAIN in # {}

(* build_evaluator_input, without a look at the ages.                      *)
MissingV1Ageless(in, fresh) ==
  (IF "market_mid" \in DOMAIN in THEN {} ELSE {"market_price"})
    \cup (IF ~SnapshotPresent(in) THEN {"ohlc_snapshot"}
          ELSE {"d1", "adr20", "adx_h1"} \ DOMAIN in)
    \cup (IF ~MacroPresent(in) THEN {"macro_snapshot"} ELSE {})

(* build_evaluator_input: what is missing.                                 *)
MissingV1(in, fresh) ==
  (IF "market_mid" \in DOMAIN in THEN {} ELSE {"market_price"})
    \cup (IF ~SnapshotPresent(in) THEN {"ohlc_snapshot"}
          ELSE IF "snapshot" \notin fresh THEN {"ohlc_snapshot_stale"}
          ELSE {"d1", "adr20", "adx_h1"} \ DOMAIN in)
    \cup (IF ~MacroPresent(in) THEN {"macro_snapshot"}
          ELSE IF "macro" \notin fresh THEN {"macro_snapshot_stale"} ELSE {})

Unavailable == [score |-> 0, verdict |-> "unavailable", quality |-> "reduced"]

(* The reply as parsed, a verdict left out being supplied; "none" is a     *)
(* call that failed or text without an object in it.                       *)
ParsedReply(reply) ==
  IF reply.verdict = "none" THEN [reply EXCEPT !.verdict = Verdict(reply.score)] ELSE reply

(* evaluate_signal: what is missing caps the score, not a verdict already  *)
(* given to a lower one.                                                   *)
EvaluateV1(reply, missing) ==
  LET said == ParsedReply(reply) IN
  IF reply.score < 0 THEN Unavailable
  ELSE IF missing = {} THEN [score |-> said.score, verdict |-> said.verdict, quality |-> "full"]
  ELSE IF said.score > 70
  THEN [score |-> 70, verdict |-> Verdict(70), quality |-> "reduced"]
  ELSE [score |-> said.score, verdict |-> said.verdict, quality |-> "reduced"]
=============================================================================
