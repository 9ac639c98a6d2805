---------------------------- MODULE SignalCheck ----------------------------
(***************************************************************************)
(* What the orchestrator takes from a model's answer: the shapes of        *)
(* src/validators.py, which refuse an answer as a whole, the retries of    *)
(* src/ai.py, the tolerant reading of the triage stage                     *)
(* (src/ai_triage.py) and the fingerprint that tells signals apart         *)
(* (src/fingerprint.py).                                                   *)
(*                                                                         *)
(* An answer is a record of a category and a sequence of actions, an       *)
(* action a record of its type and of the fields the model gave.  Prices   *)
(* are in 0.1 $, fractions in percent.                                     *)
(***************************************************************************)
EXTENDS Integers, Sequences

LOCAL INSTANCE TLC
LOCAL E == INSTANCE Evaluator

Supported == {"XAUUSD"}
Categories == {"none", "ignore", "context", "signal", "partial_signal"}

(* The fields an action must have; those with a default are left out.      *)
Required ==
  LET nothing == {} IN
  [OPEN |-> {"symbol", "side", "entry_low", "entry_high", "tps", "sl"},
   OPEN_INSTANT |-> {"symbol", "side"},
   ATTACH_SIGNAL |-> {"symbol", "side", "entry_low", "entry_high", "tps", "sl"},
   MODIFY |-> {"mt5_ticket"}, CLOSE |-> {"mt5_ticket"}, CLOSE_ALL |-> {"symbol"},
   ALERT |-> nothing, MOVE_SL_BE |-> nothing, MOVE_SL |-> {"price"},
   CLOSE_PARTIAL |-> nothing, CLOSE_FULL |-> nothing, REOPEN_LAST |-> nothing,
   REINFORCE |-> {"side"}, TIGHTEN_SL |-> nothing, MODIFY_TPS |-> {"tps"},
   CANCEL_PENDING |-> {"symbol"}]

Openings == {"OPEN", "OPEN_INSTANT", "ATTACH_SIGNAL"}

(* The far end of the entry zone, from which risk and gain are measured.   *)
EntryRef(a) == IF a.side = "BUY" THEN a.entry_high ELSE a.entry_low
Ahead(a, price) == IF a.side = "BUY" THEN price - EntryRef(a) ELSE EntryRef(a) - price

(* The stop compared with the far end of the zone.                         *)
SlGeometryFar(a) ==
  /\ Ahead(a, a.sl) < 0
  /\ \E i \in DOMAIN a.tps : Ahead(a, a.tps[i]) > 0
  /\ EntryRef(a) > 0 => 50 * (-Ahead(a, a.sl)) <= EntryRef(a)

(* _sl_geometry_sane: the stop is compared with the near end of the zone,  *)
(* its distance, at most 2 %, with the far one.                            *)
SlGeometry(a) ==
  /\ IF a.side = "BUY" THEN a.sl < a.entry_low ELSE a.sl > a.entry_high
  /\ \E i \in DOMAIN a.tps : Ahead(a, a.tps[i]) > 0
  /\ EntryRef(a) > 0 => 50 * (-Ahead(a, a.sl)) <= EntryRef(a)

Between(a, field, lo, hi) == field \in DOMAIN a => lo <= a[field] /\ a[field] <= hi

(* ATTACH_SIGNAL has the fields of an OPEN and none of its geometry.       *)
WellFormed(a) ==
  /\ a.type \in DOMAIN Required
  /\ Required[a.type] \subseteq DOMAIN a
  /\ a.type \in Openings \cup {"CANCEL_PENDING"} => a.symbol \in Supported
  /\ "tps" \in Required[a.type] =>
       /\ a.tps # <<>>
       /\ a.type # "OPEN" => Len(a.tps) <= 3 /\ \A i \in DOMAIN a.tps : a.tps[i] > 0
  /\ a.type = "OPEN" => SlGeometry(a)
  /\ a.type = "ATTACH_SIGNAL" => a.sl > 0
  /\ a.type = "MOVE_SL" => a.price > 0
  /\ a.type = "CLOSE_PARTIAL" => Between(a, "fraction", 1, 99)
  /\ a.type = "TIGHTEN_SL" => Between(a, "by_fraction", 1, 99)
  /\ a.type = "REOPEN_LAST" => Between(a, "within_hours", 1, 168)

Parsable(answer) ==
  /\ answer.category \in Categories
  /\ \A i \in DOMAIN answer.acts : WellFormed(answer.acts[i])

MaxRetries == 3

(* Keeping of an answer the actions that are well formed.                  *)
InterpretedLeniently(answers) ==
  {[answer EXCEPT !.acts = SelectSeq(answer.acts, WellFormed)] : answer \in answers}

(* AIClient.call: the model is asked until an answer can be parsed.  Each  *)
(* attempt may be any of the answers; all of them may fail.                *)
Interpreted(answers) ==
  {tries[Len(tries)] :
     tries \in {s \in UNION {[1 .. n -> answers] : n \in 1 .. MaxRetries} :
                  /\ \A k \in 1 .. Len(s) - 1 : ~Parsable(s[k])
                  /\ Parsable(s[Len(s)]) \/ Len(s) = MaxRetries}}

(* _parse_decision: only a clear "ignore" drops a message.                 *)
Triaged(said) == IF said = "ignore" THEN "ignore" ELSE "keep"

Bucket(sum, n) == E!RoundHalfEven(sum, 50 * n)

(* signal_fingerprint: middle of the zone, stop and targets, each to the   *)
(* nearest multiple of 5 $.                                                *)
SortedTargets(a) == SortSeq([i \in DOMAIN a.tps |-> Bucket(a.tps[i], 1)], <)
Fingerprint(a) ==
  <<a.side, Bucket(a.entry_low + a.entry_high, 2), Bucket(a.sl, 1), SortedTargets(a)>>
=============================================================================
