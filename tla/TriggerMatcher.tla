--------------------------- MODULE TriggerMatcher ---------------------------
(***************************************************************************)
(* The operator's triggers and what they make of a message                 *)
(* (src/trigger_matcher.py): a deterministic layer, curated noise, an      *)
(* embedding layer, replies, and the dry run of the Triggers editor.       *)
(*                                                                         *)
(* A text is the sequence of its normalised pieces; a piece that was a     *)
(* number has become Digits.  A trigger is a record of the profile file,   *)
(* a rule one action type of a trigger.                                    *)
(***************************************************************************)
EXTENDS Integers, Sequences, FiniteSets

LOCAL INSTANCE SequencesExt

Digits == "n"

OnPosition == {"CLOSE_FULL", "MOVE_SL_BE", "CLOSE_PARTIAL", "TIGHTEN_SL", "REINFORCE"}
ReplyIntents == {"TRIGGER_PARENT", "IGNORE_PARENT"}
Allowed == OnPosition \cup {"REOPEN_LAST", "CANCEL_PENDING"} \cup ReplyIntents

Within(part, text) ==
    \E i \in 0 .. Len(text) - Len(part) : SubSeq(text, i + 1, i + Len(part)) = part

(* One rule per action type of every enabled trigger that has a phrase.    *)
(* Only the first sample is ever matched; the phrase is a label.           *)
RulesOf(triggers) ==
    FlattenSeq([i \in DOMAIN triggers |->
        LET t == triggers[i]
        IN  IF t.enabled /\ t.phrase # <<>>
            THEN [k \in DOMAIN t.types |->
                    [type |-> t.types[k], phrase |-> t.phrase,
                     sample |-> t.sample, context |-> t.context]]
            ELSE <<>>])

Emittable(rule) == rule.type \in Allowed /\ rule.sample # <<>>

Active(rule) == IF rule.sample # <<>> THEN rule.sample ELSE rule.phrase

Speaks(rule, text) ==
    /\ Active(rule) # <<>>
    /\ Within(Active(rule), text)
    /\ \A token \in rule.context : Within(token, text)

PreconditionOk(type, ctx) ==
    /\ type \notin ReplyIntents
    /\ type \in OnPosition => ctx.open
    /\ type = "REOPEN_LAST" => ~ctx.open /\ ctx.closedRecently
    /\ type = "CANCEL_PENDING" => ctx.watching

(* The deterministic layer: the matching rules, one per action type (the   *)
(* longest text wins), in the order in which the types first match.        *)
Layer1(text, rules, ctx) ==
    LET hits  == SelectSeq(rules, LAMBDA r : /\ Emittable(r)
                                             /\ Speaks(r, text)
                                             /\ PreconditionOk(r.type, ctx))
        First(k) == \A j \in 1 .. k - 1 : hits[j].type # hits[k].type
        heads == SelectSeq([k \in DOMAIN hits |-> k], First)
        BestOf(type) ==
            LET same == {k \in DOMAIN hits : hits[k].type = type}
            IN  CHOOSE k \in same : \A j \in same :
                    \/ Len(Active(hits[k])) > Len(Active(hits[j]))
                    \/ Len(Active(hits[k])) = Len(Active(hits[j])) /\ k <= j
    IN  [i \in DOMAIN heads |-> hits[BestOf(hits[heads[i]].type)]]

(* An action that needs the symbol or the side of the open position is     *)
(* skipped when that is not known.                                         *)
Buildable(type, ctx, symbol) ==
    /\ type \notin ReplyIntents
    /\ type = "CANCEL_PENDING" => symbol
    /\ type = "REINFORCE" => ctx.sideKnown

BuildActions(rules, ctx, symbol) ==
    LET types == [i \in DOMAIN rules |-> rules[i].type]
    IN  SelectSeq(types, LAMBDA t : Buildable(t, ctx, symbol))

(* Curated noise: the whole message is a sample, and not just numbers.     *)
NoiseMatches(rule, text) ==
    /\ rule.type = "IGNORE"
    /\ rule.sample = text
    /\ \E i \in DOMAIN text : text[i] # Digits
    /\ \A token \in rule.context : Within(token, text)

IgnoreHit(text, rules) == \E i \in DOMAIN rules : NoiseMatches(rules[i], text)

(* The embedding layer: the best-scoring rule that may fire, if it reaches *)
(* the threshold.  likeness[text][i] is the similarity of rule i.          *)
Layer2(rules, ctx, scores, threshold) ==
    LET able == {i \in DOMAIN rules : /\ Emittable(rules[i])
                                      /\ PreconditionOk(rules[i].type, ctx)
                                      /\ scores[i] > 0}
        best == CHOOSE i \in able : \A j \in able :
                    scores[i] > scores[j] \/ (scores[i] = scores[j] /\ i <= j)
    IN  IF able # {} /\ scores[best] >= threshold THEN <<rules[best]>> ELSE <<>>

NoMatch == [layer |-> "none", actions |-> <<>>]

MatchText(text, rules, ctx, symbol, scores, threshold) ==
    LET direct == BuildActions(Layer1(text, rules, ctx), ctx, symbol)
        close  == BuildActions(Layer2(rules, ctx, scores, threshold), ctx, symbol)
    IN  IF text = <<>> THEN NoMatch
        ELSE IF direct # <<>> THEN [layer |-> "deterministic", actions |-> direct]
        ELSE IF IgnoreHit(text, rules) THEN [layer |-> "deterministic_ignore", actions |-> <<>>]
        ELSE IF close # <<>> THEN [layer |-> "embedding", actions |-> close]
        ELSE NoMatch

ReplyIntent(text, rules) ==
    LET Says(type) == \E i \in DOMAIN rules : rules[i].type = type /\ Speaks(rules[i], text)
    IN  IF Says("TRIGGER_PARENT") THEN "TRIGGER_PARENT"
        ELSE IF Says("IGNORE_PARENT") THEN "IGNORE_PARENT"
        ELSE "none"

(* match(): a reply may stand for its parent or silence it.  likeness maps *)
(* each text to the scores of the rules.                                   *)
Match(text, parent, rules, ctx, symbol, likeness, threshold) ==
    LET intent   == ReplyIntent(text, rules)
        Alone(t) == MatchText(t, rules, ctx, symbol, likeness[t], threshold)
    IN  IF text = <<>> \/ rules = <<>> THEN NoMatch
        ELSE IF parent # <<>> /\ intent = "TRIGGER_PARENT" THEN Alone(parent)
        ELSE IF parent # <<>> /\ intent = "IGNORE_PARENT"
             THEN [layer |-> "reply_intent_ignore", actions |-> <<>>]
        ELSE Alone(text)

(* Mutant: noise is announced before the triggers are looked at.           *)
TestMatchNoiseFirst(text, rules, ctx, symbol, scores, threshold) ==
    LET noise == IgnoreHit(text, rules)
    IN  [actions |-> IF noise THEN <<>>
                     ELSE MatchText(text, rules, ctx, symbol, scores, threshold).actions,
         suppressed |-> noise]

(* test_match(): what the editor's Test pane announces for a message.      *)
TestMatch(text, rules, ctx, symbol, scores, threshold) ==
    LET matched == SelectSeq(rules, LAMBDA r : /\ Emittable(r)
                                               /\ Speaks(r, text)
                                               /\ PreconditionOk(r.type, ctx))
        fires   == Layer2(rules, ctx, scores, threshold)
        noise   == IgnoreHit(text, rules)
    IN  [actions |-> IF matched # <<>>
                     THEN BuildActions(Layer1(text, rules, ctx), ctx, symbol)
                     ELSE IF noise THEN <<>> ELSE BuildActions(fires, ctx, symbol),
         suppressed |-> matched = <<>> /\ noise]
=============================================================================
