---------------------------- MODULE SignalIntake ----------------------------
(***************************************************************************)
(* The orchestrator of one destination (orchestrator.process_message): it  *)
(* reads a message in stages, filters the answer by the rules of the route *)
(* and writes one row per action.  Background tasks run side by side on    *)
(* one connection, each statement a transaction of its own, while the      *)
(* operator edits the route and the market moves.                          *)
(*                                                                         *)
(* What the stages make of a message is one of its Readings; how messages  *)
(* get here, and each of them once, is in Delivery.  What becomes of a row *)
(* afterwards is reduced to the statuses looked at here (ActionStore and   *)
(* EaBridge have the rest): "pending" stands for the pipeline up to        *)
(* claimed, "open" for executed with its position open.                    *)
(***************************************************************************)
EXTENDS Integers, Sequences, FiniteSets, SignalCheck, TriggerMatcher

CONSTANTS
  Last,       \* messages are 1 .. Last
  Readings,   \* Readings[m]: what the stages may make of m
  Routes,     \* settings the operator may give the route
  MaxEdits    \* edits of the route

Messages == 1 .. Last

(* The members of a sequence at the positions in keep, in their order.     *)
(* TLAPS knows no rule for SelectSeq.                                      *)
Rank(keep, i) == Cardinality({j \in keep : j <= i})
Nth(keep, k) == CHOOSE i \in keep : Rank(keep, i) = k
Kept(seq, keep) == [k \in 1 .. Cardinality(keep) |-> seq[Nth(keep, k)]]

Sequential(seq) == Len(seq) \in Nat /\ seq = [i \in 1 .. Len(seq) |-> seq[i]]

(* What the stages may make of a message: matched, what the prefilter and  *)
(* the triggers decide themselves; said, what triage may say; answers, of  *)
(* the model; images, its second look with the chart, if there is one.     *)
(* The actions of a trigger are built, so they are well formed, and none   *)
(* of them opens; a price in an OPEN that is well formed is a number.      *)
ASSUME IntakeAssumption ==
  /\ {Last, MaxEdits} \subseteq Nat
  /\ \A m \in Messages :
       LET reading == Readings[m] IN
       /\ \A r \in reading.matched :
            /\ r.stage \in {"prefilter_drop", "trigger_text", "trigger_ignore"}
            /\ \A i \in DOMAIN r.acts : WellFormed(r.acts[i]) /\ r.acts[i].type \notin Openings
       /\ \A r \in reading.matched \cup reading.answers \cup reading.images :
            /\ Sequential(r.acts)
            /\ \A i \in DOMAIN r.acts :
                 LET a == r.acts[i] IN
                 WellFormed(a) /\ a.type = "OPEN" =>
                   /\ {a.entry_low, a.entry_high, a.sl} \subseteq Int
                   /\ \A k \in DOMAIN a.tps : a.tps[k] \in Int

VARIABLES
  arrived,  \* how each message was taken: "no", "live" or "replayed"
  tasks,    \* background tasks at work
  decided,  \* messages.decided_stage
  memory,   \* messages whose deliberation is not cleared
  rows,     \* actions table: row i has ticket i once it is open
  route,    \* the route's settings
  edits

vars == <<arrived, tasks, decided, memory, rows, route, edits>>

Init ==
  /\ arrived = [m \in Messages |-> "no"] /\ tasks = {}
  /\ decided = [m \in Messages |-> "none"]
  /\ memory = {} /\ rows = <<>>
  /\ route \in Routes /\ edits = 0

Step(t, u) == tasks' = (tasks \ {t}) \cup {u}

(* _insert_message, of a message that is not on record.                    *)
Begin(m, backfill) ==
  /\ arrived[m] = "no"
  /\ arrived' = [arrived EXCEPT ![m] = IF backfill THEN "replayed" ELSE "live"]
  /\ tasks' = tasks \cup {[msg |-> m, backfill |-> backfill, step |-> "read", acts |-> <<>>,
                           nth |-> 1, verdict |-> "ok", tested |-> 0, clears |-> FALSE]}
  /\ UNCHANGED <<decided, memory, rows, route, edits>>

(* evaluate_pre_persistence_rules, on a snapshot of the configuration.     *)
PermittedBy(settings, acts) ==
  Kept(acts, {i \in DOMAIN acts : acts[i].type \in settings.allowed})
Permitted(acts) == PermittedBy(route, acts)

Has(acts, types) == \E i \in DOMAIN acts : acts[i].type \in types

OnMarket == {i \in DOMAIN rows : rows[i].status = "open"}

(* trigger_matcher.build_context *)
Context == [open |-> OnMarket # {},
            closedRecently |-> \E i \in DOMAIN rows : rows[i].status = "closed",
            watching |-> \E i \in DOMAIN rows : rows[i].status = "watching"]

(* The model's own answer stands unless it is nothing but alerts and the   *)
(* second look yields an OPEN the route permits.                           *)
Corrects(answer, image) ==
  /\ answer.category \in {"signal", "partial_signal"}
  /\ answer.acts # <<>> /\ \A i \in DOMAIN answer.acts : answer.acts[i].type = "ALERT"
  /\ Parsable(image) /\ image.category \in {"signal", "partial_signal"}
  /\ Has(Permitted(image.acts), {"OPEN"})

(* Mutant: deliberation is noted for every message that is looked at.      *)
NotedAlways(m, answer) == memory \cup {m}

(* signal_memory.append *)
Noted(m, answer) ==
  IF answer.category \in {"none", "ignore"} THEN memory ELSE memory \cup {m}

(* The task goes on to persist acts, of which none may be left.            *)
Persist(t, acts, clears, noted) ==
  IF acts = <<>>
  THEN tasks' = tasks \ {t} /\ memory' = IF clears THEN {} ELSE noted
  ELSE /\ Step(t, [t EXCEPT !.step = "test", !.acts = acts, !.clears = clears])
       /\ memory' = noted

Decide(t, stage) == decided' = [decided EXCEPT ![t.msg] = stage]

Halt(t) ==
  /\ t.step = "read" /\ route.halted
  /\ tasks' = tasks \ {t}
  /\ UNCHANGED <<arrived, decided, memory, rows, route, edits>>

(* The prefilter, the triggers and the curated noise.                      *)
MatchTriggers(t) ==
  /\ t.step = "read" /\ ~route.halted
  /\ \E r \in Readings[t.msg].matched :
       /\ r.stage = "trigger_text" =>
            \A i \in DOMAIN r.acts : PreconditionOk(r.acts[i].type, Context)
       /\ Decide(t, r.stage)
       /\ Persist(t, Permitted(r.acts), FALSE, memory)
  /\ UNCHANGED <<arrived, rows, route, edits>>

(* A triage that fails, or says nothing clear, lets the message through.   *)
Triage(t) ==
  /\ t.step = "read" /\ ~route.halted
  /\ \E said \in Readings[t.msg].said :
       IF Triaged(said) = "ignore"
       THEN Decide(t, "triage_ignored") /\ tasks' = tasks \ {t}
       ELSE Step(t, [t EXCEPT !.step = "ask"]) /\ UNCHANGED decided
  /\ UNCHANGED <<arrived, memory, rows, route, edits>>

Row(m, act, status) ==
  [msg |-> m, type |-> act.type, act |-> act, status |-> status,
   sig |-> IF act.type = "OPEN" THEN Fingerprint(act) ELSE <<>>]

(* The model's answer, and the operator's notice if there is none.         *)
Ask(t) ==
  /\ t.step = "ask"
  /\ \E answer \in Interpreted(Readings[t.msg].answers) :
       IF Parsable(answer)
       THEN \E image \in Readings[t.msg].images :
              LET corrected == Corrects(answer, image)
              IN  /\ Decide(t, "interpreted")
                  /\ Persist(t, Permitted(IF corrected THEN image.acts ELSE answer.acts),
                             corrected \/ Has(answer.acts, Openings),
                             Noted(t.msg, answer))
                  /\ UNCHANGED rows
       ELSE /\ rows' = Append(rows, Row(t.msg, [type |-> "ALERT"], "executed"))
            /\ tasks' = tasks \ {t}
            /\ UNCHANGED <<decided, memory>>
  /\ UNCHANGED <<arrived, route, edits>>

Pipeline == {"pending"}

(* _has_recent_duplicate_open without the executed rows.                   *)
DuplicateInPipeline(sig) ==
  \E i \in DOMAIN rows : rows[i].type = "OPEN" /\ rows[i].sig = sig /\ rows[i].status \in Pipeline

(* _has_recent_duplicate_open: a watching row is not looked at.            *)
Duplicate(sig) ==
  \E i \in DOMAIN rows : /\ rows[i].type = "OPEN" /\ rows[i].sig = sig
                         /\ rows[i].status \in Pipeline \cup {"open"}

(* validate_action: an OPEN needs a free symbol, or a close before it; a   *)
(* CLOSE or MODIFY a ticket that is open.                                  *)
Admissible(t) ==
  LET act == t.acts[t.nth] IN
  CASE act.type = "OPEN" ->
         \/ OnMarket = {}
         \/ Has(SubSeq(t.acts, 1, t.nth - 1), {"CLOSE_FULL", "CLOSE", "CLOSE_ALL", "REINFORCE"})
    [] act.type \in {"CLOSE", "MODIFY"} -> act.mt5_ticket \in OnMarket
    [] act.type = "CLOSE_ALL" -> act.symbol \in Supported
    [] OTHER -> TRUE

(* The tests of an action; its INSERT is a statement of its own.           *)
Test(t) ==
  /\ t.step = "test"
  /\ LET act == t.acts[t.nth] IN
     Step(t, [t EXCEPT !.step = "insert", !.tested = Len(rows),
              !.verdict = IF act.type = "OPEN" /\ Duplicate(Fingerprint(act))
                          THEN "duplicate"
                          ELSE IF Admissible(t) THEN "ok" ELSE "refused"])
  /\ UNCHANGED <<arrived, decided, memory, rows, route, edits>>

(* The status without the guard for instructions from a replay.            *)
StatusUnguarded(type, t) ==
  IF t.verdict # "ok" THEN "rejected"
  ELSE IF type \in {"CANCEL_PENDING", "ALERT"} THEN "executed" ELSE "pending"

Status(type, t) ==
  IF t.verdict # "ok" THEN "rejected"
  ELSE IF type \in {"CANCEL_PENDING", "ALERT"} THEN "executed"
  ELSE IF t.backfill /\ type \notin {"OPEN", "OPEN_INSTANT"} THEN "parked" ELSE "pending"

Cancelled(table) ==
  [i \in DOMAIN table |->
     IF table[i].type = "OPEN" /\ table[i].status = "watching"
     THEN [table[i] EXCEPT !.status = "rejected"] ELSE table[i]]

(* A rejected action that ends the whole loop.                             *)
InsertBreaking(t) ==
  /\ t.step = "insert"
  /\ LET act == t.acts[t.nth]
     IN  rows' = Append(IF act.type = "CANCEL_PENDING" /\ t.verdict = "ok"
                        THEN Cancelled(rows) ELSE rows,
                        Row(t.msg, act, Status(act.type, t)))
  /\ IF t.nth = Len(t.acts) \/ t.verdict # "ok"
     THEN tasks' = tasks \ {t} /\ memory' = IF t.clears THEN {} ELSE memory
     ELSE /\ Step(t, [t EXCEPT !.step = "test", !.nth = @ + 1, !.verdict = "ok", !.tested = 0])
          /\ UNCHANGED memory
  /\ UNCHANGED <<arrived, decided, route, edits>>

(* The INSERT, and what follows the last one.  An OPEN clears the memory   *)
(* whether or not it was accepted.                                         *)
Insert(t) ==
  /\ t.step = "insert"
  /\ LET act == t.acts[t.nth]
     IN  rows' = Append(IF act.type = "CANCEL_PENDING" /\ t.verdict = "ok"
                        THEN Cancelled(rows) ELSE rows,
                        Row(t.msg, act, Status(act.type, t)))
  /\ IF t.nth = Len(t.acts)
     THEN tasks' = tasks \ {t} /\ memory' = IF t.clears THEN {} ELSE memory
     ELSE /\ Step(t, [t EXCEPT !.step = "test", !.nth = @ + 1, !.verdict = "ok", !.tested = 0])
          /\ UNCHANGED memory
  /\ UNCHANGED <<arrived, decided, route, edits>>

(* The operator, in the routes matrix. *)
EditRoute ==
  /\ edits < MaxEdits /\ edits' = edits + 1
  /\ route' \in Routes
  /\ UNCHANGED <<arrived, tasks, decided, memory, rows>>

(* The rest of the program and the broker.                                 *)
Trade(i) ==
  LET To(status) == rows' = [rows EXCEPT ![i].status = status]
  IN  /\ \/ /\ rows[i].status = "pending" /\ rows[i].type = "OPEN"
            /\ IF rows[i].act.pending THEN To("watching")
               ELSE IF OnMarket = {} THEN To("open") ELSE To("failed")
         \/ rows[i].status = "watching" /\ To("open")
         \/ rows[i].status = "open" /\ To("closed")
         \/ /\ rows[i].status = "pending" /\ rows[i].type = "CLOSE"
            /\ rows' = [k \in DOMAIN rows |->
                          IF k = i THEN [rows[k] EXCEPT !.status = "executed"]
                          ELSE IF k \in OnMarket /\ k = rows[i].act.mt5_ticket
                          THEN [rows[k] EXCEPT !.status = "closed"]
                          ELSE rows[k]]
         \/ /\ rows[i].status = "pending" /\ rows[i].type = "CLOSE_FULL"
            /\ rows' = [k \in DOMAIN rows |->
                          IF k = i THEN [rows[k] EXCEPT !.status = "executed"]
                          ELSE IF k \in OnMarket THEN [rows[k] EXCEPT !.status = "closed"]
                          ELSE rows[k]]
      /\ UNCHANGED <<arrived, tasks, decided, memory, route, edits>>

Orchestrator ==
  \E t \in tasks : Halt(t) \/ MatchTriggers(t) \/ Triage(t) \/ Ask(t) \/ Test(t) \/ Insert(t)

Next ==
  \/ \E m \in Messages, backfill \in BOOLEAN : Begin(m, backfill)
  \/ Orchestrator
  \/ EditRoute
  \/ \E i \in DOMAIN rows : Trade(i)

Spec == Init /\ [][Next]_vars

-----------------------------------------------------------------------------
(* Properties. *)

Statuses == {"pending", "parked", "executed", "rejected", "watching", "open", "closed", "failed"}

Stages ==
  {"none", "prefilter_drop", "trigger_text", "trigger_ignore", "triage_ignored", "interpreted"}

TypeOK ==
  /\ arrived \in [Messages -> {"no", "live", "replayed"}]
  /\ \A t \in tasks : /\ arrived[t.msg] = IF t.backfill THEN "replayed" ELSE "live"
                      /\ t.step \in {"read", "ask", "test", "insert"}
                      /\ t.step \in {"test", "insert"} => t.nth \in DOMAIN t.acts
                      /\ t.tested \in 0 .. Len(rows)
  /\ decided \in [Messages -> Stages]
  /\ memory \subseteq {m \in Messages : decided[m] = "interpreted"}
  /\ \A i \in DOMAIN rows : arrived[rows[i].msg] # "no" /\ rows[i].status \in Statuses
  /\ route \in Routes /\ edits \in 0 .. MaxEdits

(* An OPEN is not let in beside a live one of its signal unless that one   *)
(* was inserted since the test, or has been a limit order                  *)
(* (orchestrator.py:193-216).                                              *)
SignalOnce ==
  [][\A t \in tasks :
       LET n == Len(rows) + 1
       IN  /\ t \notin tasks' /\ t.step = "insert"
           /\ n \in DOMAIN rows' /\ rows'[n].status = "pending" /\ rows'[n].msg = t.msg
           => \A i \in 1 .. t.tested :
                ~ /\ rows[i].type = "OPEN" /\ rows[i].sig = rows'[n].sig
                  /\ \/ rows[i].status \in Pipeline
                     \/ rows[i].status = "open" /\ ~rows[i].act.pending]_vars

(* What a task leaves on file is one whole answer, of which the route      *)
(* permitted these actions at some time, the refused ones included; of an  *)
(* answer with one ill-formed action there is not a single row             *)
(* (validators.py:357-374, orchestrator.py:868-).                          *)
AnswerWhole ==
  [][\A t \in tasks :
       t.step = "insert" /\ (\A u \in tasks' : u.msg # t.msg) =>
         LET told == Kept(rows', {i \in DOMAIN rows' : rows'[i].msg = t.msg})
             options == Readings[t.msg].answers \cup Readings[t.msg].images
                          \cup Readings[t.msg].matched
         IN  /\ [i \in DOMAIN told |-> told[i].act] = t.acts
             /\ \E answer \in options, s \in Routes :
                  /\ t.acts = PermittedBy(s, answer.acts)
                  /\ \A i \in DOMAIN answer.acts : WellFormed(answer.acts[i])]_vars

(* Every OPEN on file has its stop on the losing side of its whole entry   *)
(* zone, no further than 2 % from it, and a target on the other, whichever *)
(* way it came, if the zone is of prices and given low end first           *)
(* (validators.py:55-107).                                                 *)
OpensProtected ==
  \A i \in DOMAIN rows :
    /\ rows[i].type = "OPEN"
    /\ 0 < rows[i].act.entry_low /\ rows[i].act.entry_low <= rows[i].act.entry_high
    => LET a == rows[i].act
           worst == IF a.side = "BUY" THEN a.entry_high ELSE a.entry_low
           Loses(p) == IF a.side = "BUY" THEN p < a.entry_low ELSE p > a.entry_high
           Gains(p) == IF a.side = "BUY" THEN p > worst ELSE p < worst
       IN  /\ Loses(a.sl)
           /\ (50 * (IF a.side = "BUY" THEN worst - a.sl ELSE a.sl - worst)) <= worst
           /\ \E k \in DOMAIN a.tps : Gains(a.tps[k])

(* Nothing that is open or working is changed on the word of a replayed    *)
(* message: its instructions wait for the operator                         *)
(* (orchestrator.py:1002-1014).                                            *)
ReplayLeavesPositions ==
  \A i \in DOMAIN rows :
    arrived[rows[i].msg] = "replayed" /\ rows[i].type \in {"CLOSE_FULL", "MOVE_SL_BE"} =>
      rows[i].status = "parked"

(* An OPEN let through because a close precedes it is not ahead of that    *)
(* close (validators.py:405-416).                                          *)
ClosedBeforeOpen ==
  \A i, j \in DOMAIN rows :
    /\ i < j /\ rows[i].msg = rows[j].msg
    /\ rows[i].type = "CLOSE_FULL" /\ rows[j].type = "OPEN" /\ rows[j].status = "pending"
    => rows[i].status # "parked"
=============================================================================
