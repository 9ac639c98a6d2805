------------------------------ MODULE TradeDesk ------------------------------
(***************************************************************************)
(* The request threads of one API process, a resting order and the JSON    *)
(* payload of its row.                                                     *)
(*                                                                         *)
(* FastAPI runs each handler in a thread of a pool; all of them, and the   *)
(* background orchestrator, share ONE SQLite connection in autocommit mode *)
(* (db.py:7), so a transaction belongs to the connection, not to the       *)
(* thread: a second BEGIN fails, and a statement of any thread falls into  *)
(* the transaction another one opened.  The evaluator has a connection of  *)
(* its own and, like resize_pending, reads the payload, changes its part   *)
(* and writes the whole of it back.                                        *)
(*                                                                         *)
(* How a row is claimed, released and recovered is in ActionStore and      *)
(* EaBridge; here each claim leads to one limit order.                     *)
(***************************************************************************)
EXTENDS Naturals, FiniteSets

CONSTANTS
  Id,        \* rows of the actions table
  Req,       \* the operator's requests, each sent once
  OnePanel,  \* TRUE: one resize of a row at a time (the Apply button)
  MaxFail,   \* statements that fail
  NULL

ASSUME DeskAssumption ==
  /\ OnePanel \in BOOLEAN /\ MaxFail \in Nat
  /\ NULL \notin Req /\ "signal" \notin Req

VARIABLES
  rows,     \* the actions table, as the API's connection sees it
  saved,    \* the table as other connections see it while a transaction is open, or NULL
  req,      \* the operator's requests
  ea,       \* the EA's one request, or its poll of a row
  unsent,   \* results the EA has to post, or post again
  order,    \* g_pending_orders: the order the EA tracks for a row
  strays,   \* orders and positions of a row that the EA no longer tracks
  workers,  \* evaluator threads
  fails,    \* statements that failed so far
  claims    \* history: how often the EA was given the row

vars == <<rows, saved, req, ea, unsent, order, strays, workers, fails, claims>>

(* by: who made the row; lot: the request whose lot the payload asks for.  *)
Absent == [status |-> "absent", booked |-> FALSE, by |-> NULL, eval |-> "none",
           seq |-> 0, lot |-> NULL]
NoRequest == [op |-> "none", id |-> NULL, step |-> "idle", seq |-> 0, eval |-> "none",
              status |-> "absent", lot |-> NULL]
NoOrder == [state |-> "none", seq |-> 0, lot |-> NULL]

Init ==
  /\ rows = [a \in Id |-> Absent] /\ saved = NULL
  /\ req = [r \in Req |-> NoRequest] /\ ea = NoRequest /\ unsent = {}
  /\ order = [a \in Id |-> NoOrder] /\ strays = [a \in Id |-> 0]
  /\ workers = {} /\ fails = 0 /\ claims = [a \in Id |-> 0]

(* What another connection reads.                                          *)
Committed == IF saved = NULL THEN rows ELSE saved

trading == <<unsent, order, strays, claims>>

-----------------------------------------------------------------------------
(* A request r with record q, of the operator or of the EA.                *)

Threads == Req \cup {NULL}
At(r) == IF r = NULL THEN ea ELSE req[r]
To(r, q) ==
  IF r = NULL THEN ea' = q /\ UNCHANGED req ELSE req' = [req EXCEPT ![r] = q] /\ UNCHANGED ea
Goes(r, step) == To(r, [At(r) EXCEPT !.step = step])

(* An answered request of the operator; a result of the EA is put back in  *)
(* the queue by any answer but 200, 404 and 409.                           *)
Answered(r, step) ==
  IF r # NULL
  THEN /\ To(r, [NoRequest EXCEPT !.op = At(r).op, !.id = At(r).id, !.step = step])
       /\ UNCHANGED unsent
  ELSE /\ ea' = NoRequest /\ UNCHANGED req
       /\ unsent' = IF step = "error" THEN unsent \cup {<<ea.id, ea.status>>} ELSE unsent

(* BEGIN in the try block: its ROLLBACK ends whatever transaction is open. *)
BeginInside(r) ==
  /\ At(r).step = "begin"
  /\ IF saved = NULL
     THEN saved' = rows /\ Goes(r, "write") /\ UNCHANGED <<rows, unsent>>
     ELSE rows' = saved /\ saved' = NULL /\ Answered(r, "error")
  /\ UNCHANGED <<order, strays, workers, fails, claims>>

(* conn.execute("BEGIN"), before the try block.                            *)
Begin(r) ==
  /\ At(r).step = "begin"
  /\ IF saved = NULL
     THEN saved' = rows /\ Goes(r, "write") /\ UNCHANGED unsent
     ELSE UNCHANGED saved /\ Answered(r, "error")
  /\ UNCHANGED <<rows, order, strays, workers, fails, claims>>

Worker(a, src) == [id |-> a, src |-> src, step |-> "judge", read |-> NULL]

(* _maybe_kick_post_execution_evaluator, by the row as it was read.        *)
Kicked(r) ==
  IF r = NULL /\ ea.status = "executed" /\ ea.eval = "none"
  THEN {Worker(ea.id, "fill")} ELSE {}

(* COMMIT raises when another thread ended the transaction.                *)
Commit(r) ==
  /\ At(r).step = "commit" /\ saved' = NULL
  /\ IF saved = NULL THEN Answered(r, "error") /\ UNCHANGED workers
     ELSE Answered(r, "done") /\ workers' = workers \cup Kicked(r)
  /\ UNCHANGED <<rows, order, strays, fails, claims>>

(* A statement between BEGIN and COMMIT raises: ROLLBACK, and status 500.  *)
Fail(r) ==
  /\ At(r).step \in {"write", "book", "commit"} /\ fails < MaxFail
  /\ fails' = fails + 1
  /\ rows' = Committed /\ saved' = NULL /\ Answered(r, "error")
  /\ UNCHANGED <<order, strays, workers, claims>>

-----------------------------------------------------------------------------
(* The operator: the manual trade tab and the lot of a resting order.      *)

AskManual(r) ==
  /\ req[r].step = "idle"
  /\ req' = [req EXCEPT ![r] = [NoRequest EXCEPT !.op = "manual", !.step = "begin"]]
  /\ UNCHANGED <<rows, saved, ea, trading, workers, fails>>

InsertManual(r) ==
  /\ req[r].op = "manual" /\ req[r].step = "write"
  /\ \E a \in Id :
       /\ rows[a].status = "absent"
       /\ rows' = [rows EXCEPT ![a] = [Absent EXCEPT !.status = "sent", !.by = r]]
       /\ req' = [req EXCEPT ![r].id = a, ![r].step = "commit"]
  /\ UNCHANGED <<saved, ea, trading, workers, fails>>

(* The SELECT of resize_pending and its test.                              *)
AskResize(r, a) ==
  /\ req[r].step = "idle" /\ rows[a].status = "watching"
  /\ OnePanel => \A s \in Req : req[s].op = "resize" /\ req[s].id = a =>
                                  req[s].step \in {"done", "error"}
  /\ req' = [req EXCEPT ![r] = [NoRequest EXCEPT !.op = "resize", !.id = a, !.step = "begin",
                                                 !.seq = rows[a].seq, !.eval = rows[a].eval]]
  /\ UNCHANGED <<rows, saved, ea, trading, workers, fails>>

(* resize_seq written back as it was read.                                 *)
ResizeSameSeq(r) ==
  /\ req[r].op = "resize" /\ req[r].step = "write"
  /\ rows' = [rows EXCEPT ![req[r].id] =
                [@ EXCEPT !.eval = req[r].eval, !.seq = req[r].seq, !.lot = r]]
  /\ req' = [req EXCEPT ![r].step = "commit"]
  /\ UNCHANGED <<saved, ea, trading, workers, fails>>

(* The whole payload, as read, with the new lot and the next number.       *)
Resize(r) ==
  /\ req[r].op = "resize" /\ req[r].step = "write"
  /\ rows' = [rows EXCEPT ![req[r].id] =
                [@ EXCEPT !.eval = req[r].eval, !.seq = req[r].seq + 1, !.lot = r]]
  /\ req' = [req EXCEPT ![r].step = "commit"]
  /\ UNCHANGED <<saved, ea, trading, workers, fails>>

Operator == \E r \in Req :
  \/ AskManual(r) \/ InsertManual(r) \/ Resize(r)
  \/ \E a \in Id : AskResize(r, a)

-----------------------------------------------------------------------------
(* The background orchestrator and the evaluator.                          *)

(* _persist_actions: one INSERT, and kick_evaluator_for_open.              *)
InsertSignal(a) ==
  /\ rows[a].status = "absent"
  /\ rows' = [rows EXCEPT ![a] = [Absent EXCEPT !.status = "sent", !.by = "signal"]]
  /\ saved' = saved
  /\ workers' = workers \cup {Worker(a, "signal")}
  /\ UNCHANGED <<req, ea, trading, fails>>

(* The model's verdict arrives, or none does; then the payload is read.    *)
Judge(w) ==
  /\ w.step = "judge"
  /\ workers' = IF Committed[w.id].status = "absent" THEN workers \ {w}
                ELSE (workers \ {w}) \cup {[w EXCEPT !.step = "merge", !.read = <<Committed[w.id].seq, Committed[w.id].lot>>]}
  /\ UNCHANGED <<rows, saved, req, ea, trading, fails>>

GiveUp(w) ==
  /\ w.step = "judge" /\ workers' = workers \ {w}
  /\ UNCHANGED <<rows, saved, req, ea, trading, fails>>

(* The UPDATE waits for the write lock of an open transaction.             *)
Merge(w) ==
  /\ w.step = "merge" /\ saved \in {NULL, rows}
  /\ LET put(t) == IF t[w.id].status = "absent" THEN t
                   ELSE [t EXCEPT ![w.id] = [@ EXCEPT !.eval = w.src, !.seq = w.read[1],
                                                      !.lot = w.read[2]]]
     IN  rows' = put(rows) /\ saved' = IF saved = NULL THEN NULL ELSE put(saved)
  /\ workers' = workers \ {w}
  /\ UNCHANGED <<req, ea, trading, fails>>

Evaluator == \E w \in workers : Judge(w) \/ GiveUp(w) \/ Merge(w)
-----------------------------------------------------------------------------
(* The EA: one request at a time.                                          *)

Free == ea.step = "idle"

(* ClaimAction, then PlacePendingLimit; the claim is one UPDATE.           *)
ClaimAndPlace(a) ==
  /\ Free /\ rows[a].status = "sent"
  /\ rows' = [rows EXCEPT ![a].status = "claimed"]
  /\ \/ /\ order' = [order EXCEPT ![a] = [NoOrder EXCEPT !.state = "live"]]
        /\ unsent' = unsent \cup {<<a, "watching">>}
     \/ UNCHANGED order /\ unsent' = unsent \cup {<<a, "failed">>}
  /\ claims' = [claims EXCEPT ![a] = @ + 1]
  /\ UNCHANGED <<saved, req, ea, strays, workers, fails>>

(* POST /actions/{id}/result: the row is read before the transaction.      *)
Post(a, status) ==
  /\ Free /\ <<a, status>> \in unsent
  /\ ea' = IF rows[a].status = "absent" THEN ea
           ELSE [NoRequest EXCEPT !.op = "result", !.id = a, !.step = "begin",
                                  !.status = status, !.eval = rows[a].eval]
  /\ unsent' = unsent \ {<<a, status>>}
  /\ UNCHANGED <<rows, saved, req, order, strays, workers, fails, claims>>

(* COMMIT before the position is inserted.                                 *)
WriteResultAlone ==
  /\ ea.op = "result" /\ ea.step = "write" /\ saved' = NULL
  /\ rows[ea.id].status \in {"claimed", "watching"}
  /\ rows' = [rows EXCEPT ![ea.id].status = ea.status]
  /\ Goes(NULL, IF ea.status = "executed" THEN "book" ELSE "commit")
  /\ UNCHANGED <<trading, workers, fails>>

(* The UPDATE guarded by the status; a late result changes nothing (409).  *)
WriteResult ==
  /\ ea.op = "result" /\ ea.step = "write"
  /\ IF rows[ea.id].status \in {"claimed", "watching"}
     THEN /\ rows' = [rows EXCEPT ![ea.id].status = ea.status]
          /\ Goes(NULL, IF ea.status = "executed" THEN "book" ELSE "commit")
     ELSE UNCHANGED rows /\ To(NULL, [ea EXCEPT !.step = "commit", !.eval = "late"])
  /\ UNCHANGED <<saved, trading, workers, fails>>

(* The INSERT of the position.                                             *)
Book ==
  /\ ea.op = "result" /\ ea.step = "book"
  /\ rows' = [rows EXCEPT ![ea.id].booked = TRUE]
  /\ Goes(NULL, "commit")
  /\ UNCHANGED <<saved, trading, workers, fails>>

Drop(a) == order' = [order EXCEPT ![a] = NoOrder]

(* ManagePendingOrders: the order became a position, or is gone.           *)
Notice(a) ==
  /\ Free /\ order[a].state \in {"filled", "gone"}
  /\ LET filled == order[a].state = "filled"
     IN  /\ unsent' = unsent \cup {<<a, IF filled THEN "executed" ELSE "rejected">>}
         /\ strays' = IF filled THEN [strays EXCEPT ![a] = @ + 1] ELSE strays
  /\ Drop(a)
  /\ UNCHANGED <<rows, saved, req, ea, workers, fails, claims>>

(* The poll of a resting order's row, on the shared connection.            *)
Poll(a) ==
  /\ Free /\ order[a].state = "live"
  /\ ea' = [NoRequest EXCEPT !.op = "poll", !.id = a, !.step = "act", !.seq = rows[a].seq,
                             !.status = rows[a].status, !.lot = rows[a].lot]
  /\ UNCHANGED <<rows, saved, req, trading, workers, fails>>

Acts(a) == ea.op = "poll" /\ ea.step = "act" /\ ea.id = a /\ ea' = NoRequest
Asked(a) == ea.seq > order[a].seq /\ ea.lot # NULL

(* The new order placed although the old one would not go.                 *)
ReplaceAnyway(a) ==
  /\ Acts(a) /\ Asked(a)
  /\ strays' = IF order[a].state = "filled" THEN [strays EXCEPT ![a] = @ + 1] ELSE strays
  /\ order' = [order EXCEPT ![a] = [state |-> "live", seq |-> ea.seq, lot |-> ea.lot]]
  /\ unsent' = unsent \cup {<<a, "watching">>}
  /\ UNCHANGED <<rows, saved, req, workers, fails, claims>>

(* A new lot: too much margin, the order does not go, or another in its    *)
(* place; the new one may be refused.                                      *)
Replace(a) ==
  /\ Acts(a) /\ Asked(a)
  /\ \/ /\ unsent' = unsent \cup {<<a, "failed">>}
        /\ order' = [order EXCEPT ![a].seq = ea.seq]
     \/ order[a].state # "live" /\ UNCHANGED <<unsent, order>>
     \/ /\ order[a].state = "live"
        /\ \/ /\ order' = [order EXCEPT ![a] = [state |-> "live", seq |-> ea.seq, lot |-> ea.lot]]
              /\ unsent' = unsent \cup {<<a, "watching">>}
           \/ Drop(a) /\ unsent' = unsent \cup {<<a, "failed">>}
  /\ UNCHANGED <<rows, saved, req, strays, workers, fails, claims>>

(* The margin cannot be computed yet, or the server is busy: nothing.      *)
Defer(a) ==
  /\ Acts(a) /\ Asked(a)
  /\ UNCHANGED <<rows, saved, req, trading, workers, fails>>

(* Cancelled on the server; an order that will not go is let go of.        *)
Obey(a) ==
  /\ Acts(a) /\ ~Asked(a)
  /\ IF ea.status = "rejected"
     THEN /\ Drop(a)
          /\ strays' = IF order[a].state = "filled" THEN [strays EXCEPT ![a] = @ + 1] ELSE strays
     ELSE UNCHANGED <<order, strays>>
  /\ UNCHANGED <<rows, saved, req, unsent, workers, fails, claims>>

Ea ==
  \/ WriteResult \/ Book
  \/ \E a \in Id : \/ ClaimAndPlace(a) \/ Notice(a) \/ Poll(a)
                   \/ Replace(a) \/ Defer(a) \/ Obey(a)
                   \/ \E s \in {"watching", "executed", "failed", "rejected"} : Post(a, s)

(* A price is reached, or the broker or its operator removes the order.    *)
Broker(a) ==
  /\ order[a].state = "live"
  /\ \E state \in {"filled", "gone"} : order' = [order EXCEPT ![a].state = state]
  /\ UNCHANGED <<rows, saved, req, ea, unsent, strays, workers, fails, claims>>

(* CANCEL_PENDING, from a message or by the risk monitor: one UPDATE.      *)
CancelWatching ==
  /\ \E a \in Id : rows[a].status = "watching"
  /\ rows' = [a \in Id |-> IF rows[a].status = "watching"
                           THEN [rows[a] EXCEPT !.status = "rejected"] ELSE rows[a]]
  /\ UNCHANGED <<saved, req, ea, trading, workers, fails>>

Transaction == \E r \in Threads : Begin(r) \/ Commit(r) \/ Fail(r)

Next ==
  \/ Operator \/ Transaction \/ Evaluator \/ Ea \/ CancelWatching
  \/ \E a \in Id : InsertSignal(a)
  \/ \E a \in Id : Broker(a)

Spec == Init /\ [][Next]_vars

(* Threads run; the EA's timer polls and the broker does not withhold a    *)
(* margin figure for ever.                                                 *)
Fairness ==
  /\ \A r \in Threads : WF_vars(Begin(r)) /\ WF_vars(Commit(r))
  /\ WF_vars(WriteResult) /\ WF_vars(Book)
  /\ \A a \in Id : SF_vars(Poll(a)) /\ SF_vars(Replace(a)) /\ WF_vars(Acts(a) /\ Ea)

FairSpec == Spec /\ Fairness
-----------------------------------------------------------------------------
(* Properties. *)

Status == {"absent", "sent", "claimed", "watching", "executed", "failed", "rejected"}
Eval == {"none", "signal", "fill"}
Lot == Req \cup {NULL}
Row == [status : Status, booked : BOOLEAN, by : Lot \cup {"signal"}, eval : Eval, seq : Nat, lot : Lot]
(* NULL stands for no table. *)
ASSUME NullAssumption == NULL \notin [Id -> Row]

Steps == {"idle", "begin", "write", "book", "commit", "act", "done", "error"}
Request(evals) ==
  [op : {"none", "manual", "resize", "result", "poll"}, id : Id \cup {NULL}, step : Steps,
   seq : Nat, eval : evals, status : Status, lot : Lot]

(* Every variable keeps its domain.                                        *)
TypeOK ==
  /\ rows \in [Id -> Row] /\ saved \in [Id -> Row] \cup {NULL}
  /\ req \in [Req -> Request(Eval)] /\ ea \in Request(Eval \cup {"late"})
  /\ ea.step \in {"begin", "write", "book", "commit"} => ea.op = "result" /\ ea.id \in Id
  /\ unsent \subseteq Id \X Status
  /\ order \in [Id -> [state : {"none", "live", "filled", "gone"}, seq : Nat, lot : Lot]]
  /\ strays \in [Id -> Nat] /\ claims \in [Id -> Nat]
  /\ workers \subseteq [id : Id, src : {"signal", "fill"}, step : {"judge", "merge"},
                       read : (Nat \X Lot) \cup {NULL}]
  /\ \A w \in workers : w.step = "merge" => w.read \in Nat \X Lot
  /\ fails \in 0 .. MaxFail

(* No other process ever sees an executed row whose position is missing:   *)
(* the AI would take the symbol for free and open again (api.py:459-466).  *)
ResultWhole == \A a \in Id : Committed[a].status = "executed" => Committed[a].booked

(* A request that was answered with an error has left nothing behind: the  *)
(* operator may repeat it without trading twice (api.py:1155-1166).        *)
RefusedLeavesNothing ==
  \A r \in Req : req[r].step = "error" =>
    \A a \in Id : Committed[a].by # r /\ Committed[a].lot # r

(* A request is seen whole or not at all, by others while it runs and by its   *)
(* own client when it fails.                                                   *)
RequestsAtomic == ResultWhole /\ RefusedLeavesNothing

(* Resizing never leaves a claimed action with two orders, or an order     *)
(* beside its position, however the fill falls between the EA's steps.     *)
ExposedOnce ==
  \A a \in Id : strays[a] + (IF order[a].state \in {"live", "filled"} THEN 1 ELSE 0) <= claims[a]

(* A new lot that was accepted for an order the operator placed himself    *)
(* reaches the broker, unless the order goes or is asked for another, or   *)
(* the margin does not allow it.                                           *)
Reached(r) ==
  LET a == req[r].id
  IN  order[a].lot = r \/ order[a].state # "live" \/ Committed[a].lot # r
        \/ <<a, "failed">> \in unsent \/ ea.status = "failed" \/ rows[a].status = "failed"

LotReaches ==
  \A r \in Req :
    (req[r].op = "resize" /\ req[r].step = "done" /\ Committed[req[r].id].by \in Req)
      ~> (req[r].op = "resize" /\ Reached(r))

(* What a merge or a resize does not take away: the score on record.       *)
ScoreKept ==
  [][\A a \in Id : rows[a].eval = "signal" /\ rows'[a].status # "absent"
                     => rows'[a].eval = "signal"]_vars

(* A row is given to the EA once, an inserted one stays.                   *)
ClaimedOnce == \A a \in Id : claims[a] <= 1

(* An action the orchestrator inserted stays on record.                    *)
SignalKept == [][\A a \in Id : rows[a].by = "signal" => rows'[a].by = "signal"]_vars
=============================================================================
