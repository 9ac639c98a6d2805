------------------------------- MODULE EaBridge -------------------------------
(***************************************************************************)
(* The MetaTrader expert advisor executing OPEN actions: it claims a row   *)
(* over HTTP, trades at the broker, reports the result, and reconciles the *)
(* positions table with the broker's account, one OnTimer after another    *)
(* (ea/CopyTrades.mq5:363).                                                *)
(*                                                                         *)
(* The EA has one thread.  Each HTTP call and each broker call is a step   *)
(* of its own; around them the broker fills and closes orders, the bot     *)
(* recycles claims, and the EA may be stopped.  A call is answered, or     *)
(* processed with its answer lost, or never processed; a 5xx is rolled     *)
(* back and counts as the latter.                                          *)
(***************************************************************************)
EXTENDS Integers, FiniteSets

CONSTANTS
  Action,    \* OPEN rows of the actions table
  Limit,     \* those with pending: true, placed as broker limit orders
  Ticket,    \* tickets the broker can issue: the bound on orders
  Lag,       \* TRUE: the terminal's position table may trail the broker
  MaxCrash,  \* how often the EA stops
  NULL

ASSUME LimitAssumption == Limit \subseteq Action
ASSUME LagAssumption == Lag \in BOOLEAN
ASSUME NullAssumption == NULL \notin Action \cup Ticket
ASSUME CrashAssumption == MaxCrash \in Nat

VARIABLES
  status,   \* actions.status
  row,      \* positions.status by mt5_ticket; "none": no row
  resize,   \* actions whose payload has a resize_seq the EA has not applied
  order,    \* the broker's side: limit orders become positions or are dropped
  origin,   \* the action a ticket was ordered for
  at,       \* where OnTimer is
  todo,     \* what the loop it is in has yet to visit
  job,      \* the action in hand, the ticket or result to come
  tracked,  \* order tickets in g_pending_orders, kept in global variables
  retry,    \* ct_retry files: the queued body of each action's result URL
  recent,   \* g_recent_opens within its grace period
  seen,     \* positions the terminal's table shows, when it lags
  warm,     \* ReconcileWarmupSec have passed since OnInit
  crashes

db == <<status, row, resize>>
broker == <<order, origin>>
memory == <<tracked, retry, recent>>
control == <<at, todo, job>>
terminal == <<seen, warm, crashes>>
vars == <<status, row, resize, order, origin, at, todo, job,
          tracked, retry, recent, seen, warm, crashes>>

-----------------------------------------------------------------------------
Status == {"sent", "claimed", "watching", "executed", "rejected", "failed"}
At == {"down", "manage", "replace", "execute", "won", "placed", "report",
       "reconcile", "drain"}
Net == {"answered", "lost", "unsent"}

(* A result body: a status, and the leg of an executed one. *)
Body == [status : {"executed", "rejected", "failed", "watching"},
         ticket : Ticket \cup {NULL}]
Say(s) == [status |-> s, ticket |-> NULL]
Executed(t) == [status |-> "executed", ticket |-> t]

(* back: the loop to return to. *)
Job == [act : Action, ticket : Ticket \cup {NULL}, body : Body \cup {NULL},
        back : {"manage", "execute"}]

Open(t) == order[t] = "open"

(* PositionSelectByTicket, and the rows PositionsTotal counts. *)
Visible(t) == Open(t) /\ (Lag => t \in seen)

Init ==
  /\ status = [a \in Action |-> "sent"]
  /\ row = [t \in Ticket |-> "none"]
  /\ resize = {}
  /\ order = [t \in Ticket |-> "unused"]
  /\ origin = [t \in Ticket |-> NULL]
  /\ at = "manage" /\ todo = {} /\ job = NULL
  /\ tracked = {}
  /\ retry = [a \in Action |-> NULL]
  /\ recent = {} /\ seen = {} /\ warm = FALSE /\ crashes = 0

-----------------------------------------------------------------------------
(* The API.  POST /actions/{id}/result: one transaction; the leg's row only if *)
(* the ticket has none.                                                        *)
Accepts(a) == status[a] \in {"claimed", "watching"}

(* Status and position in two transactions, the bot stopping between them. *)
RecordApart(a, b) ==
  IF Accepts(a)
  THEN /\ status' = [status EXCEPT ![a] = b.status]
       /\ \/ UNCHANGED row
          \/ row' = [t \in Ticket |-> IF t = b.ticket /\ row[t] = "none" THEN "open" ELSE row[t]]
  ELSE UNCHANGED <<status, row>>

(* INSERT OR REPLACE. *)
RecordReplace(a, b) ==
  IF Accepts(a)
  THEN /\ status' = [status EXCEPT ![a] = b.status]
       /\ row' = [t \in Ticket |-> IF t = b.ticket THEN "open" ELSE row[t]]
  ELSE UNCHANGED <<status, row>>

Record(a, b) ==
  IF Accepts(a)
  THEN /\ status' = [status EXCEPT ![a] = b.status]
       /\ row' = [t \in Ticket |->
                   IF t = b.ticket /\ row[t] = "none" THEN "open" ELSE row[t]]
  ELSE UNCHANGED <<status, row>>

(* The EA's side of it: any answer below 500 is final; otherwise the body is   *)
(* queued, unless a file for the same URL exists.                              *)
Post(a, b, net) ==
  /\ IF net = "unsent" THEN UNCHANGED <<status, row>> ELSE Record(a, b)
  /\ retry' = IF net = "answered" \/ retry[a] # NULL
              THEN retry ELSE [retry EXCEPT ![a] = b]

-----------------------------------------------------------------------------
(* ManagePendingOrders, one tracked order.                                     *)
Managing(t) == at = "manage" /\ t \in todo /\ todo' = todo \ {t}

ManageFilled(t, net) ==
  /\ Managing(t) /\ Visible(t)
  /\ Post(origin[t], Executed(t), net)
  /\ recent' = recent \cup {t}
  /\ tracked' = tracked \ {t}
  /\ UNCHANGED <<resize, broker, at, job, terminal>>

(* A status the API does not know. *)
VanishedCancelled(t, net) ==
  /\ Managing(t) /\ ~Visible(t) /\ order[t] # "limit"
  /\ Post(origin[t], Say("cancelled"), net)
  /\ tracked' = tracked \ {t}
  /\ UNCHANGED <<resize, broker, at, job, recent, terminal>>

(* Neither a position nor an order. *)
ManageVanished(t, net) ==
  /\ Managing(t) /\ ~Visible(t) /\ order[t] # "limit"
  /\ Post(origin[t], Say("rejected"), net)
  /\ tracked' = tracked \ {t}
  /\ UNCHANGED <<resize, broker, at, job, recent, terminal>>

(* Polled less than 10 s ago, the poll failed, or nothing new. *)
ManageWaits(t) ==
  /\ Managing(t) /\ order[t] = "limit"
  /\ UNCHANGED <<db, broker, at, job, memory, terminal>>

(* The row was rejected by CANCEL_PENDING: the order is deleted, or refuses to *)
(* be, and forgotten.                                                          *)
ManageCancelled(t) ==
  /\ Managing(t) /\ order[t] = "limit"
  /\ origin[t] \notin resize /\ status[origin[t]] = "rejected"
  /\ \/ order' = [order EXCEPT ![t] = "dropped"]
     \/ UNCHANGED order
  /\ tracked' = tracked \ {t}
  /\ UNCHANGED <<db, origin, at, job, retry, recent, terminal>>

ResizeInfeasible(t, net) ==
  /\ Managing(t) /\ order[t] = "limit" /\ origin[t] \in resize
  /\ Post(origin[t], Say("failed"), net)
  /\ resize' = resize \ {origin[t]}
  /\ UNCHANGED <<broker, at, job, tracked, recent, terminal>>

ResizeDelete(t) ==
  /\ Managing(t) /\ order[t] = "limit" /\ origin[t] \in resize
  /\ order' = [order EXCEPT ![t] = "dropped"]
  /\ tracked' = tracked \ {t}
  /\ at' = "replace"
  /\ job' = [act |-> origin[t], ticket |-> NULL, body |-> NULL, back |-> "manage"]
  /\ UNCHANGED <<db, origin, retry, recent, terminal>>

-----------------------------------------------------------------------------
(* PollAndExecute.  The GET fails, the EA is halted, or it gets every row that *)
(* is 'sent' now.                                                              *)
Poll ==
  /\ at = "manage" /\ todo = {}
  /\ at' = "execute"
  /\ todo' \in {{}, {a \in Action : status[a] = "sent"}}
  /\ UNCHANGED <<db, broker, job, memory, terminal>>

(* ClaimAction: executed only on an answered success; a claim whose answer is  *)
(* lost is skipped.                                                            *)
Claim(a, net) ==
  /\ at = "execute" /\ a \in todo
  /\ todo' = todo \ {a}
  /\ status' = IF net # "unsent" /\ status[a] = "sent"
               THEN [status EXCEPT ![a] = "claimed"] ELSE status
  /\ IF net = "answered" /\ status[a] = "sent"
     THEN /\ at' = "won"
          /\ job' = [act |-> a, ticket |-> NULL, body |-> NULL, back |-> "execute"]
     ELSE UNCHANGED <<at, job>>
  /\ UNCHANGED <<row, resize, broker, memory, terminal>>

(* What is to be posted next. *)
Reporting(b) == at' = "report" /\ job' = [job EXCEPT !.body = b]

(* Counting the rows instead of the positions. *)
SomeRowOpen == \E t \in Ticket : row[t] = "open"

(* CountOurOpenPositions: positions, not orders. *)
SomeOpen == \E t \in Ticket : Visible(t)

RejectOpen ==
  /\ at = "won" /\ SomeOpen
  /\ Reporting(Say("rejected"))
  /\ UNCHANGED <<db, broker, todo, memory, terminal>>

(* DoOpen or the replacement of a resized order is refused: the price, the lot *)
(* size, the evaluation, the broker.                                           *)
Refuse ==
  /\ \/ at = "won" /\ ~SomeOpen
     \/ at = "replace"
  /\ \E s \in {"rejected", "failed"} : Reporting(Say(s))
  /\ UNCHANGED <<db, broker, todo, memory, terminal>>

(* DoOpen at market. *)
MarketFill(t) ==
  /\ at = "won" /\ ~SomeOpen /\ job.act \notin Limit
  /\ order[t] = "unused"
  /\ order' = [order EXCEPT ![t] = "open"]
  /\ origin' = [origin EXCEPT ![t] = job.act]
  /\ recent' = recent \cup {t}
  /\ Reporting(Executed(t))
  /\ UNCHANGED <<db, todo, tracked, retry, terminal>>

(* DoOpen, pending: an order of this action is tracked already. *)
Placed == \E t \in tracked : origin[t] = job.act

Dedupe ==
  /\ at = "won" /\ ~SomeOpen /\ job.act \in Limit /\ Placed
  /\ Reporting(Say("watching"))
  /\ UNCHANGED <<db, broker, todo, memory, terminal>>

(* PlacePendingLimit without the guard of 2026-05-27. *)
PlaceAgain(t) ==
  /\ \/ at = "won" /\ ~SomeOpen /\ job.act \in Limit
     \/ at = "replace"
  /\ order[t] = "unused"
  /\ order' = [order EXCEPT ![t] = "limit"]
  /\ origin' = [origin EXCEPT ![t] = job.act]
  /\ at' = "placed"
  /\ job' = [job EXCEPT !.ticket = t]
  /\ UNCHANGED <<db, todo, memory, terminal>>

(* PlacePendingLimit, for a new action or a resized one: the broker call. *)
PlaceLimit(t) ==
  /\ \/ at = "won" /\ ~SomeOpen /\ job.act \in Limit /\ ~Placed
     \/ at = "replace"
  /\ order[t] = "unused"
  /\ order' = [order EXCEPT ![t] = "limit"]
  /\ origin' = [origin EXCEPT ![t] = job.act]
  /\ at' = "placed"
  /\ job' = [job EXCEPT !.ticket = t]
  /\ UNCHANGED <<db, todo, memory, terminal>>

(* PlacePendingLimit: the order and the sequence number are persisted. *)
Track ==
  /\ at = "placed"
  /\ tracked' = tracked \cup {job.ticket}
  /\ resize' = resize \ {job.act}
  /\ Reporting(Say("watching"))
  /\ UNCHANGED <<status, row, broker, todo, retry, recent, terminal>>

Report(net) ==
  /\ at = "report"
  /\ Post(job.act, job.body, net)
  /\ at' = job.back
  /\ job' = NULL
  /\ UNCHANGED <<resize, broker, todo, tracked, recent, terminal>>

(* A management handler or a staged plan closes a position and posts /close,   *)
(* once.                                                                       *)
CloseByEa(t, net) ==
  /\ at \in {"manage", "execute"} /\ Visible(t)
  /\ order' = [order EXCEPT ![t] = "gone"]
  /\ row' = IF net # "unsent" /\ row[t] = "open"
            THEN [row EXCEPT ![t] = "closed"] ELSE row
  /\ seen' = seen \ {t}
  /\ UNCHANGED <<status, resize, origin, control, memory, warm, crashes>>

-----------------------------------------------------------------------------
(* ReconcileClosedPositions: skipped while warming up or if the GET fails.     *)
StartReconcile ==
  /\ at = "execute" /\ todo = {}
  /\ at' = "reconcile"
  /\ \/ todo' = {}
     \/ warm /\ todo' = {t \in Ticket : row[t] = "open" \/ Open(t)}
  /\ UNCHANGED <<db, broker, job, memory, terminal>>

(* Both passes without IsRecentlyOpened. *)
ReconciledHasty(t) ==
  IF row[t] = "open" /\ ~Visible(t) THEN "closed"
  ELSE IF row[t] = "none" /\ Visible(t) THEN "open"
  ELSE row[t]

(* The forward pass alone. *)
ReconciledForward(t) ==
  IF t \notin recent /\ row[t] = "open" /\ ~Visible(t) THEN "closed" ELSE row[t]

(* The forward pass closes the row of a ticket the terminal does not show; the *)
(* reverse pass posts a position without an open row to /positions/recover,    *)
(* which never reopens a closed row.                                           *)
Reconciled(t) ==
  IF t \in recent THEN row[t]
  ELSE IF row[t] = "open" /\ ~Visible(t) THEN "closed"
  ELSE IF row[t] = "none" /\ Visible(t) THEN "open"
  ELSE row[t]

Reconcile(t, net) ==
  /\ at = "reconcile" /\ t \in todo
  /\ todo' = todo \ {t}
  /\ row' = IF net = "unsent" THEN row ELSE [row EXCEPT ![t] = Reconciled(t)]
  /\ UNCHANGED <<status, resize, broker, at, job, memory, terminal>>

-----------------------------------------------------------------------------
(* DrainRetryQueue. *)
StartDrain ==
  /\ at = "reconcile" /\ todo = {}
  /\ at' = "drain"
  /\ todo' = {a \in Action : retry[a] # NULL}
  /\ UNCHANGED <<db, broker, job, memory, terminal>>

(* One file: purged on any answer below 500. *)
Drain(a, net) ==
  /\ at = "drain" /\ a \in todo
  /\ todo' = todo \ {a}
  /\ IF net = "unsent" THEN UNCHANGED <<status, row>> ELSE Record(a, retry[a])
  /\ retry' = IF net = "answered" THEN [retry EXCEPT ![a] = NULL] ELSE retry
  /\ UNCHANGED <<resize, broker, at, job, tracked, recent, terminal>>

(* A file older than 24 h is purged unsent. *)
DrainExpired(a) ==
  /\ at = "drain" /\ a \in todo
  /\ todo' = todo \ {a}
  /\ retry' = [retry EXCEPT ![a] = NULL]
  /\ UNCHANGED <<db, broker, at, job, tracked, recent, terminal>>

(* The next OnTimer. *)
StartManage ==
  /\ at = "drain" /\ todo = {}
  /\ at' = "manage"
  /\ todo' = tracked
  /\ UNCHANGED <<db, broker, job, memory, terminal>>

-----------------------------------------------------------------------------
(* The EA is stopped between two steps; files and global variables stay. *)
Crash ==
  /\ at # "down" /\ crashes < MaxCrash
  /\ crashes' = crashes + 1
  /\ at' = "down" /\ todo' = {} /\ job' = NULL
  /\ recent' = {} /\ seen' = {} /\ warm' = FALSE
  /\ UNCHANGED <<db, broker, tracked, retry>>

(* OnInit: LoadPersistedPendingOrders forgets the orders that are no longer    *)
(* pending.                                                                    *)
Restart ==
  /\ at = "down"
  /\ at' = "manage" /\ todo' = {t \in tracked : order[t] = "limit"}
  /\ tracked' = {t \in tracked : order[t] = "limit"}
  /\ UNCHANGED <<db, broker, job, retry, recent, terminal>>

(* The terminal's table catches up; the grace period and the warm-up are long  *)
(* enough for it to have done so.                                              *)
Refresh ==
  /\ Lag /\ at # "down"
  /\ seen' = {t \in Ticket : Open(t)}
  /\ UNCHANGED <<db, broker, control, memory, warm, crashes>>

GraceEnds(t) ==
  /\ t \in recent /\ (Open(t) => Visible(t))
  /\ recent' = recent \ {t}
  /\ UNCHANGED <<db, broker, control, tracked, retry, terminal>>

WarmedUp ==
  /\ at # "down" /\ ~warm
  /\ \A t \in Ticket : Open(t) => Visible(t)
  /\ warm' = TRUE
  /\ UNCHANGED <<db, broker, control, memory, seen, crashes>>

(* The broker. *)
LimitFills(t) ==
  /\ order[t] = "limit"
  /\ order' = [order EXCEPT ![t] = "open"]
  /\ UNCHANGED <<db, origin, control, memory, terminal>>

(* TP, SL, stop-out or the operator; an order deleted in the terminal. *)
OrderGone(t) ==
  /\ \/ order[t] = "limit" /\ order' = [order EXCEPT ![t] = "dropped"]
     \/ order[t] = "open" /\ order' = [order EXCEPT ![t] = "gone"]
  /\ seen' = seen \ {t}
  /\ UNCHANGED <<db, origin, control, memory, warm, crashes>>

(* release_stale_claims, long after any EA still working on the claim.  *)
Recycle(a) ==
  /\ status[a] = "claimed"
  /\ job # NULL => job.act # a
  /\ status' = [status EXCEPT ![a] = "sent"]
  /\ UNCHANGED <<row, resize, broker, control, memory, terminal>>

(* CANCEL_PENDING; the EA trades one symbol. *)
CancelPending ==
  /\ \E a \in Action : status[a] = "watching"
  /\ status' = [a \in Action |-> IF status[a] = "watching" THEN "rejected" ELSE status[a]]
  /\ UNCHANGED <<row, resize, broker, control, memory, terminal>>

(* POST /actions/{id}/resize_pending *)
RequestResize(a) ==
  /\ status[a] = "watching" /\ a \notin resize
  /\ resize' = resize \cup {a}
  /\ UNCHANGED <<status, row, broker, control, memory, terminal>>

-----------------------------------------------------------------------------
ManageOrder(t) ==
  \/ ManageWaits(t) \/ ManageCancelled(t) \/ ResizeDelete(t)
  \/ \E net \in Net : ManageFilled(t, net) \/ ManageVanished(t, net) \/ ResizeInfeasible(t, net)

Execute ==
  \/ \E a \in Action, net \in Net : Claim(a, net)
  \/ RejectOpen \/ Refuse \/ Dedupe \/ Track
  \/ \E t \in Ticket : MarketFill(t) \/ PlaceLimit(t)
  \/ \E net \in Net : Report(net)

(* What OnTimer does next; it always gets to the end of a round. *)
OnTimer ==
  \/ \E t \in Ticket : ManageOrder(t)
  \/ Poll \/ Execute \/ StartReconcile
  \/ \E t \in Ticket, net \in Net : Reconcile(t, net)
  \/ StartDrain
  \/ \E a \in Action, net \in Net : Drain(a, net)
  \/ \E a \in Action : DrainExpired(a)
  \/ StartManage

Terminal ==
  \/ Crash \/ Restart \/ Refresh \/ WarmedUp
  \/ \E t \in Ticket : GraceEnds(t)
  \/ \E t \in Ticket, net \in Net : CloseByEa(t, net)

Broker == \E t \in Ticket : LimitFills(t) \/ OrderGone(t)

Backend == CancelPending \/ \E a \in Action : Recycle(a) \/ RequestResize(a)

Next == OnTimer \/ Terminal \/ Broker \/ Backend

Spec == Init /\ [][Next]_vars

(* The timer keeps firing and MetaTrader restarts a stopped EA; the table      *)
(* catches up; warm-up and grace end.  The API is reachable again and again:   *)
(* strong fairness of the answered calls.                                      *)
Fairness ==
  /\ WF_vars(OnTimer) /\ WF_vars(Restart)
  /\ WF_vars(Refresh) /\ WF_vars(WarmedUp)
  /\ \A t \in Ticket : WF_vars(GraceEnds(t))
  /\ SF_vars(StartReconcile /\ todo' # {})
  /\ \A t \in Ticket : SF_vars(Reconcile(t, "answered"))
  /\ \A a \in Action : SF_vars(Drain(a, "answered"))

FairSpec == Spec /\ Fairness

-----------------------------------------------------------------------------
(* Properties. *)

(* Every variable keeps its domain, the EA's place in its loops included.      *)
TypeOK ==
  /\ status \in [Action -> Status]
  /\ row \in [Ticket -> {"none", "open", "closed"}]
  /\ resize \subseteq Action
  /\ order \in [Ticket -> {"unused", "limit", "dropped", "open", "gone"}]
  /\ origin \in [Ticket -> Action \cup {NULL}]
  /\ at \in At
  /\ todo \subseteq Ticket \/ todo \subseteq Action
  /\ job \in Job \cup {NULL}
  /\ tracked \subseteq Ticket
  /\ retry \in [Action -> Body \cup {NULL}]
  /\ recent \subseteq Ticket /\ seen \subseteq Ticket
  /\ warm \in BOOLEAN
  /\ crashes \in 0 .. MaxCrash

(* No position is struck off the table while it lives at the broker, however   *)
(* the terminal's table lags and whenever the EA restarts: the false close of  *)
(* 2026-05-07 (ea/CopyTrades.mq5:2173), after which nothing would ever reopen  *)
(* the row.                                                                    *)
LiveNeverClosed == \A t \in Ticket : row[t] = "closed" => ~Open(t)

(* An order the EA tracks is the only one it tracks for its action: a recycled *)
(* claim never doubles it (ea/CopyTrades.mq5:1662).                            *)
TrackedOnce ==
  \A t, u \in tracked : origin[t] = origin[u] => t = u

(* An action recorded as executed has a position on record that was ordered    *)
(* for it, whichever of result, retry and recovery came first (api.py:462).    *)
ExecutedRecorded ==
  \A a \in Action : status[a] = "executed" =>
    \E t \in Ticket : origin[t] = a /\ row[t] # "none"

(* At most one position at a time (ea/CopyTrades.mq5:1307).                    *)
SinglePosition == \A t, u \in Ticket : Open(t) /\ Open(u) => t = u

Live == [t \in Ticket |-> IF order[t] \in {"open", "gone"} THEN order[t] ELSE "never"]

Book == INSTANCE PositionBook WITH live <- Live, book <- row

(* The table is kept as PositionBook promises: no phantom entry, no false      *)
(* close, nothing entered twice.                                               *)
BookKept == Book!Spec

(* And it follows the account: a live position is eventually entered, a closed *)
(* one struck off, whichever posts are lost (ea/CopyTrades.mq5:3351).          *)
BookFollows == Book!FairSpec

(* promoter.py:75: recycling an OPEN to 'sent' is safe, no duplicate fires.    *)
OneOrderPerAction ==
  \A t, u \in Ticket : origin[t] # NULL /\ origin[t] = origin[u] => t = u

(* ea/CopyTrades.mq5:4306: a watching row whose order has gone is dealt with.  *)
WatchResolved ==
  \A a \in Action :
    (status[a] = "watching" /\ \A t \in Ticket : origin[t] = a => order[t] \in {"dropped", "gone"})
      ~> status[a] # "watching"
=============================================================================
