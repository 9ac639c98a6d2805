--------------------------- MODULE Notifications ---------------------------
(***************************************************************************)
(* What the operator is told.  The API writes one bot_outbox row per       *)
(* binding of an event (notification_dispatcher.py).  The bot process of a *)
(* destination decides when it starts how it tells the operator: as the    *)
(* tailer of its outbox rows (bot_outbox_tailer.py), or, without a         *)
(* binding, by polling actions and positions itself                        *)
(* (bot_loops/notification.py).  Both send first and mark afterwards.      *)
(*                                                                         *)
(* Other modules say how an action gets its status; here it is a choice.   *)
(***************************************************************************)
EXTENDS Integers, Sequences, FiniteSets

LOCAL INSTANCE SequencesExt
LOCAL INSTANCE FiniteSetsExt

CONSTANTS
  Db,          \* the databases, one per destination
  Home,        \* the one this bot process belongs to
  Routes,      \* enabled routes, [id, channel, dest]
  Configs,     \* binding lists the operator may put in force
  Batch,       \* the LIMIT of a poll
  None,
  MaxRows, MaxBook, MaxOutbox,   \* rows of each table, all databases together
  MaxNoop, MaxFails, MaxStops, MaxEdits

Bindings == UNION {ToSet(c) : c \in Configs}
Channels == {r.channel : r \in Routes} \cup {None}
Events == {"action_terminal", "alert", "position_closed"}

ASSUME NotificationsAssumption ==
  /\ IsFiniteSet(Db) /\ Home \in Db
  /\ Configs # {} /\ Configs \subseteq Seq(Bindings)
  /\ None \notin Nat
  /\ {MaxRows, MaxBook, MaxOutbox, MaxNoop, MaxFails, MaxStops, MaxEdits} \subseteq Nat
  /\ Batch \in Nat \ {0} /\ MaxNoop < Batch

VARIABLES
  bindings,   \* bot_bindings of the configuration file
  rows,       \* actions of each database
  book,       \* its positions
  outbox,     \* its bot_outbox
  owed,       \* events committed, dispatch_notification still to run
  cursor,     \* settings.position_close_last_notified_id of Home, or None
  bot,        \* the bot process: how it tells, as whom, of which databases
  task,        \* what its dispatcher or tailer has read and not yet sent
  closer,     \* what position_close_notifier has
  told,       \* how often the operator was sent each message
  fails, stops, torn, edits

api == <<rows, book, outbox, owed>>
process == <<bot, task, closer>>
noticeVars == <<bindings, api, cursor, process, told, fails, stops, torn, edits>>

Round(phase, todo) == [phase |-> phase, db |-> Home, todo |-> todo, left |-> {}]
Idle == Round("idle", {})
Off == [mode |-> "off", id |-> None, conns |-> {}]

Messages ==
  {<<"dm", d, k>> : d \in Db, k \in 1 .. MaxOutbox}
  \cup {<<what, Home, i>> : what \in {"outcome", "review"}, i \in 1 .. MaxRows}
  \cup {<<"closed", Home, p>> : p \in 1 .. MaxBook}

(* The rows a table has in all databases, as far as its bound allows. *)
Total(table, bound) == Cardinality({e \in Db \X (1 .. bound) : e[2] \in DOMAIN table[e[1]]})

NoticeInit ==
  /\ bindings \in Configs
  /\ rows = [d \in Db |-> <<>>]
  /\ book = [d \in Db |-> <<>>]
  /\ outbox = [d \in Db |-> <<>>]
  /\ owed = {}
  /\ cursor = None
  /\ bot = Off /\ task = Idle /\ closer = {}
  /\ told = [m \in Messages |-> 0]
  /\ fails = 0 /\ stops = 0 /\ torn = 0 /\ edits = 0

-----------------------------------------------------------------------------
(* Who is told of an event: bindings_for_destination and the filter of     *)
(* dispatch_notification.                                                  *)

Reaches(b, d) ==
  \/ b.scope = "global"
  \/ b.scope = "destination" /\ b.of = d
  \/ b.scope = "channel" /\ \E r \in Routes : r.channel = b.of /\ r.dest = d
  \/ b.scope = "route" /\ \E r \in Routes : r.id = b.of /\ r.dest = d

RouteOf(d, channel) ==
  LET rs == {r \in Routes : r.channel = channel /\ r.dest = d}
  IN  IF rs = {} THEN None ELSE (CHOOSE r \in rs : TRUE).id

Matches(b, d, channel) ==
  /\ Reaches(b, d)
  /\ b.scope = "channel" => channel # None /\ b.of = channel
  /\ b.scope = "route" => RouteOf(d, channel) # None /\ b.of = RouteOf(d, channel)

Listeners(d, channel) == {n \in DOMAIN bindings : Matches(bindings[n], d, channel)}

(* The first of the destination's own bindings, else the first for all.    *)
ResolveBot(d) ==
  LET Scoped(s) == {n \in DOMAIN bindings : bindings[n].scope = s /\ Reaches(bindings[n], d)}
      first     == IF Scoped("destination") # {} THEN Scoped("destination") ELSE Scoped("global")
  IN  IF first = {} THEN None ELSE bindings[Min(first)].bot

DestinationsFor(id) ==
  {d \in Db : \E b \in ToSet(bindings) : b.bot = id /\ Reaches(b, d)}

Conns(id) ==
  IF Cardinality(DestinationsFor(id)) <= 1 THEN {Home} ELSE {Home} \cup DestinationsFor(id)

-----------------------------------------------------------------------------
(* The API, the EA and the operator: rows change, events become due.       *)

Event(d, what, action, position) ==
  [db |-> d, event |-> what, action |-> action, position |-> position]

Final(row) == row.status = "terminal"

(* A live row is dated, sent or claimed; a parked one waits undated for    *)
(* the operator.                                                           *)
NewRow(status, channel) ==
  [status |-> status, review |-> status = "parked", noop |-> FALSE,
   notified |-> FALSE, channel |-> channel, reports |-> 0]

(* _persist_actions: a dated row, one parked for review, or one decided at *)
(* once, which no event announces.                                         *)
Insert(d) ==
  /\ Total(rows, MaxRows) < MaxRows
  /\ \E channel \in Channels :
       \E status \in {"live", "parked", "terminal"} :
         rows' = [rows EXCEPT ![d] = Append(@, NewRow(status, channel))]
  /\ UNCHANGED <<bindings, book, outbox, owed, cursor, process, told, fails, stops, torn, edits>>

(* post_alert, and recover_position, which enters a position as well.      *)
Alert(d) ==
  /\ Total(rows, MaxRows) < MaxRows
  /\ rows' = [rows EXCEPT ![d] = Append(@, NewRow("terminal", None))]
  /\ owed' = owed \cup {Event(d, "alert", Len(rows[d]) + 1, 0)}
  /\ \/ UNCHANGED book
     \/ /\ Total(book, MaxBook) < MaxBook
        /\ book' = [book EXCEPT ![d] = Append(@, [action |-> 0, open |-> TRUE])]
  /\ UNCHANGED <<bindings, outbox, cursor, process, told, fails, stops, torn, edits>>

(* post_result: watching, a no-op, or the outcome, with its position.      *)
Noops == {e \in Db \X (1 .. MaxRows) : e[2] \in DOMAIN rows[e[1]] /\ rows[e[1]][e[2]].noop}

Answered(row, status) == [row EXCEPT !.status = status, !.reports = @ + 1]

Settle(d, i) ==
  /\ rows[d][i].status \in {"live", "watching"}
  /\ \/ /\ rows[d][i].status = "live"
        /\ rows' = [rows EXCEPT ![d][i] = Answered(@, "watching")]
        /\ UNCHANGED book
     \/ /\ Cardinality(Noops) < MaxNoop /\ rows[d][i].status = "live"
        /\ rows' = [rows EXCEPT ![d][i] = [Answered(@, "terminal") EXCEPT !.noop = TRUE]]
        /\ UNCHANGED book
     \/ /\ rows' = [rows EXCEPT ![d][i] = Answered(@, "terminal")]
        /\ \/ UNCHANGED book
           \/ /\ Total(book, MaxBook) < MaxBook
              /\ book' = [book EXCEPT ![d] = Append(@, [action |-> i, open |-> TRUE])]
  /\ owed' = owed \cup {Event(d, "action_terminal", i, 0)}
  /\ UNCHANGED <<bindings, outbox, cursor, process, told, fails, stops, torn, edits>>

(* The sweepers fail an action without an event, a signal or the operator  *)
(* withdraws one; the operator re-arms or skips a parked one.              *)
Decide(d, i) ==
  /\ \/ /\ rows[d][i].status \in {"live", "parked"}
        /\ \E s \in {"terminal", "cancelled"} : rows' = [rows EXCEPT ![d][i].status = s]
     \/ rows[d][i].status = "parked" /\ rows' = [rows EXCEPT ![d][i].status = "live"]
  /\ UNCHANGED <<bindings, book, outbox, owed, cursor, process, told, fails, stops, torn, edits>>

ClosePosition(d, p) ==
  /\ book[d][p].open
  /\ book' = [book EXCEPT ![d][p].open = FALSE]
  /\ owed' = owed \cup {Event(d, "position_closed", book[d][p].action, p)}
  /\ UNCHANGED <<bindings, rows, outbox, cursor, process, told, fails, stops, torn, edits>>

(* The numbers of a set in their order.                                    *)
InOrder(S) == {f \in [1 .. Cardinality(S) -> S] : \A m, n \in DOMAIN f : m < n => f[m] < f[n]}

(* dispatch_notification, after the COMMIT; a stop of the API forgets it.  *)
Dispatch(e) ==
  LET channel == IF e.event = "alert" \/ e.action = 0 THEN None
                 ELSE rows[e.db][e.action].channel
      to      == Listeners(e.db, channel)
  IN  /\ Total(outbox, MaxOutbox) + Cardinality(to) <= MaxOutbox
      /\ owed' = owed \ {e}
      /\ \E order \in InOrder(to) :
           outbox' = [outbox EXCEPT ![e.db] = @ \o
             [n \in 1 .. Cardinality(to) |->
                [bot |-> bindings[order[n]].bot, event |-> e.event, action |-> e.action,
                 delivered |-> FALSE]]]
      /\ UNCHANGED <<bindings, rows, book, cursor, process, told, fails, stops, torn, edits>>

ApiCrash ==
  /\ owed # {} /\ stops < MaxStops
  /\ owed' = {}
  /\ stops' = stops + 1
  /\ UNCHANGED <<bindings, rows, book, outbox, cursor, process, told, fails, torn, edits>>

EditBindings ==
  /\ edits < MaxEdits
  /\ \E c \in Configs \ {bindings} : bindings' = c
  /\ edits' = edits + 1
  /\ UNCHANGED <<api, cursor, process, told, fails, stops, torn>>
-----------------------------------------------------------------------------
(* The bot process starts: recover_orphan_pending_actions parks the live   *)
(* rows that are still pending (its messages are not counted), then        *)
(* post_init takes one of the two ways and passes over what has piled up.  *)

LiveRows == {i \in DOMAIN rows[Home] : rows[Home][i].status = "live"}
Recovered(pending) ==
  [i \in DOMAIN rows[Home] |->
     IF i \in pending THEN [rows[Home][i] EXCEPT !.status = "parked"] ELSE rows[Home][i]]

(* mark_existing_delivered.                                                *)
StartTailer ==
  LET id == ResolveBot(Home)
  IN  /\ bot.mode = "off" /\ id # None
      /\ bot' = [mode |-> "tailer", id |-> id, conns |-> Conns(id)]
      /\ \E pending \in SUBSET LiveRows : rows' = [rows EXCEPT ![Home] = Recovered(pending)]
      /\ outbox' = [d \in Db |-> [k \in DOMAIN outbox[d] |->
                      IF d \in Conns(id) /\ outbox[d][k].bot = id
                      THEN [outbox[d][k] EXCEPT !.delivered = TRUE] ELSE outbox[d][k]]]
      /\ UNCHANGED <<bindings, book, owed, cursor, task, closer, told, fails, stops, torn, edits>>

Closed == {p \in DOMAIN book[Home] : ~book[Home][p].open}

StartLegacy ==
  /\ bot.mode = "off" /\ ResolveBot(Home) = None
  /\ bot' = [mode |-> "legacy", id |-> None, conns |-> {}]
  /\ \E pending \in SUBSET LiveRows :
       rows' = [rows EXCEPT ![Home] = [i \in DOMAIN @ |->
                  LET r == Recovered(pending)[i]
                  IN  IF Final(r) THEN [r EXCEPT !.notified = TRUE] ELSE r]]
  /\ IF cursor = None THEN cursor' \in {p \in Closed \cup {0} : \A q \in Closed : q <= p}
     ELSE UNCHANGED cursor
  /\ UNCHANGED <<bindings, book, outbox, owed, task, closer, told, fails, stops, torn, edits>>

Halt ==
  /\ bot' = Off /\ task' = Idle /\ closer' = {}

Stop ==
  /\ bot.mode # "off" /\ stops < MaxStops
  /\ Halt
  /\ stops' = stops + 1
  /\ UNCHANGED <<bindings, api, cursor, told, fails, torn, edits>>

-----------------------------------------------------------------------------
(* A message to the operator: it arrives and done is carried out, or it    *)
(* arrives and the bot stops at once, or it fails.                         *)

Sent(m) ==
  /\ told' = [told EXCEPT ![m] = @ + 1]
  /\ UNCHANGED <<bot, fails, stops, torn>>

SentAndStopped(m) ==
  /\ stops < MaxStops
  /\ told' = [told EXCEPT ![m] = @ + 1]
  /\ stops' = stops + 1 /\ torn' = torn + 1
  /\ Halt
  /\ UNCHANGED <<bindings, api, cursor, fails, edits>>

Failed ==
  /\ fails < MaxFails
  /\ fails' = fails + 1
  /\ UNCHANGED <<told, bot, stops, torn>>

(* The LIMIT of a query in the order of the ids, and the next of what it   *)
(* has found.                                                              *)
FirstBatch(S) == {k \in S : Cardinality({j \in S : j < k}) < Batch}
Least(S) == {k \in S : \A j \in S : k <= j}

(* OutboxTailer._tick: the databases one after the other.                  *)
QueueDelivered(d) ==
  {k \in FirstBatch({j \in DOMAIN outbox[d] : outbox[d][j].bot = bot.id}) : ~outbox[d][k].delivered}
Queue(d) == FirstBatch({k \in DOMAIN outbox[d] : outbox[d][k].bot = bot.id /\ ~outbox[d][k].delivered})

TailerPoll ==
  LET ready == {d \in bot.conns : Queue(d) # {}}
      left  == IF task.left \cap ready = {} THEN ready ELSE task.left \cap ready
  IN  /\ bot.mode = "tailer" /\ task.phase = "idle"
      /\ \E d \in left :
           task' = [phase |-> "outbox", db |-> d, left |-> left \ {d}, todo |-> Queue(d)]
      /\ UNCHANGED <<bindings, api, cursor, bot, closer, told, fails, stops, torn, edits>>

Served(k) == IF task.todo = {k} THEN [task EXCEPT !.phase = "idle", !.db = Home, !.todo = {}]
                               ELSE [task EXCEPT !.todo = @ \ {k}]

(* _render has nothing to say of a no-op, and the row stays as it is.      *)
Silent(r) == r.event = "action_terminal" /\ rows[task.db][r.action].noop

DeliveredAtHome(d, k) ==
  LET a == outbox[d][k].action
  IN  /\ outbox' = [outbox EXCEPT ![Home] = [j \in DOMAIN @ |->
                      IF j = k THEN [@[j] EXCEPT !.delivered = TRUE] ELSE @[j]]]
      /\ rows' = IF a = 0 THEN rows ELSE [rows EXCEPT ![d][a].notified = TRUE]

Delivered(d, k) ==
  LET a == outbox[d][k].action
  IN  /\ outbox' = [outbox EXCEPT ![d][k].delivered = TRUE]
      /\ rows' = IF a = 0 THEN rows ELSE [rows EXCEPT ![d][a].notified = TRUE]

NotSentMarked(d, k) == Failed /\ Delivered(d, k)
NotSent(d, k) == Failed /\ UNCHANGED <<rows, outbox>>

DeliverOne ==
  /\ task.phase = "outbox"
  /\ \E k \in Least(task.todo) :
       LET d == task.db
       IN  \/ /\ Silent(outbox[d][k])
              /\ task' = Served(k)
              /\ UNCHANGED <<bindings, api, cursor, bot, closer, told, fails, stops, torn, edits>>
           \/ /\ ~Silent(outbox[d][k])
              /\ \/ /\ Sent(<<"dm", d, k>>) /\ Delivered(d, k) /\ task' = Served(k)
                    /\ UNCHANGED <<bindings, book, owed, cursor, closer, edits>>
                 \/ SentAndStopped(<<"dm", d, k>>)
                 \/ /\ NotSent(d, k) /\ task' = Served(k)
                    /\ UNCHANGED <<bindings, book, owed, cursor, closer, edits>>

(* notification_dispatcher: rows parked for review, then outcomes.         *)
Untold == {i \in DOMAIN rows[Home] : ~rows[Home][i].notified}
Parked == FirstBatch({i \in Untold : rows[Home][i].status = "parked" /\ rows[Home][i].review})
OutcomesUnreviewed == FirstBatch({i \in Untold : Final(rows[Home][i]) /\ ~rows[Home][i].review})
Outcomes == FirstBatch({i \in Untold : Final(rows[Home][i])})

PollParked ==
  /\ bot.mode = "legacy" /\ task.phase = "idle" /\ Parked # {}
  /\ task' = Round("parked", Parked)
  /\ UNCHANGED <<bindings, api, cursor, bot, closer, told, fails, stops, torn, edits>>

PollOutcomes ==
  /\ bot.mode = "legacy"
  /\ \/ task.phase = "asked"
     \/ task.phase = "idle" /\ Parked = {} /\ Outcomes # {}
  /\ task' = IF Outcomes = {} THEN Idle ELSE Round("outcomes", Outcomes)
  /\ UNCHANGED <<bindings, api, cursor, bot, closer, told, fails, stops, torn, edits>>

Asked(i) == IF task.todo = {i} THEN Round("asked", {}) ELSE [task EXCEPT !.todo = @ \ {i}]
Notified(i) == rows' = [rows EXCEPT ![Home][i].notified = TRUE]

(* A message that fails leaves its row for the next round.                 *)
AskReview ==
  /\ task.phase = "parked"
  /\ \E i \in Least(task.todo) :
       \/ /\ Sent(<<"review", Home, i>>) /\ Notified(i) /\ task' = Asked(i)
          /\ UNCHANGED <<bindings, book, outbox, owed, cursor, closer, edits>>
       \/ SentAndStopped(<<"review", Home, i>>)
       \/ /\ Failed /\ task' = Asked(i)
          /\ UNCHANGED <<bindings, api, cursor, closer, edits>>

(* A no-op is marked unsent; a failure ends the round.                     *)
TellOutcome ==
  /\ task.phase = "outcomes"
  /\ \E i \in Least(task.todo) :
       \/ /\ rows[Home][i].noop /\ Notified(i) /\ task' = Served(i)
          /\ UNCHANGED <<bindings, book, outbox, owed, cursor, bot, closer, told, fails, stops, torn, edits>>
       \/ /\ ~rows[Home][i].noop
          /\ \/ /\ Sent(<<"outcome", Home, i>>) /\ Notified(i) /\ task' = Served(i)
                /\ UNCHANGED <<bindings, book, outbox, owed, cursor, closer, edits>>
             \/ SentAndStopped(<<"outcome", Home, i>>)
             \/ /\ Failed /\ task' = Idle
                /\ UNCHANGED <<bindings, api, cursor, closer, edits>>

(* position_close_notifier.                                                *)
Unreported == {p \in Closed : p > cursor}

PollCloses ==
  /\ bot.mode = "legacy" /\ closer = {} /\ Unreported # {}
  /\ closer' = FirstBatch(Unreported)
  /\ UNCHANGED <<bindings, api, cursor, bot, task, told, fails, stops, torn, edits>>

TellClose ==
  \E p \in Least(closer) :
    \/ /\ Sent(<<"closed", Home, p>>) /\ cursor' = p /\ closer' = closer \ {p}
       /\ UNCHANGED <<bindings, api, task, edits>>
    \/ SentAndStopped(<<"closed", Home, p>>)
    \/ /\ Failed /\ closer' = {}
       /\ UNCHANGED <<bindings, api, cursor, task, edits>>

-----------------------------------------------------------------------------
Dispatcher == \/ TailerPoll \/ DeliverOne
              \/ PollParked \/ PollOutcomes \/ AskReview \/ TellOutcome
Closer == PollCloses \/ TellClose
World ==
  \/ \E d \in Db :
       \/ Insert(d) \/ Alert(d)
       \/ \E i \in DOMAIN rows[d] : Settle(d, i) \/ Decide(d, i)
       \/ \E p \in DOMAIN book[d] : ClosePosition(d, p)
  \/ ApiCrash \/ EditBindings \/ Stop
Api == \E e \in owed : Dispatch(e)

NoticeNext == Dispatcher \/ Closer \/ StartTailer \/ StartLegacy \/ Api \/ World

NoticeSpec == NoticeInit /\ [][NoticeNext]_noticeVars

(* The service manager restarts the bot, its tasks run for ever, the API   *)
(* finishes a request.                                                     *)
FairNotices ==
  /\ NoticeSpec
  /\ WF_noticeVars(StartTailer \/ StartLegacy)
  /\ WF_noticeVars(Dispatcher) /\ WF_noticeVars(Closer) /\ WF_noticeVars(Api)
-----------------------------------------------------------------------------
(* Properties. *)

Rows == [status : {"live", "parked", "watching", "terminal", "cancelled"}, review : BOOLEAN, noop : BOOLEAN, notified : BOOLEAN,
         channel : Channels, reports : Nat]
Announcements == [db : Db, event : Events, action : Nat, position : Nat]
Ours == {b.bot : b \in Bindings}
Phases == {"idle", "outbox", "parked", "asked", "outcomes"}

(* Every table and each task keeps its domain, and a task has work in hand *)
(* only while the bot runs in the mode the task belongs to.                *)
NoticeTypeOK ==
  /\ bindings \in Configs
  /\ rows \in [Db -> Seq(Rows)]
  /\ book \in [Db -> Seq([action : Nat, open : BOOLEAN])]
  /\ outbox \in [Db -> Seq([bot : Ours, event : Events, action : Nat, delivered : BOOLEAN])]
  /\ owed \subseteq Announcements
  /\ cursor \in Nat \cup {None}
  /\ bot.mode \in {"off", "tailer", "legacy"} /\ bot.conns \subseteq Db
  /\ task \in [phase : Phases, db : Db, todo : SUBSET Nat, left : SUBSET Db]
  /\ closer \subseteq Nat
  /\ told \in [Messages -> Nat]
  /\ task.phase = "outbox" => bot.mode = "tailer"
  /\ task.phase \in {"parked", "asked", "outcomes"} \/ closer # {} => bot.mode = "legacy"
  /\ task.phase \in {"idle", "asked"} => task.todo = {}
  /\ {fails, stops, torn, edits} \subseteq Nat

About(i) == {k \in DOMAIN outbox[Home] : /\ outbox[Home][k].action = i
                                         /\ outbox[Home][k].event # "position_closed"}
Results(row) == IF row.reports = 0 THEN 1 ELSE row.reports   \* an alert is one
Announced(i) == {k \in About(i) : told[<<"dm", Home, k>>] > 0}

(* No two bindings of a bot take the same event (config_v2.py:853 admits   *)
(* such bindings, and a message then comes once for each).                 *)
BoundOnce ==
  \A c \in Configs : \A m, n \in DOMAIN c : \A d \in Db : \A channel \in Channels :
    Matches(c[m], d, channel) /\ Matches(c[n], d, channel) /\ c[m].bot = c[n].bot => m = n

(* However the bot is stopped and rebound, the operator hears once of each *)
(* result an action had, over both ways of telling together; only a stop   *)
(* between a message and its mark repeats one, and changed bindings, which *)
(* let it hear of an outcome both ways, one more.  An outbox row is told   *)
(* once even so: a start passes over what is unmarked                      *)
(* (mark_existing_delivered), and other messages are repeated by such      *)
(* stops alone.                                                            *)
ToldOnce ==
  /\ \A i \in DOMAIN rows[Home] :
       Cardinality(Announced(i)) + told[<<"outcome", Home, i>>]
         <= Results(rows[Home][i]) + torn + (IF edits = 0 THEN 0 ELSE 1)
  /\ \A m \in Messages : told[m] <= IF m[1] = "dm" THEN 1 ELSE 1 + torn

(* A row leaves the backlog without a message only when the bot starts, or *)
(* as a no-op.                                                             *)
Starts == bot.mode = "off" /\ bot'.mode \in {"tailer", "legacy"}
PassedOverOnlyAtStart ==
  [][/\ \A d \in Db : \A k \in DOMAIN outbox[d] :
          ~outbox[d][k].delivered /\ outbox'[d][k].delivered
          => Starts \/ told'[<<"dm", d, k>>] > 0
     /\ \A i \in DOMAIN rows[Home] :
          Final(rows[Home][i]) /\ ~rows[Home][i].notified /\ rows'[Home][i].notified
          => Starts \/ rows[Home][i].noop \/ told' # told]_noticeVars

Review(i) == i \in DOMAIN rows[Home] /\ rows[Home][i].review /\ rows[Home][i].status = "parked"

(* What the running bot has still to tell.                                 *)
Waiting ==
  CASE bot.mode = "tailer" ->
         UNION {{<<d, k>> : k \in {j \in DOMAIN outbox[d] :
                    LET r == outbox[d][j]
                    IN  /\ r.bot = bot.id /\ ~r.delivered
                        /\ ~(r.event = "action_terminal" /\ rows[d][r.action].noop)}} : d \in bot.conns}
    [] bot.mode = "legacy" ->
         {<<"row", i>> : i \in {j \in DOMAIN rows[Home] :
            ~rows[Home][j].notified /\ (Final(rows[Home][j]) \/ Review(j))}}
         \cup {<<"closed", p>> : p \in Unreported}
    [] OTHER -> {"start"}

(* Failed messages are repeated until nothing waits.                       *)
Drained == []<>(Waiting = {})

(* A result committed while the tailer of its binding runs reaches the     *)
(* operator, unless the API or the bot stops or the binding is changed.    *)
Listening(d, i) ==
  /\ bot.mode = "tailer" /\ d \in bot.conns /\ i \in DOMAIN rows[d]
  /\ Event(d, "action_terminal", i, 0) \in owed
  /\ \E n \in Listeners(d, rows[d][i].channel) : bindings[n].bot = bot.id
ResultReaches ==
  \A d \in Db : \A i \in 1 .. MaxRows :
    Listening(d, i) ~>
      (\/ stops > 0 \/ edits > 0
       \/ i \in DOMAIN rows[d] /\ rows[d][i].noop
       \/ \E k \in DOMAIN outbox[d] : outbox[d][k].action = i /\ told[<<"dm", d, k>>] > 0)

(* A row that a replay left for review is put to the operator.             *)
ReviewAsked ==
  \A i \in 1 .. MaxRows : Review(i) ~> (~Review(i) \/ told[<<"review", Home, i>>] > 0)
=============================================================================
