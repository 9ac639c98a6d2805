------------------------------ MODULE DbUpgrade ------------------------------
(***************************************************************************)
(* init_schema (db.py:22): what every service of a stack runs on the       *)
(* stack's database before it does anything else.  A database left by any  *)
(* earlier release is brought to the current schema by a fixed list of     *)
(* migrations.  Each looks at the schema and then runs the statements it   *)
(* found missing, in autocommit mode; only a rebuild of the actions table  *)
(* is one transaction.  Several services start at once, so a migration     *)
(* acts on a schema that another may have changed since it looked; any     *)
(* error ends the process, and the service manager starts it again.        *)
(*                                                                         *)
(* Of the schema: the CHECK of actions.action_type, which only ever grew,  *)
(* as a level; the CHECK of actions.status; the columns migrations add.    *)
(* Tables and indexes made IF NOT EXISTS and seeded settings are the same  *)
(* in any order and are left out, but for the one index that needs a       *)
(* dropped column.                                                         *)
(***************************************************************************)
EXTENDS Naturals, Sequences, FiniteSets, SequencesExt

CONSTANTS
  Service,    \* the processes that run init_schema; "api" is one
  MaxCrash    \* how often a service dies in the middle of it

VARIABLES
  schema,
  at,         \* the migration a service is at; 0: not running, Done: serving
  plan,       \* the statements its migration has yet to run
  legacy,     \* a row of the removed watch path an old release left
  order,      \* a pending-limit row of the current release
  settled,    \* history: all services have been serving at the same time
  crashed

dbvars == <<schema, at, plan, legacy, order, settled, crashed>>
rows == <<legacy, order>>

-----------------------------------------------------------------------------
(* Schemas. *)

Watch == {"watch_json", "expires_at"}

(* Columns a migration adds with ALTER TABLE, in its order. *)
Fingerprint == <<"fingerprint">>
MemoryChatId == <<"chat_id">>
PositionsState == <<"original_volume", "partial_close_count", "sl_moved_at">>
PositionsPnl == <<"exit_price", "realized_pnl">>
PositionsNaked == <<"is_naked", "naked_opened_at">>
PositionsRecovered == <<"recovered">>
MessagesSourceChannel == <<"messages_source_channel_id">>
ActionsRouting == <<"source_channel_id", "route_id">>
MessagesReplyTo == <<"reply_to_tg_message_id">>
MessagesPipeline == <<"decided_stage", "decided_outcome", "decided_at", "pipeline_meta_json">>
MessagesHasImage == <<"has_image">>

Adds ==
  [fingerprint |-> Fingerprint, memory_chat_id |-> MemoryChatId,
   positions_state |-> PositionsState, positions_pnl |-> PositionsPnl,
   positions_naked |-> PositionsNaked, positions_recovered |-> PositionsRecovered,
   messages_source_channel |-> MessagesSourceChannel, actions_routing |-> ActionsRouting,
   messages_reply_to |-> MessagesReplyTo, messages_pipeline |-> MessagesPipeline,
   messages_has_image |-> MessagesHasImage]

(* The actions table a rebuild makes: its two CHECKs, the columns copied from  *)
(* the old table, and what is new: columns left empty, the index on one.       *)
Table(types, status, copies, new) ==
  [types |-> types, status |-> status, copies |-> copies, new |-> new]

Claimed == {"claimed_at", "fingerprint"}

ForClaim == Table(0, {"claimed"}, {"claimed_at"}, {})
ForWatching == Table(0, {"claimed", "watching"}, Claimed, Watch)
Phase2Types == Table(1, {"claimed", "watching"}, Claimed \cup Watch, {"watch_index"})
ModifyTps == Table(2, {"claimed"}, Claimed, {})
InstantTypes == Table(3, {"claimed"}, Claimed, {})
CancelPending == Table(4, {"claimed", "watching"}, Claimed, {})

Rebuilds ==
  [claim |-> ForClaim, watching |-> ForWatching, phase2 |-> Phase2Types,
   modify_tps |-> ModifyTps, instant |-> InstantTypes, cancel_pending |-> CancelPending]

ActionColumns == Claimed \cup Range(ActionsRouting) \cup Watch

AllColumns == (UNION {Range(Adds[m]) : m \in DOMAIN Adds}) \cup {"claimed_at"}

(* What schema.sql creates, and what every migration works towards. *)
Current == [types |-> 4, status |-> {"claimed", "watching"}, columns |-> AllColumns]

(* The oldest release schema.sql still runs on: it indexes the fingerprint. *)
Oldest == [types |-> 0, status |-> {"claimed"}, columns |-> Claimed]

-----------------------------------------------------------------------------
(* Migrations: the order of init_schema, and the statements each finds to do.  *)

(* The list with cancel_pending appended where a new migration goes. *)
OrderAppended ==
  <<"claim", "fingerprint", "memory_chat_id", "watching", "positions_state", "phase2",
    "drop_watch", "modify_tps", "positions_pnl", "instant", "positions_naked",
    "positions_recovered", "messages_source_channel", "actions_routing",
    "messages_reply_to", "messages_pipeline", "messages_has_image", "cancel_pending">>

Order ==
  <<"claim", "fingerprint", "memory_chat_id", "watching", "positions_state", "phase2",
    "drop_watch", "modify_tps", "positions_pnl", "instant", "positions_naked",
    "positions_recovered", "cancel_pending", "messages_source_channel", "actions_routing",
    "messages_reply_to", "messages_pipeline", "messages_has_image">>

Done == Len(Order) + 1

(* A statement, and where it stands in its migration. *)
Statement(nth, op, on) == [nth |-> nth, op |-> op, on |-> on]

(* ALTER TABLE without the look at the columns. *)
AddAll(cols, s) == {Statement(i, "add", cols[i]) : i \in DOMAIN cols}

AddMissing(cols, s) ==
  {Statement(i, "add", cols[i]) : i \in {j \in DOMAIN cols : cols[j] \notin s.columns}}

AddWatch(s) ==
  (IF "watching" \in s.status THEN AddMissing(<<"watch_json", "expires_at">>, s)
   ELSE {Statement(1, "rebuild", "watching")})
    \cup {Statement(3, "index", "expires_at")}

(* _migrate_actions_for_watching as it was before it looked at the types. *)
WatchingPlanAnyTypes(s) == AddWatch(s)

WatchingPlan(s) == IF s.types >= 1 THEN {} ELSE AddWatch(s)

DropWatchPlan(s) ==
  IF Watch \cap s.columns = {} THEN {}
  ELSE {Statement(1, "reject", "watching"), Statement(2, "unindex", "expires_at")}
       \cup {st \in {Statement(3, "drop", "watch_json"), Statement(4, "drop", "expires_at")} :
               st.on \in s.columns}

(* A rebuild is due when the table's text lacks the type it is named for;      *)
(* cancel_pending also wants 'watching' back.                                  *)
RebuildDue(m, s) ==
  CASE m = "claim" -> "claimed" \notin s.status
    [] m = "cancel_pending" -> s.types < 4 \/ "watching" \notin s.status
    [] OTHER -> s.types < Rebuilds[m].types

RebuildPlan(m, s) == IF RebuildDue(m, s) THEN {Statement(2, "rebuild", m)} ELSE {}

Plan(m, s) ==
  CASE m = "watching" -> WatchingPlan(s)
    [] m = "drop_watch" -> DropWatchPlan(s)
    [] m = "claim" -> AddMissing(<<"claimed_at">>, s) \cup RebuildPlan(m, s)
    [] m \in DOMAIN Adds -> AddMissing(Adds[m], s)
    [] OTHER -> RebuildPlan(m, s)

(* The schema after a statement. *)
Ran(st, s) ==
  CASE st.op = "add" -> [s EXCEPT !.columns = @ \cup {st.on}]
    [] st.op = "rebuild" ->
         [types |-> Rebuilds[st.on].types, status |-> Rebuilds[st.on].status,
          columns |-> (s.columns \ (ActionColumns \cup {"watch_index"}))
                        \cup Rebuilds[st.on].copies \cup Rebuilds[st.on].new]
    [] st.op = "index" -> [s EXCEPT !.columns = @ \cup {"watch_index"}]
    [] st.op = "unindex" -> [s EXCEPT !.columns = @ \ {"watch_index"}]
    [] st.op = "drop" ->   \* the error of a column still indexed is swallowed
         IF st.on = "expires_at" /\ "watch_index" \in s.columns THEN s
         ELSE [s EXCEPT !.columns = @ \ {st.on}]
    [] st.op = "reject" -> s

Parked == "watching" \in {legacy, order.status}

(* A column added twice; a copied column that is gone, or a row the new CHECK  *)
(* refuses; an index on a column that is gone.                                 *)
Fails(st) ==
  CASE st.op = "add" -> st.on \in schema.columns
    [] st.op = "rebuild" -> \/ ~(Rebuilds[st.on].copies \subseteq schema.columns)
                            \/ Parked /\ "watching" \notin Rebuilds[st.on].status
    [] st.op = "index" -> "expires_at" \notin schema.columns
    [] OTHER -> FALSE

-----------------------------------------------------------------------------
(* Databases found at start: what a release whose list ended with the n-th     *)
(* migration left, on a database it created or upgraded.                       *)

Left ==
  LET left[n \in 0..Len(Order)] ==
        IF n = 0 THEN Oldest
        ELSE FoldLeft(LAMBDA s, st : Ran(st, s), left[n - 1],
                      SetToSortSeq(Plan(Order[n], left[n - 1]), LAMBDA a, b : a.nth < b.nth))
  IN left

(* Between drop_watch and cancel_pending schema.sql shipped without 'watching'. *)
Shipped(s) ==
  IF s.types \in 1..3 THEN [s EXCEPT !.status = {"claimed"}, !.columns = @ \ (Watch \cup {"watch_index"})]
  ELSE s

Found == {Current} \cup {Left[n] : n \in 2..Len(Order)} \cup {Shipped(Left[n]) : n \in 7..Len(Order)}

(* A schema of this program: claims and fingerprints are in every release, and *)
(* the index on a column is not there without it.                              *)
Release ==
  {s \in [types : 0..4, status : SUBSET {"claimed", "watching"},
          columns : SUBSET (AllColumns \cup Watch \cup {"watch_index"})] :
     "claimed" \in s.status /\ Claimed \subseteq s.columns
       /\ ("watch_index" \in s.columns => "expires_at" \in s.columns)}

ASSUME DbAssumption == "api" \in Service /\ MaxCrash \in Nat /\ Found \subseteq Release

NoOrder == [status |-> "none", routed |-> FALSE]

DbInit ==
  /\ schema \in Found
  /\ at = [p \in Service |-> 0] /\ plan = [p \in Service |-> {}]
  /\ legacy \in {"none"} \cup (IF Watch \subseteq schema.columns THEN {"watching"} ELSE {})
  /\ order = NoOrder
  /\ settled = FALSE /\ crashed = 0

-----------------------------------------------------------------------------
Serving(p) == at[p] = Done
AllServe(where) == \A p \in Service : where[p] = Done

Start(p) ==
  /\ at[p] = 0
  /\ at' = [at EXCEPT ![p] = 1]
  /\ UNCHANGED <<schema, plan, rows, settled, crashed>>

Advance(p) ==
  /\ at' = [at EXCEPT ![p] = @ + 1]
  /\ settled' = (settled \/ AllServe(at'))

(* The migration looks at the schema. *)
Look(p) ==
  /\ at[p] \in DOMAIN Order /\ plan[p] = {}
  /\ plan' = [plan EXCEPT ![p] = Plan(Order[at[p]], schema)]
  /\ IF plan'[p] = {} THEN Advance(p) ELSE UNCHANGED <<at, settled>>
  /\ UNCHANGED <<schema, rows, crashed>>

(* The first of the statements it has yet to run. *)
Due(p) == {st \in plan[p] : \A other \in plan[p] : st.nth <= other.nth}

(* A rebuilt row has no routing: the columns are not copied.                   *)
Run(p, st) ==
  /\ ~Fails(st)
  /\ schema' = Ran(st, schema)
  /\ legacy' = IF st.op = "reject" /\ legacy = "watching" THEN "rejected" ELSE legacy
  /\ order' = CASE st.op = "reject" /\ order.status = "watching" -> [order EXCEPT !.status = "rejected"]
                [] st.op = "rebuild" -> [order EXCEPT !.routed = FALSE]
                [] OTHER -> order
  /\ plan' = [plan EXCEPT ![p] = @ \ {st}]
  /\ IF plan'[p] = {} THEN Advance(p) ELSE UNCHANGED <<at, settled>>
  /\ UNCHANGED crashed

Execute(p) == \E st \in Due(p) : Run(p, st)

Down(p) == at' = [at EXCEPT ![p] = 0] /\ plan' = [plan EXCEPT ![p] = {}]

(* The statement raises, out of init_schema and out of the process; an open    *)
(* transaction is rolled back.                                                 *)
Fail(p) ==
  /\ \E st \in Due(p) : Fails(st)
  /\ Down(p)
  /\ UNCHANGED <<schema, rows, settled, crashed>>

Crash(p) ==
  /\ at[p] \in DOMAIN Order /\ crashed < MaxCrash
  /\ crashed' = crashed + 1
  /\ Down(p)
  /\ UNCHANGED <<schema, rows, settled>>

(* A serving process ends: a crash, or a restart from the panel. *)
Stop(p) ==
  /\ Serving(p)
  /\ Down(p)
  /\ UNCHANGED <<schema, rows, settled, crashed>>

(* The API's side of a pending limit order: the row is inserted with its       *)
(* channel and route, the EA reports it parked at the broker, and it is filled *)
(* or refused.  On a schema without them the statement fails and the request   *)
(* with it.                                                                    *)
OrderMoves ==
  /\ Serving("api")
  /\ \/ /\ order.status = "none" /\ ActionColumns \ Watch \subseteq schema.columns
        /\ order' = [status |-> "pending", routed |-> TRUE]
     \/ /\ order.status = "pending" /\ "watching" \in schema.status
        /\ order' = [order EXCEPT !.status = "watching"]
     \/ /\ order.status \in {"watching", "rejected"}
        /\ order' = NoOrder
  /\ UNCHANGED <<schema, at, plan, legacy, settled, crashed>>

Upgrade(p) == Look(p) \/ Execute(p) \/ Fail(p)

DbNext == OrderMoves \/ \E p \in Service : Start(p) \/ Upgrade(p) \/ Crash(p) \/ Stop(p)

DbSpec == DbInit /\ [][DbNext]_dbvars

(* NSSM restarts a service that ended. *)
DbFairness == \A p \in Service : WF_dbvars(Start(p)) /\ WF_dbvars(Upgrade(p))

-----------------------------------------------------------------------------
(* Properties. *)

(* Whatever release the database comes from, and however the services that     *)
(* upgrade it at the same time got in each other's way, died and were started  *)
(* again: once all of them serve it has the current schema, and no row of the  *)
(* removed watch path is left to wait (db.py:22).                              *)
Upgraded == AllServe(at) => schema = Current /\ legacy # "watching"

(* After that, starting a service again changes nothing: not the schema, and   *)
(* not the pending limit orders waiting in it (db.py:186).                     *)
RestartKeeps ==
  [][settled /\ <<at, plan>>' # <<at, plan>> => UNCHANGED <<schema, rows>>]_dbvars

(* No service stays down for good: the errors the services cause each other    *)
(* are gone when they are started again.  Except when an order was parked      *)
(* while a slower service had just put the actions table back to an older      *)
(* CHECK: from there the rebuilds on the way forth refuse the row.             *)
ComesUp ==
  \A p \in Service : []<>(Serving(p) \/ (order.status = "watching" /\ schema # Current))
=============================================================================
