--------------------------- MODULE StackStartProofs ---------------------------
(***************************************************************************)
(* The upgrade of a database by any number of services that start, fail,   *)
(* die and restart side by side, and a halt /halt has confirmed on it, for *)
(* any breaches the risk monitor can see.                                  *)
(***************************************************************************)
EXTENDS StackStart, TLAPS

-----------------------------------------------------------------------------
(* The list of migrations.                                                   *)

LEMMA OrderIs ==
  /\ DOMAIN Order = 1..18 /\ Len(Order) = 18 /\ Done = 19
  /\ Order[1] = "claim" /\ Order[2] = "fingerprint" /\ Order[3] = "memory_chat_id"
  /\ Order[4] = "watching" /\ Order[5] = "positions_state" /\ Order[6] = "phase2"
  /\ Order[7] = "drop_watch" /\ Order[8] = "modify_tps" /\ Order[9] = "positions_pnl"
  /\ Order[10] = "instant" /\ Order[11] = "positions_naked" /\ Order[12] = "positions_recovered"
  /\ Order[13] = "cancel_pending" /\ Order[14] = "messages_source_channel" /\ Order[15] = "actions_routing"
  /\ Order[16] = "messages_reply_to" /\ Order[17] = "messages_pipeline" /\ Order[18] = "messages_has_image"
BY DEF Order, Done

LEMMA AddsIs ==
  /\ DOMAIN Adds = {"fingerprint", "memory_chat_id", "positions_state", "positions_pnl", "positions_naked",
                    "positions_recovered", "messages_source_channel", "actions_routing", "messages_reply_to",
                    "messages_pipeline", "messages_has_image"}
  /\ Adds["fingerprint"] = Fingerprint /\ Adds["memory_chat_id"] = MemoryChatId
  /\ Adds["positions_state"] = PositionsState /\ Adds["positions_pnl"] = PositionsPnl
  /\ Adds["positions_naked"] = PositionsNaked /\ Adds["positions_recovered"] = PositionsRecovered
  /\ Adds["messages_source_channel"] = MessagesSourceChannel /\ Adds["actions_routing"] = ActionsRouting
  /\ Adds["messages_reply_to"] = MessagesReplyTo /\ Adds["messages_pipeline"] = MessagesPipeline
  /\ Adds["messages_has_image"] = MessagesHasImage
BY DEF Adds

(* The statements that add what migration n adds.                            *)
Adding(n) == IF Order[n] \in DOMAIN Adds
             THEN {Statement(i, "add", Adds[Order[n]][i]) : i \in DOMAIN Adds[Order[n]]} ELSE {}

LEMMA AddingIs ==
  /\ Adding(1) = {} /\ Adding(4) = {} /\ Adding(6) = {} /\ Adding(7) = {} /\ Adding(8) = {} /\ Adding(10) = {}
  /\ Adding(13) = {}
  /\ Adding(2) = {Statement(1, "add", "fingerprint")}
  /\ Adding(3) = {Statement(1, "add", "chat_id")}
  /\ Adding(5) = {Statement(1, "add", "original_volume"), Statement(2, "add", "partial_close_count"),
                  Statement(3, "add", "sl_moved_at")}
  /\ Adding(9) = {Statement(1, "add", "exit_price"), Statement(2, "add", "realized_pnl")}
  /\ Adding(11) = {Statement(1, "add", "is_naked"), Statement(2, "add", "naked_opened_at")}
  /\ Adding(12) = {Statement(1, "add", "recovered")}
  /\ Adding(14) = {Statement(1, "add", "messages_source_channel_id")}
  /\ Adding(15) = {Statement(1, "add", "source_channel_id"), Statement(2, "add", "route_id")}
  /\ Adding(16) = {Statement(1, "add", "reply_to_tg_message_id")}
  /\ Adding(17) = {Statement(1, "add", "decided_stage"), Statement(2, "add", "decided_outcome"),
                   Statement(3, "add", "decided_at"), Statement(4, "add", "pipeline_meta_json")}
  /\ Adding(18) = {Statement(1, "add", "has_image")}
<1>1. /\ Adding(1) = {} /\ Adding(4) = {} /\ Adding(6) = {} /\ Adding(7) = {} /\ Adding(8) = {} /\ Adding(10) = {}
      /\ Adding(13) = {}
  BY OrderIs, AddsIs DEF Adding
<1>2. Adding(2) = {Statement(1, "add", "fingerprint")} BY OrderIs, AddsIs DEF Adding, Fingerprint
<1>3. Adding(3) = {Statement(1, "add", "chat_id")} BY OrderIs, AddsIs DEF Adding, MemoryChatId
<1>5. Adding(5) = {Statement(1, "add", "original_volume"), Statement(2, "add", "partial_close_count"),
                   Statement(3, "add", "sl_moved_at")}
  BY OrderIs, AddsIs DEF Adding, PositionsState
<1>9. Adding(9) = {Statement(1, "add", "exit_price"), Statement(2, "add", "realized_pnl")}
  BY OrderIs, AddsIs DEF Adding, PositionsPnl
<1>11. Adding(11) = {Statement(1, "add", "is_naked"), Statement(2, "add", "naked_opened_at")}
  BY OrderIs, AddsIs DEF Adding, PositionsNaked
<1>12. Adding(12) = {Statement(1, "add", "recovered")} BY OrderIs, AddsIs DEF Adding, PositionsRecovered
<1>14. Adding(14) = {Statement(1, "add", "messages_source_channel_id")}
  BY OrderIs, AddsIs DEF Adding, MessagesSourceChannel
<1>15. Adding(15) = {Statement(1, "add", "source_channel_id"), Statement(2, "add", "route_id")}
  BY OrderIs, AddsIs DEF Adding, ActionsRouting
<1>16. Adding(16) = {Statement(1, "add", "reply_to_tg_message_id")}
  BY OrderIs, AddsIs DEF Adding, MessagesReplyTo
<1>17. Adding(17) = {Statement(1, "add", "decided_stage"), Statement(2, "add", "decided_outcome"),
                     Statement(3, "add", "decided_at"), Statement(4, "add", "pipeline_meta_json")}
  BY OrderIs, AddsIs DEF Adding, MessagesPipeline
<1>18. Adding(18) = {Statement(1, "add", "has_image")} BY OrderIs, AddsIs DEF Adding, MessagesHasImage
<1> QED BY <1>1, <1>2, <1>3, <1>5, <1>9, <1>11, <1>12, <1>14, <1>15, <1>16, <1>17, <1>18

LEMMA ColumnsAre ==
  /\ AllColumns = {"fingerprint", "chat_id", "original_volume", "partial_close_count", "sl_moved_at",
                    "exit_price", "realized_pnl", "is_naked", "naked_opened_at", "recovered",
                    "messages_source_channel_id", "source_channel_id", "route_id", "reply_to_tg_message_id",
                    "decided_stage", "decided_outcome", "decided_at", "pipeline_meta_json", "has_image", "claimed_at"}
  /\ ActionColumns = {"claimed_at", "fingerprint", "source_channel_id", "route_id", "watch_json", "expires_at"}
<1> DEFINE added(m) == Range(Adds[m])
<1>1. /\ added("fingerprint") = {"fingerprint"} /\ added("memory_chat_id") = {"chat_id"}
      /\ added("positions_state") = {"original_volume", "partial_close_count", "sl_moved_at"}
      /\ added("positions_pnl") = {"exit_price", "realized_pnl"}
  BY AddsIs DEF Range, Fingerprint, MemoryChatId, PositionsState, PositionsPnl
<1>2. /\ added("positions_naked") = {"is_naked", "naked_opened_at"} /\ added("positions_recovered") = {"recovered"}
      /\ added("messages_source_channel") = {"messages_source_channel_id"}
      /\ added("actions_routing") = {"source_channel_id", "route_id"}
  BY AddsIs DEF Range, PositionsNaked, PositionsRecovered, MessagesSourceChannel, ActionsRouting
<1>3. /\ added("messages_reply_to") = {"reply_to_tg_message_id"} /\ added("messages_has_image") = {"has_image"}
      /\ added("messages_pipeline") = {"decided_stage", "decided_outcome", "decided_at", "pipeline_meta_json"}
  BY AddsIs DEF Range, MessagesReplyTo, MessagesPipeline, MessagesHasImage
<1>4. AllColumns = (UNION {added(m) : m \in DOMAIN Adds}) \cup {"claimed_at"} BY DEF AllColumns
<1>5. ActionColumns = Claimed \cup added("actions_routing") \cup Watch BY AddsIs DEF ActionColumns
<1> HIDE DEF added
<1>6. ActionColumns = {"claimed_at", "fingerprint", "source_channel_id", "route_id", "watch_json", "expires_at"}
  BY <1>2, <1>5 DEF Claimed, Watch
<1>7. UNION {added(m) : m \in DOMAIN Adds}
        = added("fingerprint") \cup added("memory_chat_id") \cup added("positions_state") \cup added("positions_pnl")
          \cup added("positions_naked") \cup added("positions_recovered") \cup added("messages_source_channel")
          \cup added("actions_routing") \cup added("messages_reply_to") \cup added("messages_pipeline")
          \cup added("messages_has_image")
  BY AddsIs
<1> QED BY <1>1, <1>2, <1>3, <1>4, <1>6, <1>7

LEMMA RebuildsIs ==
  /\ Rebuilds["claim"] = ForClaim /\ Rebuilds["watching"] = ForWatching /\ Rebuilds["phase2"] = Phase2Types
  /\ Rebuilds["modify_tps"] = ModifyTps /\ Rebuilds["instant"] = InstantTypes
  /\ Rebuilds["cancel_pending"] = CancelPending
BY DEF Rebuilds

-----------------------------------------------------------------------------
(* What a migration plans.                                                   *)

Reject == Statement(1, "reject", "watching")
Unindex == Statement(2, "unindex", "expires_at")
DropJson == Statement(3, "drop", "watch_json")
DropExpires == Statement(4, "drop", "expires_at")
Widen == Statement(2, "rebuild", "cancel_pending")

(* The statements migration n may ever run on a database of this program.    *)
Todo(n) ==
  CASE n = 4 -> {Statement(1, "add", "watch_json"), Statement(2, "add", "expires_at"),
                 Statement(1, "rebuild", "watching"), Statement(3, "index", "expires_at")}
    [] n = 7 -> {Reject, Unindex, DropJson, DropExpires}
    [] n \in {6, 8, 10, 13} -> {Statement(2, "rebuild", Order[n])}
    [] OTHER -> Adding(n)

LEMMA PlanIs ==
  ASSUME NEW s
  PROVE  /\ Plan("claim", s) = AddMissing(<<"claimed_at">>, s) \cup RebuildPlan("claim", s)
         /\ Plan("watching", s) = WatchingPlan(s)
         /\ Plan("drop_watch", s) = DropWatchPlan(s)
         /\ \A m \in {"phase2", "modify_tps", "instant", "cancel_pending"} : Plan(m, s) = RebuildPlan(m, s)
         /\ \A m \in DOMAIN Adds : Plan(m, s) = AddMissing(Adds[m], s)
<1>1. Plan("claim", s) = AddMissing(<<"claimed_at">>, s) \cup RebuildPlan("claim", s) BY AddsIs DEF Plan
<1>2. Plan("watching", s) = WatchingPlan(s) BY AddsIs DEF Plan
<1>3. Plan("drop_watch", s) = DropWatchPlan(s) BY AddsIs DEF Plan
<1>4. ASSUME NEW m \in {"phase2", "modify_tps", "instant", "cancel_pending"} PROVE Plan(m, s) = RebuildPlan(m, s)
  <2>1. m \notin DOMAIN Adds /\ m \notin {"watching", "drop_watch", "claim"} BY AddsIs
  <2> QED BY <2>1 DEF Plan
<1>5. ASSUME NEW m \in DOMAIN Adds PROVE Plan(m, s) = AddMissing(Adds[m], s)
  <2>1. m \notin {"watching", "drop_watch", "claim"} BY AddsIs
  <2> QED BY <2>1 DEF Plan
<1> QED BY <1>1, <1>2, <1>3, <1>4, <1>5

LEMMA PlanWithin ==
  ASSUME NEW n \in 1..18, NEW s \in Release
  PROVE  Plan(Order[n], s) \subseteq Todo(n)
<1>1. CASE n = 1
  <2>1. "claimed_at" \in s.columns /\ "claimed" \in s.status BY DEF Release, Claimed
  <2>2. AddMissing(<<"claimed_at">>, s) = {} BY <2>1 DEF AddMissing
  <2>3. RebuildPlan("claim", s) = {} BY <2>1 DEF RebuildPlan, RebuildDue
  <2>4. Plan(Order[1], s) = {} BY <2>2, <2>3, OrderIs, PlanIs
  <2> QED BY <1>1, <2>4
<1>2. CASE n = 4
  <2>1. Plan(Order[4], s) = WatchingPlan(s) BY OrderIs, PlanIs
  <2>2. AddMissing(<<"watch_json", "expires_at">>, s)
          \subseteq {Statement(1, "add", "watch_json"), Statement(2, "add", "expires_at")}
    BY DEF AddMissing
  <2> QED BY <1>2, <2>1, <2>2 DEF Todo, WatchingPlan, AddWatch
<1>3. CASE n = 7
  <2>1. Plan(Order[7], s) = DropWatchPlan(s) BY OrderIs, PlanIs
  <2>2. DropWatchPlan(s) \subseteq {Reject, Unindex, DropJson, DropExpires}
    BY DEF DropWatchPlan, Reject, Unindex, DropJson, DropExpires
  <2> QED BY <1>3, <2>1, <2>2 DEF Todo
<1>4. CASE n \in {6, 8, 10, 13}
  <2>1. Plan(Order[n], s) = RebuildPlan(Order[n], s) BY <1>4, OrderIs, PlanIs
  <2> QED BY <1>4, <2>1 DEF Todo, RebuildPlan
<1>5. CASE n \in {2, 3, 5, 9, 11, 12, 14, 15, 16, 17, 18}
  <2>1. Order[n] \in DOMAIN Adds BY <1>5, OrderIs, AddsIs
  <2>2. Plan(Order[n], s) = AddMissing(Adds[Order[n]], s) BY <2>1, PlanIs
  <2>3. Todo(n) = Adding(n) BY <1>5 DEF Todo
  <2> QED BY <2>1, <2>2, <2>3 DEF AddMissing, Adding
<1> QED BY <1>1, <1>2, <1>3, <1>4, <1>5

LEMMA PlanFixes ==
  ASSUME NEW s \in Release
  PROVE  /\ \A n \in 1..18 : \A st \in Adding(n) : st.on \notin s.columns => st \in Plan(Order[n], s)
         /\ s.types # 4 \/ "watching" \notin s.status => Widen \in Plan(Order[13], s)
         /\ Watch \cap s.columns # {} => {Reject, Unindex} \subseteq Plan(Order[7], s)
         /\ "watch_json" \in s.columns => DropJson \in Plan(Order[7], s)
         /\ "expires_at" \in s.columns => DropExpires \in Plan(Order[7], s)
<1>1. ASSUME NEW n \in 1..18, NEW st \in Adding(n), st.on \notin s.columns PROVE st \in Plan(Order[n], s)
  <2>1. Order[n] \in DOMAIN Adds BY <1>1 DEF Adding
  <2>3. Plan(Order[n], s) = AddMissing(Adds[Order[n]], s) BY <2>1, PlanIs
  <2>4. PICK i \in DOMAIN Adds[Order[n]] : st = Statement(i, "add", Adds[Order[n]][i]) BY <2>1 DEF Adding
  <2>5. Adds[Order[n]][i] \notin s.columns BY <1>1, <2>4 DEF Statement
  <2> QED BY <2>3, <2>4, <2>5 DEF AddMissing
<1>2. ASSUME s.types # 4 \/ "watching" \notin s.status PROVE Widen \in Plan(Order[13], s)
  <2>1. s.types \in 0..4 BY DEF Release
  <2>2. RebuildDue("cancel_pending", s) BY <1>2, <2>1 DEF RebuildDue
  <2> QED BY <2>2, OrderIs, PlanIs DEF RebuildPlan, Widen
<1>3. Plan(Order[7], s) = DropWatchPlan(s) BY OrderIs, PlanIs
<1>4. Watch \cap s.columns # {} => {Reject, Unindex} \subseteq Plan(Order[7], s)
  BY <1>3 DEF DropWatchPlan, Reject, Unindex
<1>5. "watch_json" \in s.columns => DropJson \in Plan(Order[7], s)
  BY <1>3 DEF DropWatchPlan, DropJson, Watch, Statement
<1>6. "expires_at" \in s.columns => DropExpires \in Plan(Order[7], s)
  BY <1>3 DEF DropWatchPlan, DropExpires, Watch, Statement
<1> QED BY <1>1, <1>2, <1>4, <1>5, <1>6

(* Nothing is left to do on the current schema.                              *)
LEMMA CurrentPlansNothing ==
  /\ Current \in Release
  /\ \A n \in 1..18 : Plan(Order[n], Current) = {}
<1>1. Current \in Release BY ColumnsAre DEF Current, Release, Claimed, Watch
<1>2. /\ Current.types = 4 /\ Current.status = {"claimed", "watching"} /\ Current.columns = AllColumns
  BY DEF Current
<1>3. ASSUME NEW n \in 1..18 PROVE Plan(Order[n], Current) = {}
  <2>1. CASE n = 1
    <3>1. AddMissing(<<"claimed_at">>, Current) = {} BY <1>2, ColumnsAre DEF AddMissing
    <3>2. RebuildPlan("claim", Current) = {} BY <1>2 DEF RebuildPlan, RebuildDue
    <3> QED BY <2>1, <3>1, <3>2, OrderIs, PlanIs
  <2>2. CASE n = 4
    <3>1. Plan(Order[4], Current) = WatchingPlan(Current) BY OrderIs, PlanIs
    <3> QED BY <1>2, <2>2, <3>1 DEF WatchingPlan
  <2>3. CASE n = 7
    <3>1. Plan(Order[7], Current) = DropWatchPlan(Current) BY OrderIs, PlanIs
    <3>2. Watch \cap Current.columns = {} BY <1>2, ColumnsAre DEF Watch
    <3> QED BY <2>3, <3>1, <3>2 DEF DropWatchPlan
  <2>4. CASE n \in {6, 8, 10, 13}
    <3>1. /\ ~RebuildDue("phase2", Current) /\ ~RebuildDue("modify_tps", Current)
          /\ ~RebuildDue("instant", Current) /\ ~RebuildDue("cancel_pending", Current)
      BY <1>2, RebuildsIs DEF RebuildDue, Phase2Types, ModifyTps, InstantTypes, Table
    <3>2. Plan(Order[n], Current) = RebuildPlan(Order[n], Current) BY <2>4, OrderIs, PlanIs
    <3> QED BY <2>4, <3>1, <3>2, OrderIs DEF RebuildPlan
  <2>5. CASE n \in {2, 3, 5, 9, 11, 12, 14, 15, 16, 17, 18}
    <3>1. Order[n] \in DOMAIN Adds BY <2>5, OrderIs, AddsIs
    <3>2. Plan(Order[n], Current) = AddMissing(Adds[Order[n]], Current) BY <3>1, PlanIs
    <3>3. Range(Adds[Order[n]]) \subseteq AllColumns BY <3>1 DEF AllColumns
    <3>4. \A i \in DOMAIN Adds[Order[n]] : Adds[Order[n]][i] \in Range(Adds[Order[n]]) BY DEF Range
    <3> QED BY <1>2, <3>2, <3>3, <3>4 DEF AddMissing
  <2> QED BY <2>1, <2>2, <2>3, <2>4, <2>5
<1> QED BY <1>1, <1>3
-----------------------------------------------------------------------------
(* What a statement does to a schema.                                        *)

Same(t, s) == t.types = s.types /\ t.status = s.status

Rebuilt == {"watching", "phase2", "modify_tps", "instant", "cancel_pending"}

LEMMA RanIs ==
  ASSUME NEW s \in Release, NEW st
  PROVE  /\ st.op = "add" => Same(Ran(st, s), s) /\ Ran(st, s).columns = s.columns \cup {st.on}
         /\ st.op = "index" => Same(Ran(st, s), s) /\ Ran(st, s).columns = s.columns \cup {"watch_index"}
         /\ st.op = "unindex" => Same(Ran(st, s), s) /\ Ran(st, s).columns = s.columns \ {"watch_index"}
         /\ st.op = "reject" => Ran(st, s) = s
         /\ st.op = "drop" => /\ Same(Ran(st, s), s)
                              /\ Ran(st, s).columns \in {s.columns, s.columns \ {st.on}}
                              /\ st.on # "expires_at" \/ "watch_index" \notin s.columns
                                   => Ran(st, s).columns = s.columns \ {st.on}
                              /\ st.on = "expires_at" /\ "watch_index" \in s.columns => Ran(st, s) = s
         /\ st.op = "rebuild" =>
              /\ Ran(st, s).types = Rebuilds[st.on].types /\ Ran(st, s).status = Rebuilds[st.on].status
              /\ Ran(st, s).columns = (s.columns \ (ActionColumns \cup {"watch_index"}))
                                        \cup Rebuilds[st.on].copies \cup Rebuilds[st.on].new
<1>1. s \in [types : 0..4, status : SUBSET {"claimed", "watching"},
             columns : SUBSET (AllColumns \cup Watch \cup {"watch_index"})]
  BY DEF Release
<1>2. CASE st.op = "add" BY <1>1, <1>2 DEF Ran, Same
<1>3. CASE st.op = "index" BY <1>1, <1>3 DEF Ran, Same
<1>4. CASE st.op = "unindex" BY <1>1, <1>4 DEF Ran, Same
<1>5. CASE st.op = "reject" BY <1>1, <1>5 DEF Ran, Same
<1>6. CASE st.op = "drop" BY <1>1, <1>6 DEF Ran, Same
<1>7. CASE st.op = "rebuild" BY <1>1, <1>7 DEF Ran, Same
<1> QED BY <1>2, <1>3, <1>4, <1>5, <1>6, <1>7

LEMMA RebuiltTable ==
  /\ Rebuilds["watching"].types = 0 /\ Rebuilds["phase2"].types = 1 /\ Rebuilds["modify_tps"].types = 2
  /\ Rebuilds["instant"].types = 3 /\ Rebuilds["cancel_pending"].types = 4
  /\ Rebuilds["cancel_pending"].status = {"claimed", "watching"}
  /\ \A m \in Rebuilt : /\ Rebuilds[m].types \in 0..4
                        /\ "claimed" \in Rebuilds[m].status /\ Rebuilds[m].status \subseteq {"claimed", "watching"}
                        /\ Claimed \subseteq Rebuilds[m].copies
                        /\ Rebuilds[m].copies \cup Rebuilds[m].new \subseteq Claimed \cup Watch \cup {"watch_index"}
  /\ \A m \in {"watching", "phase2"} : Watch \subseteq Rebuilds[m].copies \cup Rebuilds[m].new
  /\ \A m \in {"modify_tps", "instant", "cancel_pending"} : Rebuilds[m].copies \cup Rebuilds[m].new = Claimed
BY RebuildsIs DEF Rebuilt, ForWatching, Phase2Types, ModifyTps, InstantTypes, CancelPending, Table

LEMMA AddingOn ==
  ASSUME NEW n \in 1..18, NEW st \in Adding(n)
  PROVE  /\ st.op = "add"
         /\ st.on \in AllColumns
         /\ st.on \notin Watch \cup {"watch_index"}
         /\ st.on \in ActionColumns => st.on \in Claimed \/ n = 15
<1>1. st.op = "add" BY DEF Adding, Statement
<1>2. st.on \in AllColumns
  <2>1. Order[n] \in DOMAIN Adds BY DEF Adding
  <2>2. PICK i \in DOMAIN Adds[Order[n]] : st = Statement(i, "add", Adds[Order[n]][i]) BY <2>1 DEF Adding
  <2>3. st.on \in Range(Adds[Order[n]]) BY <2>2 DEF Statement, Range
  <2> QED BY <2>1, <2>3 DEF AllColumns
<1>3. st.on \notin Watch \cup {"watch_index"} BY <1>2, ColumnsAre DEF Watch
<1>4. ASSUME st.on \in ActionColumns PROVE st.on \in Claimed \/ n = 15
  <2>1. st.on \in Claimed \cup {"source_channel_id", "route_id"} BY <1>3, <1>4, ColumnsAre DEF Watch, Claimed
  <2>2. CASE n \in 1..4 BY <2>2, <2>1, AddingIs DEF Statement, Claimed
  <2>3. CASE n \in 5..9 BY <2>3, <2>1, AddingIs DEF Statement, Claimed
  <2>4. CASE n \in 10..14 BY <2>4, <2>1, AddingIs DEF Statement, Claimed
  <2>5. CASE n \in 16..18 BY <2>5, <2>1, AddingIs DEF Statement, Claimed
  <2> QED BY <2>2, <2>3, <2>4, <2>5
<1> QED BY <1>1, <1>2, <1>3, <1>4

(* The statements of a migration, by what they do.                           *)
LEMMA TodoKinds ==
  ASSUME NEW m \in 1..18, NEW run \in Todo(m)
  PROVE  \/ run.op = "add" /\ run.on \in AllColumns /\ run.on \notin Watch \cup {"watch_index"}
         \/ m = 4 /\ run.op = "add" /\ run.on \in Watch
         \/ m = 4 /\ run.op = "index"
         \/ m = 4 /\ run.op = "rebuild" /\ run.on = "watching"
         \/ m = 6 /\ run.op = "rebuild" /\ run.on = "phase2"
         \/ m = 8 /\ run.op = "rebuild" /\ run.on = "modify_tps"
         \/ m = 10 /\ run.op = "rebuild" /\ run.on = "instant"
         \/ m = 13 /\ run.op = "rebuild" /\ run.on = "cancel_pending"
         \/ m = 7 /\ run = Reject /\ run.op = "reject"
         \/ m = 7 /\ run = Unindex /\ run.op = "unindex"
         \/ m = 7 /\ run.op = "drop" /\ run.on = "watch_json"
         \/ m = 7 /\ run.op = "drop" /\ run.on = "expires_at"
<1>1. CASE m = 4
  <2>1. run \in {Statement(1, "add", "watch_json"), Statement(2, "add", "expires_at"),
                 Statement(1, "rebuild", "watching"), Statement(3, "index", "expires_at")}
    BY <1>1 DEF Todo
  <2> QED BY <1>1, <2>1 DEF Statement, Watch
<1>2. CASE m = 7 BY <1>2 DEF Todo, Reject, Unindex, DropJson, DropExpires, Statement
<1>3. CASE m \in {6, 8, 10, 13}
  <2>1. run = Statement(2, "rebuild", Order[m]) BY <1>3 DEF Todo
  <2> QED BY <1>3, <2>1, OrderIs DEF Statement
<1>4. CASE m \notin {4, 6, 7, 8, 10, 13}
  <2>1. run \in Adding(m) BY <1>4 DEF Todo
  <2> QED BY <2>1, AddingOn
<1> QED BY <1>1, <1>2, <1>3, <1>4

(* A statement that does not fail leads from a schema of the program to one.  *)
LEMMA RanRelease ==
  ASSUME schema \in Release, NEW m \in 1..18, NEW run \in Todo(m), ~Fails(run)
  PROVE  Ran(run, schema) \in Release
<1> DEFINE s == schema
           t == Ran(run, schema)
           All == AllColumns \cup Watch \cup {"watch_index"}
           Shape == [types : 0..4, status : SUBSET {"claimed", "watching"}, columns : SUBSET All]
<1>1. /\ s \in Shape /\ "claimed" \in s.status /\ Claimed \subseteq s.columns
      /\ "watch_index" \in s.columns => "expires_at" \in s.columns
  BY DEF Release
<1>2. Claimed \subseteq AllColumns /\ Claimed \subseteq ActionColumns BY ColumnsAre DEF Claimed
<1>3. SUFFICES /\ t \in Shape /\ "claimed" \in t.status /\ Claimed \subseteq t.columns
               /\ "watch_index" \in t.columns => "expires_at" \in t.columns
  BY DEF Release
<1>4. CASE run.op = "add"
  <2>1. run.on \in All BY <1>4, TodoKinds DEF Watch
  <2>2. t = [s EXCEPT !.columns = @ \cup {run.on}] BY <1>4 DEF Ran
  <2>3. run.on # "watch_index" BY <1>4, TodoKinds, ColumnsAre DEF Watch
  <2> QED BY <1>1, <2>1, <2>2, <2>3
<1>5. CASE run.op = "index"
  <2>1. t = [s EXCEPT !.columns = @ \cup {"watch_index"}] BY <1>5 DEF Ran
  <2>2. "expires_at" \in s.columns BY <1>5 DEF Fails
  <2> QED BY <1>1, <2>1, <2>2
<1>6. CASE run.op = "unindex"
  <2>1. t = [s EXCEPT !.columns = @ \ {"watch_index"}] BY <1>6 DEF Ran
  <2> QED BY <1>1, <2>1 DEF Claimed
<1>7. CASE run.op = "drop"
  <2>1. \/ t = s
        \/ run.on # "expires_at" /\ t = [s EXCEPT !.columns = @ \ {run.on}]
        \/ "watch_index" \notin s.columns /\ t = [s EXCEPT !.columns = @ \ {run.on}]
    BY <1>7 DEF Ran
  <2>2. run.on \in Watch BY <1>7, TodoKinds DEF Watch
  <2> QED BY <1>1, <2>1, <2>2 DEF Claimed, Watch
<1>8. CASE run.op = "reject"
  <2>1. t = s BY <1>8 DEF Ran
  <2> QED BY <1>1, <2>1
<1>9. CASE run.op = "rebuild"
  <2>1. run.on \in Rebuilt BY <1>9, TodoKinds DEF Rebuilt
  <2> DEFINE cols == (s.columns \ (ActionColumns \cup {"watch_index"}))
                       \cup Rebuilds[run.on].copies \cup Rebuilds[run.on].new
  <2>2. t = [types |-> Rebuilds[run.on].types, status |-> Rebuilds[run.on].status, columns |-> cols]
    BY <1>9 DEF Ran
  <2>3. cols \subseteq All /\ Claimed \subseteq cols BY <1>1, <1>2, <2>1, RebuiltTable
  <2>4. "watch_index" \in cols => "expires_at" \in cols
    <3>1. CASE run.on \in {"watching", "phase2"} BY <3>1, RebuiltTable DEF Watch
    <3>2. CASE run.on \in {"modify_tps", "instant", "cancel_pending"} BY <3>2, RebuiltTable DEF Claimed
    <3> QED BY <2>1, <3>1, <3>2 DEF Rebuilt
  <2> HIDE DEF cols
  <2> QED BY <2>1, <2>2, <2>3, <2>4, RebuiltTable
<1> QED BY <1>4, <1>5, <1>6, <1>7, <1>8, <1>9, TodoKinds

-----------------------------------------------------------------------------
(* What a schema still owes to the current one.                              *)

(* The statements of migration n the current schema depends on, and whether   *)
(* schema s still needs one of them.                                          *)
Repairs(n) ==
  Adding(n) \cup (IF n = 13 THEN {Widen} ELSE {}) \cup (IF n = 7 THEN {DropJson, DropExpires} ELSE {})

Owed(st, s) ==
  CASE st.op = "add" -> st.on \notin s.columns
    [] st.op = "rebuild" -> s.types # 4 \/ "watching" \notin s.status
    [] OTHER -> st.on \in s.columns

LEMMA OwedIs ==
  ASSUME NEW s
  PROVE  /\ \A n \in 1..18 : \A st \in Adding(n) : Owed(st, s) <=> st.on \notin s.columns
         /\ Owed(Widen, s) <=> s.types # 4 \/ "watching" \notin s.status
         /\ Owed(DropJson, s) <=> "watch_json" \in s.columns
         /\ Owed(DropExpires, s) <=> "expires_at" \in s.columns
<1>1. ASSUME NEW n \in 1..18, NEW st \in Adding(n) PROVE Owed(st, s) <=> st.on \notin s.columns
  <2>1. st.op = "add" BY AddingOn
  <2> QED BY <2>1 DEF Owed
<1>2. Owed(Widen, s) <=> s.types # 4 \/ "watching" \notin s.status BY DEF Owed, Widen, Statement
<1>3. Owed(DropJson, s) <=> "watch_json" \in s.columns BY DEF Owed, DropJson, Statement
<1>4. Owed(DropExpires, s) <=> "expires_at" \in s.columns BY DEF Owed, DropExpires, Statement
<1> QED BY <1>1, <1>2, <1>3, <1>4

LEMMA RepairCases ==
  ASSUME NEW n \in 1..18, NEW st \in Repairs(n)
  PROVE  \/ st \in Adding(n)
         \/ n = 13 /\ st = Widen
         \/ n = 7 /\ st \in {DropJson, DropExpires}
BY DEF Repairs

(* A migration that looks plans what is owed.                                *)
LEMMA OwedPlanned ==
  ASSUME NEW s \in Release, NEW n \in 1..18, NEW st \in Repairs(n), Owed(st, s)
  PROVE  /\ st \in Plan(Order[n], s)
         /\ st = DropExpires => Unindex \in Plan(Order[7], s)
<1>1. st \in Plan(Order[n], s) BY OwedIs, RepairCases, PlanFixes
<1>2. st = DropExpires => Unindex \in Plan(Order[7], s) BY OwedIs, PlanFixes DEF Watch
<1> QED BY <1>1, <1>2

(* Run, it is owed no longer.                                                *)
LEMMA RunRepairs ==
  ASSUME NEW s \in Release, NEW n \in 1..18, NEW st \in Repairs(n),
         st = DropExpires => "watch_index" \notin s.columns
  PROVE  ~Owed(st, Ran(st, s))
<1>1. CASE st \in Adding(n) BY <1>1, AddingOn, OwedIs, RanIs
<1>2. CASE st = Widen
  <2>1. st.op = "rebuild" /\ st.on = "cancel_pending" BY <1>2 DEF Widen, Statement
  <2> QED BY <1>2, <2>1, OwedIs, RanIs, RebuiltTable
<1>3. CASE st = DropJson
  <2>1. st.op = "drop" /\ st.on = "watch_json" BY <1>3 DEF DropJson, Statement
  <2> QED BY <1>3, <2>1, OwedIs, RanIs
<1>4. CASE st = DropExpires
  <2>1. st.op = "drop" /\ st.on = "expires_at" BY <1>4 DEF DropExpires, Statement
  <2> QED BY <1>4, <2>1, OwedIs, RanIs
<1> QED BY <1>1, <1>2, <1>3, <1>4, RepairCases

(* A statement undoes only repairs of migrations its own comes before.       *)
LEMMA RunOwes ==
  ASSUME NEW s \in Release, NEW m \in 1..18, NEW run \in Todo(m), NEW n \in 1..18, NEW st \in Repairs(n),
         Owed(st, Ran(run, s))
  PROVE  Owed(st, s) \/ m < n
<1> DEFINE t == Ran(run, s)
<1>1. CASE st \in Adding(n)
  <2>1. st.on \notin t.columns BY <1>1, OwedIs
  <2>2. st.on \notin Watch \cup {"watch_index"} /\ (st.on \in ActionColumns => st.on \in Claimed \/ n = 15)
    BY <1>1, AddingOn
  <2>3. CASE run.op # "rebuild"
    <3>1. s.columns \ t.columns \subseteq Watch \cup {"watch_index"}
      BY <2>3, TodoKinds, RanIs DEF Watch
    <3> QED BY <1>1, <2>1, <2>2, <3>1, OwedIs
  <2>4. CASE run.op = "rebuild"
    <3>1. run.on \in Rebuilt /\ m < 15 BY <2>4, TodoKinds DEF Rebuilt
    <3>2. s.columns \ t.columns \subseteq ActionColumns \cup {"watch_index"} /\ Claimed \subseteq t.columns
      BY <2>4, <3>1, RanIs, RebuiltTable
    <3> QED BY <1>1, <2>1, <2>2, <3>1, <3>2, OwedIs
  <2> QED BY <2>3, <2>4
<1>2. CASE n = 13 /\ st = Widen
  <2>1. t.types # 4 \/ "watching" \notin t.status BY <1>2, OwedIs
  <2>2. CASE run.op # "rebuild"
    <3>1. Same(t, s) BY <2>2, TodoKinds, RanIs DEF Same
    <3> QED BY <1>2, <2>1, <3>1, OwedIs DEF Same
  <2>3. CASE run.op = "rebuild"
    <3>1. run.on = "cancel_pending" \/ m < 13 BY <2>3, TodoKinds
    <3> QED BY <1>2, <2>1, <2>3, <3>1, RanIs, RebuiltTable
  <2> QED BY <2>2, <2>3
<1>3. CASE n = 7 /\ st \in {DropJson, DropExpires}
  <2>1. st.on \in Watch /\ st.on \in t.columns /\ (Owed(st, s) <=> st.on \in s.columns)
    BY <1>3, OwedIs DEF DropJson, DropExpires, Statement, Watch
  <2>2. CASE run.op # "rebuild"
    <3>1. m < 7 \/ t.columns \subseteq s.columns \cup (AllColumns \ Watch)
      BY <2>2, TodoKinds, RanIs
    <3> QED BY <1>3, <2>1, <3>1
  <2>3. CASE run.op = "rebuild"
    <3>1. run.on \in {"modify_tps", "instant", "cancel_pending"} \/ m < 7 BY <2>3, TodoKinds
    <3>2. Watch \subseteq ActionColumns /\ Watch \cap Claimed = {} BY ColumnsAre DEF Watch, Claimed
    <3> QED BY <1>3, <2>1, <2>3, <3>1, <3>2, RanIs, RebuiltTable
  <2> QED BY <2>2, <2>3
<1> QED BY <1>1, <1>2, <1>3, RepairCases

(* The index on expires_at comes back only before it is dropped, and goes     *)
(* with its own statement.                                                    *)
LEMMA RunIndexes ==
  ASSUME NEW s \in Release, NEW m \in 1..18, NEW run \in Todo(m), "watch_index" \in Ran(run, s).columns
  PROVE  ("watch_index" \in s.columns \/ m < 7) /\ run # Unindex
<1>1. "watch_index" \notin AllColumns /\ "watch_index" \notin Watch /\ "watch_index" \notin Claimed
  BY ColumnsAre DEF Watch, Claimed
<1>2. CASE run.op = "rebuild"
  <2>1. m < 7 \/ run.on \in {"modify_tps", "instant", "cancel_pending"} BY <1>2, TodoKinds
  <2>2. run # Unindex BY <1>2 DEF Unindex, Statement
  <2> QED BY <1>1, <1>2, <2>1, <2>2, RanIs, RebuiltTable
<1>3. CASE run.op # "rebuild"
  <2>1. "watch_index" \in s.columns \/ m < 7 BY <1>1, <1>3, TodoKinds, RanIs
  <2>2. run # Unindex BY RanIs DEF Unindex, Statement
  <2> QED BY <2>1, <2>2
<1> QED BY <1>2, <1>3

(* Before drop_watch the columns of the watch path stay.                     *)
LEMMA RunKeepsWatch ==
  ASSUME NEW s \in Release, NEW m \in 1..6, NEW run \in Todo(m), Watch \subseteq s.columns
  PROVE  Watch \subseteq Ran(run, s).columns
<1>1. m \in 1..18 OBVIOUS
<1>2. run.op \in {"add", "index"} \/ (run.op = "rebuild" /\ run.on \in {"watching", "phase2"})
  BY <1>1, TodoKinds
<1>3. CASE run.op \in {"add", "index"} BY <1>3, RanIs
<1>4. CASE run.op = "rebuild" /\ run.on \in {"watching", "phase2"} BY <1>4, RanIs, RebuiltTable
<1> QED BY <1>2, <1>3, <1>4
-----------------------------------------------------------------------------
(* The inductive invariant of the upgrade.                                   *)

DbTypeOK ==
  /\ schema \in Release
  /\ at \in [Service -> 0..19]
  /\ DOMAIN plan = Service
  /\ \A p \in Service : plan[p] # {} => at[p] \in 1..18 /\ plan[p] \subseteq Todo(at[p])

(* Service p has yet to look for what migration n does, or has st in its plan.*)
Ahead(p, n, st) == at[p] < n \/ (at[p] = n /\ (plan[p] = {} \/ st \in plan[p]))

(* It will run st to effect: expires_at goes only after its index.           *)
WillRun(p, n, st) ==
  /\ Ahead(p, n, st)
  /\ st = DropExpires /\ "watch_index" \in schema.columns => Ahead(p, 7, Unindex)

(* What the schema owes, some service has yet to do.                         *)
Repairable ==
  \A n \in 1..18 : \A st \in Repairs(n) : Owed(st, schema) => \E p \in Service : WillRun(p, n, st)

(* A row of the watch path waits for every service to reject it.             *)
LegacyRejected ==
  legacy = "watching" => Watch \subseteq schema.columns /\ \A p \in Service : Ahead(p, 7, Reject)

Settled == settled => schema = Current /\ legacy # "watching" /\ \A p \in Service : plan[p] = {}

DbInv == DbTypeOK /\ Repairable /\ LegacyRejected /\ Settled

LEMMA DbInitInv == DbInit => DbInv
<1> SUFFICES ASSUME DbInit PROVE DbInv
  OBVIOUS
<1>1. schema \in Release BY DbAssumption DEF DbInit
<1>2. /\ at = [p \in Service |-> 0] /\ plan = [p \in Service |-> {}] /\ ~settled
      /\ legacy = "watching" => Watch \subseteq schema.columns
  BY DEF DbInit
<1>3. DbTypeOK BY <1>1, <1>2 DEF DbTypeOK
<1>4. ASSUME NEW p \in Service, NEW n \in 1..18, NEW st PROVE Ahead(p, n, st) BY <1>2 DEF Ahead
<1>5. Repairable BY <1>4, DbAssumption DEF Repairable, WillRun
<1>6. LegacyRejected BY <1>2, <1>4 DEF LegacyRejected
<1> QED BY <1>2, <1>3, <1>5, <1>6 DEF DbInv, Settled

(* A database no service is at work on, and that owes nothing, is current.   *)
ServedCurrent ==
  DbTypeOK /\ Repairable /\ LegacyRejected /\ AllServe(at)
    => schema = Current /\ legacy # "watching" /\ \A p \in Service : plan[p] = {}

LEMMA AllServeCurrent == ServedCurrent
<1> SUFFICES ASSUME DbTypeOK, Repairable, LegacyRejected, AllServe(at)
             PROVE  schema = Current /\ legacy # "watching" /\ \A p \in Service : plan[p] = {}
  BY DEF ServedCurrent
<1>1. \A p \in Service : at[p] = 19 BY OrderIs DEF AllServe
<1>2. ASSUME NEW p \in Service, NEW n \in 1..18, NEW st PROVE ~Ahead(p, n, st) BY <1>1 DEF Ahead
<1>3. ASSUME NEW n \in 1..18, NEW st \in Repairs(n) PROVE ~Owed(st, schema)
  BY <1>2 DEF Repairable, WillRun
<1>4. AllColumns \subseteq schema.columns
  <2> SUFFICES ASSUME NEW c \in AllColumns PROVE c \in schema.columns
    OBVIOUS
  <2>1. CASE c = "claimed_at" BY <2>1 DEF DbTypeOK, Release, Claimed
  <2>2. CASE c # "claimed_at"
    <3>1. PICK m \in DOMAIN Adds : c \in Range(Adds[m]) BY <2>2 DEF AllColumns
    <3>2. PICK i \in DOMAIN Adds[m] : c = Adds[m][i] BY <3>1 DEF Range
    <3>3. PICK n \in 1..18 : Order[n] = m BY <3>1, OrderIs, AddsIs
    <3> DEFINE st == Statement(i, "add", Adds[Order[n]][i])
    <3>4. st \in Adding(n) /\ st.on = c BY <3>2, <3>3 DEF Adding, Statement
    <3> HIDE DEF st
    <3>5. st \in Repairs(n) BY <3>4 DEF Repairs
    <3> QED BY <1>3, <3>4, <3>5, OwedIs
  <2> QED BY <2>1, <2>2
<1>5. schema.types = 4 /\ "watching" \in schema.status
  <2>1. Widen \in Repairs(13) BY DEF Repairs
  <2> QED BY <1>3, <2>1, OwedIs
<1>6. Watch \cap schema.columns = {}
  <2>1. {DropJson, DropExpires} \subseteq Repairs(7) BY DEF Repairs
  <2> QED BY <1>3, <2>1, OwedIs DEF Watch
<1>7. schema = Current
  <2>1. /\ schema \in [types : 0..4, status : SUBSET {"claimed", "watching"},
                       columns : SUBSET (AllColumns \cup Watch \cup {"watch_index"})]
        /\ "claimed" \in schema.status /\ ("watch_index" \in schema.columns => "expires_at" \in schema.columns)
    BY DEF DbTypeOK, Release
  <2>2. schema.columns = AllColumns BY <1>4, <1>6, <2>1 DEF Watch
  <2>3. schema.status = {"claimed", "watching"} BY <1>5, <2>1
  <2> QED BY <1>5, <2>1, <2>2, <2>3 DEF Current
<1>8. legacy # "watching" BY <1>2, DbAssumption DEF LegacyRejected
<1>9. \A p \in Service : plan[p] = {} BY <1>1 DEF DbTypeOK
<1> QED BY <1>7, <1>8, <1>9

LEMMA AllServeCurrentNext == ServedCurrent'
BY AllServeCurrent, PTL

-----------------------------------------------------------------------------
(* Every step keeps it.                                                      *)

LEMMA LookStep ==
  ASSUME DbTypeOK, Repairable, LegacyRejected, NEW p \in Service, Look(p)
  PROVE  DbTypeOK' /\ Repairable' /\ LegacyRejected'
<1> DEFINE m == at[p]
           found == Plan(Order[m], schema)
<1>1. /\ m \in 1..18 /\ plan[p] = {} /\ schema' = schema /\ legacy' = legacy
      /\ plan' = [plan EXCEPT ![p] = found]
  BY OrderIs DEF Look, rows
<1>2. /\ plan'[p] = found
      /\ \A q \in Service \ {p} : plan'[q] = plan[q]
  BY <1>1 DEF DbTypeOK
<1>3. \/ found = {} /\ at' = [at EXCEPT ![p] = m + 1]
      \/ found # {} /\ at' = at
  BY <1>2 DEF Look, Advance
<1>4. /\ at' \in [Service -> 0..19]
      /\ at'[p] = IF found = {} THEN m + 1 ELSE m
      /\ \A q \in Service \ {p} : at'[q] = at[q]
  BY <1>1, <1>3 DEF DbTypeOK
<1>5. found \subseteq Todo(m) BY <1>1, PlanWithin DEF DbTypeOK
<1>6. DbTypeOK' BY <1>1, <1>2, <1>4, <1>5 DEF DbTypeOK
<1>7. ASSUME NEW q \in Service, NEW n \in 1..18, NEW st, Ahead(q, n, st), m = n => st \in found \/ q # p
      PROVE  Ahead(q, n, st)'
  BY <1>1, <1>2, <1>4, <1>7 DEF Ahead, DbTypeOK
<1>8. Repairable'
  <2> SUFFICES ASSUME NEW n \in 1..18, NEW st \in Repairs(n), Owed(st, schema)
               PROVE  \E q \in Service : WillRun(q, n, st)'
    BY <1>1 DEF Repairable
  <2>1. PICK q \in Service : WillRun(q, n, st) BY DEF Repairable
  <2>2. m = n => st \in found BY OwedPlanned DEF DbTypeOK
  <2>3. Ahead(q, n, st)' BY <1>7, <2>1, <2>2 DEF WillRun
  <2>4. ASSUME st = DropExpires, "watch_index" \in schema.columns PROVE Ahead(q, 7, Unindex)'
    <3>1. Ahead(q, 7, Unindex) BY <2>1, <2>4 DEF WillRun
    <3>2. n = 7 BY <2>4, RepairCases, AddingOn DEF DropExpires, Widen, Statement
    <3>3. m = 7 => Unindex \in found BY <2>4, <3>2, OwedPlanned DEF DbTypeOK
    <3> QED BY <1>7, <3>1, <3>3
  <2> QED BY <1>1, <2>3, <2>4 DEF WillRun
<1>9. LegacyRejected'
  <2> SUFFICES ASSUME legacy = "watching" PROVE Watch \subseteq schema.columns /\ \A q \in Service : Ahead(q, 7, Reject)'
    BY <1>1 DEF LegacyRejected
  <2>1. Watch \subseteq schema.columns /\ \A q \in Service : Ahead(q, 7, Reject) BY DEF LegacyRejected
  <2>2. m = 7 => Reject \in found BY <2>1, PlanFixes DEF DbTypeOK, Watch
  <2> QED BY <1>7, <2>1, <2>2
<1> QED BY <1>6, <1>8, <1>9

LEMMA RunStep ==
  ASSUME DbTypeOK, Repairable, LegacyRejected, NEW p \in Service, NEW run \in Due(p), Run(p, run)
  PROVE  DbTypeOK' /\ Repairable' /\ LegacyRejected'
<1> DEFINE m == at[p]
           rest == plan[p] \ {run}
<1>1. /\ run \in plan[p] /\ m \in 1..18 /\ plan[p] \subseteq Todo(m)
      /\ \A other \in plan[p] : run.nth <= other.nth
  BY DEF Due, DbTypeOK
<1>2. /\ ~Fails(run) /\ schema' = Ran(run, schema) /\ plan' = [plan EXCEPT ![p] = rest]
      /\ legacy' = IF run.op = "reject" /\ legacy = "watching" THEN "rejected" ELSE legacy
  BY DEF Run
<1>3. /\ plan'[p] = rest
      /\ \A q \in Service \ {p} : plan'[q] = plan[q]
  BY <1>2 DEF DbTypeOK
<1>4. \/ rest = {} /\ at' = [at EXCEPT ![p] = m + 1]
      \/ rest # {} /\ at' = at
  BY <1>3 DEF Run, Advance
<1>5. /\ at' \in [Service -> 0..19]
      /\ at'[p] = IF rest = {} THEN m + 1 ELSE m
      /\ \A q \in Service \ {p} : at'[q] = at[q]
  BY <1>1, <1>4 DEF DbTypeOK
<1>6. schema' \in Release BY <1>1, <1>2, RanRelease DEF DbTypeOK
<1>7. DbTypeOK' BY <1>1, <1>2, <1>3, <1>5, <1>6 DEF DbTypeOK
<1>8. ASSUME NEW q \in Service, NEW n \in 1..18, NEW st, Ahead(q, n, st), q = p => m < n \/ st # run
      PROVE  Ahead(q, n, st)'
  BY <1>1, <1>3, <1>5, <1>8 DEF Ahead, DbTypeOK
<1>9. ASSUME NEW n \in 1..18, NEW st, m < n PROVE Ahead(p, n, st)'
  BY <1>1, <1>3, <1>5, <1>9 DEF Ahead, DbTypeOK
<1>10. Repairable'
  <2> SUFFICES ASSUME NEW n \in 1..18, NEW st \in Repairs(n), Owed(st, schema')
               PROVE  \E q \in Service : WillRun(q, n, st)'
    BY DEF Repairable
  <2>1. st = DropExpires => n = 7 BY RepairCases, AddingOn DEF DropExpires, Widen, Statement
  <2>2. CASE m < n BY <1>9, <2>1, <2>2 DEF WillRun
  <2>3. CASE ~(m < n)
    <3>1. Owed(st, schema) BY <1>1, <1>2, <2>3, RunOwes DEF DbTypeOK
    <3>2. PICK q \in Service : WillRun(q, n, st) BY <3>1 DEF Repairable
    <3>3. ASSUME st = DropExpires, "watch_index" \in schema'.columns
          PROVE  "watch_index" \in schema.columns /\ run # Unindex
      BY <1>1, <1>2, <2>1, <2>3, <3>3, RunIndexes DEF DbTypeOK
    <3>4. ASSUME q = p PROVE st # run
      <4> SUFFICES ASSUME st = run PROVE FALSE
        OBVIOUS
      <4>1. st = DropExpires => "watch_index" \notin schema.columns
        <5> SUFFICES ASSUME st = DropExpires, "watch_index" \in schema.columns PROVE FALSE
          OBVIOUS
        <5>1. Unindex \in plan[p] BY <1>1, <2>1, <2>3, <3>2, <3>4 DEF WillRun, Ahead, DbTypeOK
        <5> QED BY <1>1, <5>1 DEF Unindex, DropExpires, Statement
      <4> QED BY <1>2, <4>1, RunRepairs DEF DbTypeOK
    <3>5. Ahead(q, n, st)' BY <1>8, <3>2, <3>4 DEF WillRun
    <3>6. ASSUME st = DropExpires, "watch_index" \in schema'.columns PROVE Ahead(q, 7, Unindex)'
      <4>1. Ahead(q, 7, Unindex) /\ run # Unindex BY <3>2, <3>3, <3>6 DEF WillRun
      <4> QED BY <1>8, <4>1
    <3> QED BY <3>5, <3>6 DEF WillRun
  <2> QED BY <2>2, <2>3
<1>11. LegacyRejected'
  <2> SUFFICES ASSUME legacy' = "watching"
               PROVE  Watch \subseteq schema'.columns /\ \A q \in Service : Ahead(q, 7, Reject)'
    BY DEF LegacyRejected
  <2>1. legacy = "watching" /\ run.op # "reject" BY <1>2
  <2>2. Watch \subseteq schema.columns /\ \A q \in Service : Ahead(q, 7, Reject) BY <2>1 DEF LegacyRejected
  <2>3. m < 7
    <3> SUFFICES ASSUME ~(m < 7) PROVE FALSE
      OBVIOUS
    <3>1. m = 7 /\ Reject \in plan[p] BY <1>1, <2>2 DEF Ahead, DbTypeOK
    <3>2. run \in {Reject, Unindex, DropJson, DropExpires} /\ run.nth <= 1
      BY <1>1, <3>1 DEF Todo, Reject, Statement
    <3>3. run = Reject BY <3>2 DEF Unindex, DropJson, DropExpires, Statement
    <3> QED BY <2>1, <3>3 DEF Reject, Statement
  <2>4. m \in 1..6 BY <1>1, <2>3
  <2>5. Watch \subseteq schema'.columns BY <1>1, <1>2, <2>2, <2>4, RunKeepsWatch DEF DbTypeOK
  <2> QED BY <1>8, <2>2, <2>3, <2>5
<1> QED BY <1>7, <1>10, <1>11

LEMMA DownStep ==
  ASSUME DbTypeOK, Repairable, LegacyRejected, NEW p \in Service, Down(p), UNCHANGED <<schema, legacy>>
  PROVE  DbTypeOK' /\ Repairable' /\ LegacyRejected'
<1>1. /\ at' \in [Service -> 0..19] /\ DOMAIN plan' = Service /\ at'[p] = 0 /\ plan'[p] = {}
      /\ \A q \in Service \ {p} : at'[q] = at[q] /\ plan'[q] = plan[q]
  BY DEF Down, DbTypeOK
<1>2. DbTypeOK' BY <1>1 DEF DbTypeOK
<1>3. ASSUME NEW q \in Service, NEW n \in 1..18, NEW st, Ahead(q, n, st) PROVE Ahead(q, n, st)'
  BY <1>1, <1>3 DEF Ahead
<1>4. Repairable' BY <1>3 DEF Repairable, WillRun
<1>5. LegacyRejected' BY <1>3 DEF LegacyRejected
<1> QED BY <1>2, <1>4, <1>5

LEMMA StartStep ==
  ASSUME DbTypeOK, Repairable, LegacyRejected, NEW p \in Service, Start(p)
  PROVE  DbTypeOK' /\ Repairable' /\ LegacyRejected'
<1>1. UNCHANGED <<schema, plan, legacy>> BY DEF Start, rows
<1>2. plan[p] = {} /\ at' \in [Service -> 0..19] /\ at'[p] = 1 /\ \A q \in Service \ {p} : at'[q] = at[q]
  BY DEF Start, DbTypeOK
<1>3. DbTypeOK' BY <1>1, <1>2 DEF DbTypeOK
<1>4. ASSUME NEW q \in Service, NEW n \in 1..18, NEW st, Ahead(q, n, st) PROVE Ahead(q, n, st)'
  BY <1>1, <1>2, <1>4 DEF Ahead
<1>5. Repairable' BY <1>1, <1>4 DEF Repairable, WillRun
<1>6. LegacyRejected' BY <1>1, <1>4 DEF LegacyRejected
<1> QED BY <1>3, <1>5, <1>6

(* What a service does with the database once it has the current schema.     *)
LEMMA SettledStep ==
  ASSUME DbInv, settled, [DbNext]_dbvars
  PROVE  /\ schema' = Current /\ legacy' # "watching" /\ \A p \in Service : plan'[p] = {}
         /\ UNCHANGED rows \/ UNCHANGED <<at, plan>>
         /\ settled'
<1>1. schema = Current /\ legacy # "watching" /\ \A p \in Service : plan[p] = {} BY DEF DbInv, Settled
<1>2. DOMAIN plan = Service /\ at \in [Service -> 0..19] BY DEF DbInv, DbTypeOK
<1>3. CASE OrderMoves BY <1>1, <1>3 DEF OrderMoves
<1>4. CASE UNCHANGED dbvars BY <1>1, <1>4 DEF dbvars
<1>5. ASSUME NEW p \in Service, Start(p) \/ Upgrade(p) \/ Crash(p) \/ Stop(p)
      PROVE  /\ UNCHANGED <<schema, rows>> /\ settled'
             /\ \A q \in Service : plan'[q] = {}
  <2>1. Due(p) = {} BY <1>1 DEF Due
  <2>2. CASE Look(p)
    <3>1. Plan(Order[at[p]], schema) = {} BY <1>1, <2>2, OrderIs, CurrentPlansNothing DEF Look
    <3> QED BY <1>1, <1>2, <2>2, <3>1 DEF Look, Advance
  <2>3. CASE Start(p) BY <1>1, <2>3 DEF Start
  <2>4. CASE Crash(p) BY <1>1, <1>2, <2>4 DEF Crash, Down
  <2>5. CASE Stop(p) BY <1>1, <1>2, <2>5 DEF Stop, Down
  <2> QED BY <1>5, <2>1, <2>2, <2>3, <2>4, <2>5 DEF Upgrade, Execute, Fail
<1>6. ASSUME NEW p \in Service, Start(p) \/ Upgrade(p) \/ Crash(p) \/ Stop(p)
      PROVE  /\ schema' = Current /\ legacy' # "watching" /\ UNCHANGED rows /\ settled'
             /\ \A q \in Service : plan'[q] = {}
  BY <1>1, <1>5, <1>6 DEF rows
<1> QED BY <1>3, <1>4, <1>6 DEF DbNext

LEMMA DbStep == DbInv /\ [DbNext]_dbvars => DbInv'
<1> SUFFICES ASSUME DbInv, [DbNext]_dbvars PROVE DbInv'
  OBVIOUS
<1>1. DbTypeOK /\ Repairable /\ LegacyRejected /\ Settled BY DEF DbInv
<1> DEFINE Kept == DbTypeOK' /\ Repairable' /\ LegacyRejected'
<1>2. ASSUME UNCHANGED <<schema, at, plan, legacy>> PROVE Kept
  BY <1>1, <1>2 DEF DbTypeOK, Repairable, WillRun, Ahead, LegacyRejected
<1>3. ASSUME NEW p \in Service, Look(p) PROVE Kept BY <1>1, <1>3, LookStep
<1>4. ASSUME NEW p \in Service, Execute(p) PROVE Kept
  <2>1. PICK run \in Due(p) : Run(p, run) BY <1>4 DEF Execute
  <2> QED BY <1>1, <2>1, RunStep
<1>5. ASSUME NEW p \in Service, Fail(p) \/ Crash(p) \/ Stop(p) PROVE Kept
  <2>1. Down(p) /\ UNCHANGED <<schema, legacy>> BY <1>5 DEF Fail, Crash, Stop, rows
  <2> QED BY <1>1, <2>1, DownStep
<1>6. ASSUME NEW p \in Service, Start(p) PROVE Kept BY <1>1, <1>6, StartStep
<1>7. Kept
  <2>1. CASE OrderMoves BY <1>2, <2>1 DEF OrderMoves
  <2>2. CASE UNCHANGED dbvars BY <1>2, <2>2 DEF dbvars
  <2>3. ASSUME NEW p \in Service, Start(p) \/ Upgrade(p) \/ Crash(p) \/ Stop(p) PROVE Kept
    BY <1>3, <1>4, <1>5, <1>6, <2>3 DEF Upgrade
  <2> QED BY <2>1, <2>2, <2>3 DEF DbNext
<1>8. settled' => settled \/ AllServe(at')
  <2>1. CASE OrderMoves BY <2>1 DEF OrderMoves
  <2>2. CASE UNCHANGED dbvars BY <2>2 DEF dbvars
  <2>3. ASSUME NEW p \in Service, Start(p) \/ Upgrade(p) \/ Crash(p) \/ Stop(p)
        PROVE  settled' => settled \/ AllServe(at')
    BY <2>3 DEF Start, Upgrade, Look, Execute, Run, Advance, Fail, Crash, Stop
  <2> QED BY <2>1, <2>2, <2>3 DEF DbNext
<1>9. CASE settled BY <1>7, <1>9, SettledStep DEF DbInv, Settled
<1>10. CASE ~settled' BY <1>7, <1>10 DEF DbInv, Settled
<1>11. CASE AllServe(at')
  <2>1. schema' = Current /\ legacy' # "watching" /\ \A p \in Service : plan'[p] = {}
    BY <1>7, <1>11, AllServeCurrentNext DEF ServedCurrent, AllServe
  <2> QED BY <1>7, <2>1 DEF DbInv, Settled
<1> QED BY <1>8, <1>9, <1>10, <1>11

-----------------------------------------------------------------------------
(* The upgrade's theorems.                                                   *)

LEMMA DbSpecInv == DbSpec => []DbInv
BY DbInitInv, DbStep, PTL DEF DbSpec

(* Whatever release a database comes from and however many services upgrade   *)
(* it at once, die and start again: when all of them serve it is current, and *)
(* no row of the removed watch path waits (db.py:22).                         *)
THEOREM UpgradeCompletes == DbSpec => []Upgraded
<1>1. DbInv => Upgraded BY AllServeCurrent DEF ServedCurrent, DbInv, Upgraded
<1> QED BY <1>1, DbSpecInv, PTL

(* Once they have all served, starting or stopping a service changes neither  *)
(* the schema nor the rows waiting in it (db.py:186).                         *)
THEOREM RestartsKeep == DbSpec => RestartKeeps
<1>1. DbInv /\ [DbNext]_dbvars => [settled /\ <<at, plan>>' # <<at, plan>> => UNCHANGED <<schema, rows>>]_dbvars
  <2> SUFFICES ASSUME DbInv, [DbNext]_dbvars, settled, <<at, plan>>' # <<at, plan>> PROVE UNCHANGED <<schema, rows>>
    OBVIOUS
  <2>1. schema = Current BY DEF DbInv, Settled
  <2> QED BY <2>1, SettledStep
<1> QED BY <1>1, DbSpecInv, PTL DEF DbSpec, RestartKeeps

-----------------------------------------------------------------------------
(* The switch.                                                               *)

(* Every setting keeps its values. *)
THEOREM TypeCorrect == Spec => []TypeOK
<1>1. Init => TypeOK BY DEF Init, TypeOK, Reason, BotStep
<1>2. TypeOK /\ [Next]_vars => TypeOK'
  <2> SUFFICES ASSUME TypeOK, [Next]_vars PROVE TypeOK'
    OBVIOUS
  <2>1. CASE Halt \/ HaltReason \/ Resume \/ ResumeReason \/ BotCrash
    BY <2>1 DEF TypeOK, Reason, BotStep, Lift, world, Halt, HaltReason, Resume,
                ResumeReason, BotCrash
  <2>2. CASE GuardRead \/ GuardWrite
    BY <2>2 DEF TypeOK, Reason, BotStep, Lift, world, GuardRead, GuardWrite
  <2>3. CASE Panel
    BY <2>3 DEF TypeOK, Reason, Lift, world, Panel, PanelRead, PanelWrite, RiskTick
  <2>4. CASE World BY <2>4 DEF TypeOK, World
  <2>5. CASE UNCHANGED vars BY <2>5 DEF TypeOK, vars
  <2> QED BY <2>1, <2>2, <2>3, <2>4, <2>5 DEF Next, Bot
<1> QED BY <1>1, <1>2, PTL DEF Spec

(* The tag a confirmed halt leaves behind is never the guard's, and the guard  *)
(* has no decision in flight that was taken before it.                         *)
Confirmed ==
  "operator" \in halts =>
    /\ ks = "on"
    /\ reason \in {"operator", "risk_budget"}
    /\ botStep \in {"idle", "haltReason"}

LEMMA ConfirmedStep == Confirmed /\ [Next]_vars => Confirmed'
<1> SUFFICES ASSUME Confirmed, [Next]_vars PROVE Confirmed'
  OBVIOUS
<1>1. CASE Halt \/ HaltReason \/ BotCrash
  BY <1>1 DEF Confirmed, Halt, HaltReason, BotCrash
<1>2. CASE Resume \/ ResumeReason
  BY <1>2 DEF Confirmed, Lift, Resume, ResumeReason
<1>3. CASE GuardRead BY <1>3 DEF Confirmed, GuardRead
<1>4. CASE GuardWrite BY <1>4 DEF Confirmed, Lift, GuardWrite
<1>5. CASE Panel
  BY <1>5 DEF Confirmed, Lift, Panel, PanelRead, PanelWrite, RiskTick
<1>6. CASE World \/ UNCHANGED vars BY <1>6 DEF Confirmed, World, vars
<1> QED BY <1>1, <1>2, <1>3, <1>4, <1>5, <1>6 DEF Next, Bot

(* Only the operator lifts a halt that /halt has confirmed, whatever the guard,*)
(* the risk monitor and the panel interleave and wherever the bot crashes.     *)
THEOREM ConfirmedHaltStays == Spec => OperatorHaltStays
<1> DEFINE Kept == ks = "on" /\ ks' = "off" /\ "operator" \in halts => OperatorLifts
<1>1. Init => Confirmed BY DEF Init, Confirmed
<1>2. Confirmed /\ [Next]_vars => Kept
  <2> SUFFICES ASSUME Confirmed, [Next]_vars, ks = "on", ks' = "off", "operator" \in halts
               PROVE  OperatorLifts
    OBVIOUS
  <2>1. botStep \in {"idle", "haltReason"} BY DEF Confirmed
  <2>2. CASE Bot
    BY <2>1, <2>2 DEF OperatorLifts, Bot, Halt, HaltReason, Resume, ResumeReason,
                      GuardRead, GuardWrite, BotCrash
  <2>3. CASE Panel
    BY <2>3 DEF OperatorLifts, Panel, PanelRead, PanelWrite, RiskTick
  <2>4. CASE World \/ UNCHANGED vars BY <2>4 DEF World, vars
  <2> QED BY <2>2, <2>3, <2>4 DEF Next
<1> QED BY <1>1, <1>2, ConfirmedStep, PTL DEF Spec, OperatorHaltStays

-----------------------------------------------------------------------------
(* The stack.                                                                *)

(* The services of a stack do to its database what the upgrade alone does, and*)
(* to the two rows of a halt what their writers alone do: what is shown of    *)
(* either holds of both together.                                             *)
THEOREM StackImplements == StackSpec => DbSpec /\ Spec
<1>1. StackInit => DbInit /\ Init BY DEF StackInit
<1>2. [StackNext]_<<vars, dbvars>> => [DbNext]_dbvars /\ [Next]_vars BY DEF StackNext, Services, DbNext
<1> QED BY <1>1, <1>2, PTL DEF StackSpec, DbSpec, Spec
=============================================================================
