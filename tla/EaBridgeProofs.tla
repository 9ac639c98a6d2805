---------------------------- MODULE EaBridgeProofs ----------------------------
(***************************************************************************)
(* What EaBridge guarantees for any number of actions, tickets and EA      *)
(* restarts, whether or not the terminal's table lags; and, in the second  *)
(* half, what Notifications guarantees of the results the EA reports, for  *)
(* any databases, bindings and bounds.                                     *)
(***************************************************************************)
EXTENDS EaBridge, Notifications, FiniteSetTheorems, TLAPS

-----------------------------------------------------------------------------
(* Types. *)

(* Whatever is in hand is what the next step needs: a job while one is         *)
(* executed, a body to report, a ticket to track, a file to drain; and every   *)
(* order the broker has was ordered for an action.                             *)
InHand ==
  /\ at \in {"won", "placed", "report", "replace"} => job \in Job
  /\ at = "report" => job.body \in Body
  /\ at = "placed" => job.ticket \in Ticket
  /\ at = "drain" => \A a \in Action : a \in todo => retry[a] # NULL
  /\ \A t \in Ticket : order[t] # "unused" => origin[t] \in Action

(* The bodies the EA writes. *)
LEMMA BodyTypes ==
  /\ \A s \in {"executed", "rejected", "failed", "watching"} : Say(s) \in Body
  /\ \A t \in Ticket : Executed(t) \in Body
BY DEF Say, Executed, Body

(* A result keeps the types on both sides of the wire. *)
LEMMA PostType ==
  ASSUME TypeOK, NEW a, NEW b \in Body, NEW net, Post(a, b, net)
  PROVE  /\ status' \in [Action -> Status]
         /\ row' \in [Ticket -> {"none", "open", "closed"}]
         /\ retry' \in [Action -> Body \cup {NULL}]
<1>1. b.status \in Status BY DEF Body, Status
<1>2. CASE net = "unsent" BY <1>2 DEF TypeOK, Post
<1>3. CASE net # "unsent" BY <1>1, <1>3 DEF TypeOK, Post, Record
<1> QED BY <1>2, <1>3

(* Every step keeps the types and what is in hand. *)
LEMMA TypeStep == TypeOK /\ InHand /\ [Next]_vars => TypeOK' /\ InHand'
<1> SUFFICES ASSUME TypeOK, InHand, [Next]_vars PROVE TypeOK' /\ InHand'
  OBVIOUS
<1> USE DEF db, broker, memory, control, terminal
<1>1. ASSUME NEW t \in Ticket, NEW net \in Net, ManageFilled(t, net)
      PROVE  TypeOK' /\ InHand'
  <2>1. Post(origin[t], Executed(t), net) /\ Executed(t) \in Body
    BY <1>1, BodyTypes DEF ManageFilled
  <2> QED BY <1>1, <2>1, PostType DEF TypeOK, InHand, ManageFilled, Managing
<1>2. ASSUME NEW t \in Ticket, NEW net \in Net, ManageVanished(t, net)
      PROVE  TypeOK' /\ InHand'
  <2>1. Post(origin[t], Say("rejected"), net) /\ Say("rejected") \in Body
    BY <1>2, BodyTypes DEF ManageVanished
  <2> QED BY <1>2, <2>1, PostType DEF TypeOK, InHand, ManageVanished, Managing
<1>3. ASSUME NEW t \in Ticket, NEW net \in Net, ResizeInfeasible(t, net)
      PROVE  TypeOK' /\ InHand'
  <2>1. Post(origin[t], Say("failed"), net) /\ Say("failed") \in Body
    BY <1>3, BodyTypes DEF ResizeInfeasible
  <2> QED BY <1>3, <2>1, PostType DEF TypeOK, InHand, ResizeInfeasible, Managing
<1>4. ASSUME NEW t \in Ticket, ManageWaits(t) PROVE TypeOK' /\ InHand'
  BY <1>4 DEF TypeOK, InHand, ManageWaits, Managing
<1>5. ASSUME NEW t \in Ticket, ManageCancelled(t) PROVE TypeOK' /\ InHand'
  BY <1>5 DEF TypeOK, InHand, ManageCancelled, Managing
<1>6. ASSUME NEW t \in Ticket, ResizeDelete(t) PROVE TypeOK' /\ InHand'
  <2>1. job' \in Job BY <1>6 DEF InHand, ResizeDelete, Job
  <2> QED BY <1>6, <2>1 DEF TypeOK, InHand, ResizeDelete, Managing, At
<1>7. CASE Poll BY <1>7 DEF TypeOK, InHand, Poll, At
<1>8. ASSUME NEW a \in Action, NEW net \in Net, Claim(a, net) PROVE TypeOK' /\ InHand'
  <2>1. at' = "won" => job' \in Job BY <1>8 DEF InHand, Claim, Job
  <2>2. job' \in Job \cup {NULL} BY <1>8 DEF TypeOK, Claim, Job
  <2> QED BY <1>8, <2>1, <2>2 DEF TypeOK, InHand, Claim, At, Status
<1>9. ASSUME NEW b \in Body, Reporting(b), job \in Job
      PROVE  /\ at' \in At /\ job' \in Job
             /\ at' = "report" /\ job'.body \in Body
  BY <1>9 DEF Reporting, Job, At
<1>10. CASE RejectOpen \/ Dedupe \/ Refuse
  <2>1. job \in Job BY <1>10 DEF InHand, RejectOpen, Dedupe, Refuse
  <2>2. PICK b \in Body : Reporting(b)
    BY <1>10, BodyTypes DEF RejectOpen, Dedupe, Refuse
  <2> QED BY <1>9, <1>10, <2>1, <2>2 DEF TypeOK, InHand, RejectOpen, Dedupe, Refuse
<1>11. ASSUME NEW t \in Ticket, MarketFill(t) PROVE TypeOK' /\ InHand'
  <2>1. job \in Job /\ job.act \in Action BY <1>11 DEF InHand, MarketFill, Job
  <2>2. Reporting(Executed(t)) /\ Executed(t) \in Body
    BY <1>11, BodyTypes DEF MarketFill
  <2> QED BY <1>9, <1>11, <2>1, <2>2 DEF TypeOK, InHand, MarketFill
<1>12. ASSUME NEW t \in Ticket, PlaceLimit(t) PROVE TypeOK' /\ InHand'
  <2>1. job \in Job /\ job.act \in Action BY <1>12 DEF InHand, PlaceLimit, Job
  <2>2. job' \in Job /\ job'.ticket = t BY <1>12, <2>1 DEF PlaceLimit, Job
  <2> QED BY <1>12, <2>1, <2>2 DEF TypeOK, InHand, PlaceLimit, At
<1>13. CASE Track
  <2>1. job \in Job /\ job.ticket \in Ticket BY <1>13 DEF InHand, Track
  <2>2. Reporting(Say("watching")) /\ Say("watching") \in Body
    BY <1>13, BodyTypes DEF Track
  <2>3. at' = "report" /\ job' \in Job /\ job'.body \in Body BY <1>9, <2>1, <2>2
  <2>4. tracked' \subseteq Ticket /\ resize' \subseteq Action
    BY <1>13, <2>1 DEF TypeOK, Track
  <2>5. UNCHANGED <<status, row, broker, todo, retry, recent, terminal>> BY <1>13 DEF Track
  <2> QED BY <2>3, <2>4, <2>5 DEF TypeOK, InHand, At
<1>14. ASSUME NEW net \in Net, Report(net) PROVE TypeOK' /\ InHand'
  <2>1. job \in Job /\ job.body \in Body BY <1>14 DEF InHand, Report
  <2>2. at' \in {"manage", "execute"} BY <1>14, <2>1 DEF Report, Job
  <2>3. Post(job.act, job.body, net) BY <1>14 DEF Report
  <2> QED BY <1>14, <2>1, <2>2, <2>3, PostType DEF TypeOK, InHand, Report, At
<1>15. ASSUME NEW t \in Ticket, NEW net \in Net, CloseByEa(t, net)
       PROVE  TypeOK' /\ InHand'
  <2>1. row' \in [Ticket -> {"none", "open", "closed"}] BY <1>15 DEF TypeOK, CloseByEa
  <2>2. /\ order' = [order EXCEPT ![t] = "gone"]
        /\ order[t] = "open"
        /\ seen' \subseteq seen
        /\ UNCHANGED <<status, resize, origin, control, memory, warm, crashes>>
    BY <1>15 DEF CloseByEa, Visible, Open
  <2> QED BY <2>1, <2>2 DEF TypeOK, InHand
<1>16. CASE StartReconcile \/ StartDrain \/ StartManage
  BY <1>16 DEF TypeOK, InHand, StartReconcile, StartDrain, StartManage, At
<1>17. ASSUME NEW t \in Ticket, NEW net \in Net, Reconcile(t, net)
       PROVE  TypeOK' /\ InHand'
  <2>1. Reconciled(t) \in {"none", "open", "closed"} BY DEF TypeOK, Reconciled
  <2> QED BY <1>17, <2>1 DEF TypeOK, InHand, Reconcile
<1>18. ASSUME NEW a \in Action, NEW net \in Net, Drain(a, net) PROVE TypeOK' /\ InHand'
  <2>1. retry[a] \in Body BY <1>18 DEF TypeOK, InHand, Drain
  <2>2. retry[a].status \in Status BY <2>1 DEF Body, Status
  <2> QED BY <1>18, <2>2 DEF TypeOK, InHand, Drain, Record
<1>19. ASSUME NEW a \in Action, DrainExpired(a) PROVE TypeOK' /\ InHand'
  BY <1>19 DEF TypeOK, InHand, DrainExpired
<1>20. CASE Crash
  <2>1. crashes' \in 0 .. MaxCrash BY <1>20, CrashAssumption DEF TypeOK, Crash
  <2>2. at' = "down" /\ at' \in At BY <1>20 DEF Crash, At
  <2>3. warm' \in BOOLEAN /\ todo' \subseteq Ticket BY <1>20 DEF Crash
  <2>4. recent' \subseteq Ticket /\ seen' \subseteq Ticket /\ job' \in Job \cup {NULL}
    BY <1>20 DEF Crash
  <2>5. UNCHANGED <<db, broker, tracked, retry>> BY <1>20 DEF Crash
  <2> QED BY <2>1, <2>2, <2>3, <2>4, <2>5 DEF TypeOK, InHand
<1>21. CASE Restart BY <1>21 DEF TypeOK, InHand, Restart, At
<1>22. CASE Refresh \/ WarmedUp BY <1>22 DEF TypeOK, InHand, Refresh, WarmedUp
<1>23. ASSUME NEW t \in Ticket, GraceEnds(t) PROVE TypeOK' /\ InHand'
  BY <1>23 DEF TypeOK, InHand, GraceEnds
<1>24. ASSUME NEW t \in Ticket, LimitFills(t) \/ OrderGone(t) PROVE TypeOK' /\ InHand'
  BY <1>24 DEF TypeOK, InHand, LimitFills, OrderGone
<1>25. CASE CancelPending BY <1>25 DEF TypeOK, InHand, CancelPending, Status
<1>26. ASSUME NEW a \in Action, Recycle(a) \/ RequestResize(a) PROVE TypeOK' /\ InHand'
  BY <1>26 DEF TypeOK, InHand, Recycle, RequestResize, Status
<1>27. CASE UNCHANGED vars BY <1>27 DEF TypeOK, InHand, vars
<1> QED
  BY <1>1, <1>2, <1>3, <1>4, <1>5, <1>6, <1>7, <1>8, <1>10, <1>11, <1>12, <1>13,
     <1>14, <1>15, <1>16, <1>17, <1>18, <1>19, <1>20, <1>21, <1>22, <1>23, <1>24,
     <1>25, <1>26, <1>27
  DEF Next, OnTimer, ManageOrder, Execute, Terminal, Broker, Backend

LEMMA TypeInit == Init => TypeOK /\ InHand
<1> SUFFICES ASSUME Init PROVE TypeOK /\ InHand
  OBVIOUS
<1>1. at = "manage" /\ at \in At BY DEF Init, At
<1>2. crashes \in 0 .. MaxCrash BY CrashAssumption DEF Init
<1>3. warm \in BOOLEAN /\ todo \subseteq Ticket /\ job \in Job \cup {NULL} BY DEF Init
<1>4. status \in [Action -> Status] BY DEF Init, Status
<1>5. /\ row \in [Ticket -> {"none", "open", "closed"}]
      /\ order \in [Ticket -> {"unused", "limit", "dropped", "open", "gone"}]
      /\ origin \in [Ticket -> Action \cup {NULL}]
      /\ retry \in [Action -> Body \cup {NULL}]
      /\ \A t \in Ticket : order[t] = "unused"
  BY DEF Init
<1>6. /\ resize \subseteq Action /\ tracked \subseteq Ticket
      /\ recent \subseteq Ticket /\ seen \subseteq Ticket
  BY DEF Init
<1> QED BY <1>1, <1>2, <1>3, <1>4, <1>5, <1>6 DEF TypeOK, InHand

(* Every variable keeps its domain, for any actions, tickets and restarts. *)
THEOREM TypeCorrect == Spec => []TypeOK
BY TypeInit, TypeStep, PTL DEF Spec

-----------------------------------------------------------------------------
(* The positions table against the account.  Next to what is in hand the       *)
(* invariant says three things.  A ticket the EA speaks of, in the table, in   *)
(* the queue or in its next report, belongs to a position that exists or       *)
(* existed, and a closed row to one that is gone.  Of a warm EA: such a        *)
(* position, if it is open, is visible or within its grace period.  The        *)
(* reconciler works only when warm.                                            *)
Queued(t) == \E a \in Action : retry[a] # NULL /\ retry[a].ticket = t
Reported(t) == at = "report" /\ job.body.ticket = t
Mentioned(t) == row[t] = "open" \/ Queued(t) \/ Reported(t)

Accounted ==
  /\ \A t \in Ticket : Mentioned(t) => order[t] \in {"open", "gone"}
  /\ \A t \in Ticket : row[t] = "closed" => order[t] = "gone"
  /\ \A t \in Ticket : Open(t) /\ warm /\ Mentioned(t) => Visible(t) \/ t \in recent
  /\ at = "reconcile" /\ todo # {} => warm

(* The tickets of the bodies. *)
LEMMA BodyTickets ==
  /\ \A s, t \in Ticket : Executed(t).ticket = s => s = t
  /\ \A s, t : t \in Ticket => Say(s).ticket # t
BY NullAssumption DEF Say, Executed

(* A result adds no mention of any ticket but its own, and no row twice. *)
LEMMA PostMentions ==
  ASSUME TypeOK, NEW a, NEW b \in Body, NEW net, Post(a, b, net), NEW t \in Ticket
  PROVE  /\ row'[t] = row[t] \/ (row[t] = "none" /\ row'[t] = "open" /\ b.ticket = t)
         /\ Queued(t)' => Queued(t) \/ b.ticket = t
<1>1. row'[t] = row[t] \/ (row[t] = "none" /\ row'[t] = "open" /\ b.ticket = t)
  BY DEF TypeOK, Post, Record
<1>2. ASSUME NEW c \in Action, retry'[c] # NULL, retry'[c].ticket = t
      PROVE  Queued(t) \/ b.ticket = t
  BY <1>2 DEF TypeOK, Post, Queued
<1> QED BY <1>1, <1>2 DEF Queued

(* Nothing is said of any ticket that was not said before, and none changes at *)
(* the broker: such a step keeps the account.                                  *)
LEMMA SilentStep ==
  ASSUME Accounted,
         \A t \in Ticket : Mentioned(t)' => Mentioned(t),
         \A t \in Ticket : row'[t] = "closed" => row[t] = "closed",
         \A t \in Ticket : Open(t)' => Open(t),
         \A t \in Ticket : order[t] = "gone" => order'[t] = "gone",
         \A t \in Ticket : order[t] = "open" => order'[t] \in {"open", "gone"},
         \A t \in Ticket : Open(t)' /\ Visible(t) => Visible(t)',
         recent \subseteq recent', warm' => warm,
         at' = "reconcile" /\ todo' # {} => warm'
  PROVE  Accounted'
BY DEF Accounted, Open

(* A step that writes neither table nor queue and reports nothing, or nothing  *)
(* about a ticket, adds no mention.                                            *)
LEMMA NoMention ==
  ASSUME UNCHANGED <<row, retry>>,
         at' = "report" => (UNCHANGED <<at, job>> \/ \E s : Reporting(Say(s)) /\ job \in Job)
  PROVE  \A t \in Ticket : Mentioned(t)' => Mentioned(t)
<1> SUFFICES ASSUME NEW t \in Ticket, Mentioned(t)' PROVE Mentioned(t)
  OBVIOUS
<1>1. Queued(t)' => Queued(t) BY DEF Queued
<1>2. Reported(t)' => Reported(t)
  <2>1. ASSUME NEW s, Reporting(Say(s)), job \in Job PROVE job'.body.ticket # t
    BY <2>1, BodyTickets DEF Reporting, Job
  <2> QED BY <2>1 DEF Reported
<1> QED BY <1>1, <1>2 DEF Mentioned

(* A result the EA posts, with its ticket NULL or visible, keeps the account.  *)
LEMMA PostStep ==
  ASSUME TypeOK, Accounted, NEW a, NEW b \in Body, NEW net, Post(a, b, net),
         \A t \in Ticket : b.ticket = t =>
           /\ order[t] \in {"open", "gone"}
           /\ Open(t) /\ warm => Visible(t) \/ t \in recent',
         at' \in {"manage", "execute"}, UNCHANGED <<order, seen, warm>>,
         recent \subseteq recent'
  PROVE  Accounted'
<1>1. ASSUME NEW t \in Ticket, Mentioned(t)' PROVE Mentioned(t) \/ b.ticket = t
  BY <1>1, PostMentions DEF Mentioned, Reported
<1>2. ASSUME NEW t \in Ticket, row'[t] = "closed" PROVE row[t] = "closed"
  BY <1>2, PostMentions
<1> QED BY <1>1, <1>2 DEF Accounted, Open, Visible

(* A queued result is delivered: what the queue said, the table may say.       *)
LEMMA DrainStep ==
  ASSUME TypeOK, InHand, Accounted, NEW a \in Action, NEW net \in Net, Drain(a, net)
  PROVE  Accounted'
<1>1. retry[a] \in Body /\ retry[a] # NULL BY DEF TypeOK, InHand, Drain
<1>2. ASSUME NEW t \in Ticket
      PROVE  row'[t] = row[t] \/ (row[t] = "none" /\ row'[t] = "open" /\ retry[a].ticket = t)
  BY DEF TypeOK, Drain, Record
<1>3. at' = "drain" /\ UNCHANGED <<order, seen, warm, recent>>
  BY DEF Drain, broker, terminal
<1>4. ASSUME NEW t \in Ticket, Mentioned(t)' PROVE Mentioned(t)
  <2>1. Queued(t)' => Queued(t) BY DEF TypeOK, Drain, Queued
  <2>2. row'[t] = "open" => row[t] = "open" \/ Queued(t) BY <1>1, <1>2 DEF Queued
  <2> QED BY <1>3, <1>4, <2>1, <2>2 DEF Mentioned, Reported
<1> QED BY <1>2, <1>3, <1>4, SilentStep DEF Open, Visible

(* The reconciler, warm, strikes off a ticket only when it is gone, and enters *)
(* only what it sees.                                                          *)
LEMMA ReconcileFinds ==
  ASSUME TypeOK, Accounted, NEW t \in Ticket, NEW net \in Net, Reconcile(t, net)
  PROVE  /\ Reconciled(t) # row[t] =>
              \/ row[t] = "open" /\ Reconciled(t) = "closed" /\ order[t] = "gone"
              \/ row[t] = "none" /\ Reconciled(t) = "open" /\ Visible(t)
         /\ warm
<1>1. warm BY DEF Accounted, Reconcile
<1>2. row[t] = "open" => order[t] \in {"open", "gone"} BY DEF Accounted, Mentioned
<1>3. row[t] = "open" /\ ~Visible(t) /\ t \notin recent => ~Open(t)
  BY <1>1 DEF Accounted, Mentioned
<1> QED BY <1>1, <1>2, <1>3 DEF Reconciled, Open

LEMMA ReconcileStep ==
  ASSUME TypeOK, Accounted, NEW t \in Ticket, NEW net \in Net, Reconcile(t, net)
  PROVE  Accounted'
<1>1. /\ at' = "reconcile" /\ warm /\ warm'
      /\ UNCHANGED <<order, seen, recent, retry, job>>
  BY ReconcileFinds DEF Reconcile, broker, memory, terminal
<1>2. ASSUME NEW u \in Ticket, row'[u] # row[u]
      PROVE  u = t /\ row'[u] = Reconciled(t)
  BY <1>2 DEF TypeOK, Reconcile
<1>3. ASSUME NEW u \in Ticket, Mentioned(u)' PROVE Mentioned(u) \/ Visible(u)
  BY <1>1, <1>2, <1>3, ReconcileFinds DEF Mentioned, Queued, Reported
<1>4. ASSUME NEW u \in Ticket, row'[u] = "closed" PROVE order[u] = "gone"
  BY <1>2, <1>4, ReconcileFinds DEF Accounted
<1> QED BY <1>1, <1>3, <1>4 DEF Accounted, Open, Visible

(* Every step keeps the account. *)
LEMMA AccountStep == TypeOK /\ InHand /\ Accounted /\ [Next]_vars => Accounted'
<1> SUFFICES ASSUME TypeOK, InHand, Accounted, [Next]_vars PROVE Accounted'
  OBVIOUS
<1> USE DEF db, broker, memory, control, terminal
<1>1. ASSUME NEW t \in Ticket, NEW net \in Net, ManageFilled(t, net) PROVE Accounted'
  <2>1. Post(origin[t], Executed(t), net) /\ Executed(t) \in Body /\ t \in recent'
    BY <1>1, BodyTypes DEF ManageFilled
  <2>2. at' = "manage" /\ UNCHANGED <<order, seen, warm>> /\ recent \subseteq recent' /\ Open(t)
    BY <1>1 DEF ManageFilled, Managing, Visible
  <2> QED BY <2>1, <2>2, BodyTickets, PostStep DEF Open
<1>2. ASSUME NEW t \in Ticket, NEW net \in Net, ManageVanished(t, net) \/ ResizeInfeasible(t, net)
      PROVE  Accounted'
  <2>1. PICK s \in {"rejected", "failed"} : Post(origin[t], Say(s), net)
    BY <1>2 DEF ManageVanished, ResizeInfeasible
  <2>2. at' = "manage" /\ UNCHANGED <<order, seen, warm, recent>>
    BY <1>2 DEF ManageVanished, ResizeInfeasible, Managing
  <2> QED BY <2>1, <2>2, BodyTypes, BodyTickets, PostStep
<1>3. ASSUME NEW t \in Ticket, ManageWaits(t) \/ ManageCancelled(t) \/ ResizeDelete(t)
      PROVE  Accounted'
  <2>1. /\ UNCHANGED <<row, retry, seen, recent, warm>>
        /\ at' \in {"manage", "replace"}
        /\ \/ UNCHANGED order
           \/ order[t] = "limit" /\ order' = [order EXCEPT ![t] = "dropped"]
    BY <1>3 DEF ManageWaits, ManageCancelled, ResizeDelete, Managing
  <2>2. \A u \in Ticket : Mentioned(u)' => Mentioned(u) BY <2>1, NoMention
  <2> QED BY <2>1, <2>2, SilentStep DEF TypeOK, Open, Visible
<1>4. ASSUME NEW a \in Action, NEW net \in Net, Claim(a, net) PROVE Accounted'
  <2>1. UNCHANGED <<row, retry, order, seen, recent, warm>> /\ at' \in {"execute", "won"}
    BY <1>4 DEF Claim
  <2>2. \A u \in Ticket : Mentioned(u)' => Mentioned(u) BY <2>1, NoMention
  <2> QED BY <2>1, <2>2, SilentStep DEF Open, Visible
<1>5. CASE Poll
  <2>1. UNCHANGED <<row, retry, order, seen, recent, warm>> /\ at' = "execute"
    BY <1>5 DEF Poll
  <2>2. \A u \in Ticket : Mentioned(u)' => Mentioned(u) BY <2>1, NoMention
  <2> QED BY <2>1, <2>2, SilentStep DEF Open, Visible
<1>6. CASE RejectOpen \/ Refuse \/ Dedupe \/ Track
  <2>1. PICK s : Reporting(Say(s)) BY <1>6 DEF RejectOpen, Refuse, Dedupe, Track
  <2>2. /\ UNCHANGED <<row, retry, order, seen, recent, warm>>
        /\ job \in Job
    BY <1>6 DEF InHand, RejectOpen, Refuse, Dedupe, Track
  <2>3. at' = "report" BY <2>1 DEF Reporting
  <2>4. \A u \in Ticket : Mentioned(u)' => Mentioned(u) BY <2>1, <2>2, NoMention
  <2> QED BY <2>2, <2>3, <2>4, SilentStep DEF Open, Visible
<1>7. ASSUME NEW t \in Ticket, MarketFill(t) PROVE Accounted'
  <2>1. /\ order[t] = "unused" /\ order' = [order EXCEPT ![t] = "open"]
        /\ UNCHANGED <<row, retry, seen, warm>> /\ recent' = recent \cup {t}
        /\ at' = "report" /\ job'.body = Executed(t)
    BY <1>7 DEF InHand, MarketFill, Reporting, Job
  <2>2. ASSUME NEW u \in Ticket, Mentioned(u)' PROVE Mentioned(u) \/ u = t
    BY <2>1, <2>2, BodyTickets DEF Mentioned, Queued, Reported
  <2> QED BY <2>1, <2>2 DEF TypeOK, Accounted, Open, Visible
<1>8. ASSUME NEW t \in Ticket, PlaceLimit(t) PROVE Accounted'
  <2>1. /\ order[t] = "unused" /\ order' = [order EXCEPT ![t] = "limit"]
        /\ UNCHANGED <<row, retry, seen, recent, warm>> /\ at' = "placed"
    BY <1>8 DEF PlaceLimit
  <2>2. \A u \in Ticket : Mentioned(u)' => Mentioned(u) BY <2>1, NoMention
  <2> QED BY <2>1, <2>2, SilentStep DEF TypeOK, Open, Visible
<1>9. ASSUME NEW net \in Net, Report(net) PROVE Accounted'
  <2>1. /\ Post(job.act, job.body, net) /\ job.body \in Body
        /\ at' \in {"manage", "execute"} /\ UNCHANGED <<order, seen, recent, warm>>
    BY <1>9 DEF InHand, Report, Job
  <2>2. ASSUME NEW t \in Ticket, job.body.ticket = t PROVE Mentioned(t)
    BY <1>9, <2>2 DEF Report, Mentioned, Reported
  <2>3. \A t \in Ticket : job.body.ticket = t =>
           /\ order[t] \in {"open", "gone"}
           /\ Open(t) /\ warm => Visible(t) \/ t \in recent'
    BY <2>1, <2>2 DEF Accounted
  <2> QED BY <2>1, <2>3, PostStep
<1>10. ASSUME NEW t \in Ticket, NEW net \in Net, CloseByEa(t, net) PROVE Accounted'
  <2>1. /\ order[t] = "open" /\ order' = [order EXCEPT ![t] = "gone"]
        /\ UNCHANGED <<at, job, todo, retry, recent, warm>> /\ seen' = seen \ {t}
        /\ \A u \in Ticket : row'[u] = row[u] \/ (u = t /\ row'[u] = "closed")
    BY <1>10 DEF TypeOK, CloseByEa, Visible, Open
  <2>2. ASSUME NEW u \in Ticket, Mentioned(u)' PROVE Mentioned(u)
    BY <2>1, <2>2 DEF Mentioned, Queued, Reported
  <2> QED BY <2>1, <2>2 DEF TypeOK, Accounted, Open, Visible
<1>11. CASE StartReconcile \/ StartDrain \/ StartManage
  <2>1. /\ UNCHANGED <<row, retry, order, seen, recent, warm>>
        /\ at' \in {"reconcile", "drain", "manage"}
        /\ at' = "reconcile" /\ todo' # {} => warm'
    BY <1>11 DEF StartReconcile, StartDrain, StartManage
  <2>2. \A u \in Ticket : Mentioned(u)' => Mentioned(u) BY <2>1, NoMention
  <2> QED BY <2>1, <2>2, SilentStep DEF Open, Visible
<1>12. ASSUME NEW t \in Ticket, NEW net \in Net, Reconcile(t, net) PROVE Accounted'
  BY <1>12, ReconcileStep
<1>13. ASSUME NEW a \in Action, NEW net \in Net, Drain(a, net) PROVE Accounted'
  BY <1>13, DrainStep
<1>14. ASSUME NEW a \in Action, DrainExpired(a) PROVE Accounted'
  <2>1. UNCHANGED <<row, order, seen, recent, warm>> /\ at' = "drain"
    BY <1>14 DEF DrainExpired
  <2>2. \A u \in Ticket : Queued(u)' => Queued(u)
    BY <1>14 DEF TypeOK, DrainExpired, Queued
  <2>3. \A u \in Ticket : Mentioned(u)' => Mentioned(u)
    BY <2>1, <2>2 DEF Mentioned, Reported
  <2> QED BY <2>1, <2>3, SilentStep DEF Open, Visible
<1>15. CASE Crash \/ Restart
  <2>1. /\ UNCHANGED <<row, retry, order>> /\ at' \in {"down", "manage"}
        /\ \/ ~warm'
           \/ UNCHANGED <<recent, seen, warm>>
    BY <1>15 DEF Crash, Restart
  <2>2. \A u \in Ticket : Mentioned(u)' => Mentioned(u) BY <2>1, NoMention
  <2> QED BY <2>1, <2>2 DEF Accounted, Open, Visible
<1>16. CASE Refresh \/ WarmedUp
  <2>1. /\ UNCHANGED <<row, retry, order, at, job, todo, recent>>
        /\ at # "reconcile" \/ todo = {} \/ warm'
        /\ \A u \in Ticket :
             Open(u) => (((warm' => warm) /\ (Visible(u) => Visible(u)')) \/ Visible(u)')
    BY <1>16 DEF Accounted, Refresh, WarmedUp, Visible, Open
  <2>2. \A u \in Ticket : Mentioned(u)' => Mentioned(u) BY <2>1, NoMention
  <2> QED BY <2>1, <2>2 DEF Accounted, Open
<1>17. ASSUME NEW t \in Ticket, GraceEnds(t) PROVE Accounted'
  <2>1. /\ UNCHANGED <<row, retry, order, at, job, todo, seen, warm>>
        /\ recent' = recent \ {t} /\ (Open(t) => Visible(t))
    BY <1>17 DEF GraceEnds
  <2>2. \A u \in Ticket : Mentioned(u)' => Mentioned(u) BY <2>1, NoMention
  <2> QED BY <2>1, <2>2 DEF Accounted, Open, Visible
<1>18. ASSUME NEW t \in Ticket, LimitFills(t) \/ OrderGone(t) PROVE Accounted'
  <2>1. /\ UNCHANGED <<row, retry, at, job, todo, recent, warm>>
        /\ seen' = seen \ {t} \/ UNCHANGED seen
        /\ \/ order[t] = "limit" /\ order' = [order EXCEPT ![t] = "open"]
           \/ order[t] = "limit" /\ order' = [order EXCEPT ![t] = "dropped"]
           \/ order[t] = "open" /\ order' = [order EXCEPT ![t] = "gone"]
    BY <1>18 DEF LimitFills, OrderGone
  <2>2. \A u \in Ticket : Mentioned(u)' => Mentioned(u) BY <2>1, NoMention
  <2>3. order[t] = "limit" => ~Mentioned(t) /\ row[t] # "closed" BY DEF Accounted
  <2> QED BY <2>1, <2>2, <2>3 DEF TypeOK, Accounted, Open, Visible
<1>19. ASSUME NEW a \in Action, Recycle(a) \/ RequestResize(a)
       PROVE  Accounted'
  <2>1. UNCHANGED <<row, retry, order, at, job, todo, seen, recent, warm>>
    BY <1>19 DEF Recycle, RequestResize
  <2> QED BY <2>1 DEF Accounted, Mentioned, Queued, Reported, Open, Visible
<1>20. CASE CancelPending \/ UNCHANGED vars
  <2>1. UNCHANGED <<row, retry, order, at, job, todo, seen, recent, warm>>
    BY <1>20 DEF CancelPending, vars
  <2> QED BY <2>1 DEF Accounted, Mentioned, Queued, Reported, Open, Visible
<1> QED
  BY <1>1, <1>2, <1>3, <1>4, <1>5, <1>6, <1>7, <1>8, <1>9, <1>10, <1>11, <1>12,
     <1>13, <1>14, <1>15, <1>16, <1>17, <1>18, <1>19, <1>20
  DEF Next, OnTimer, ManageOrder, Execute, Terminal, Broker, Backend

LEMMA AccountInit == Init => Accounted
BY DEF Init, Accounted, Mentioned, Queued, Reported

(* No position is ever struck off while it lives, for any lag of the           *)
(* terminal's table, any restarts and any lost posts.                          *)
THEOREM LiveNeverStruck == Spec => []LiveNeverClosed
<1>1. Accounted => LiveNeverClosed BY DEF Accounted, LiveNeverClosed, Open
<1> QED BY <1>1, TypeInit, AccountInit, TypeStep, AccountStep, PTL DEF Spec

-----------------------------------------------------------------------------
(* The refinement. *)

(* A result posted about a position that exists or existed enters it. *)
LEMMA BookPost ==
  ASSUME TypeOK, UNCHANGED order, NEW b \in Body,
         \A t \in Ticket : b.ticket = t => order[t] \in {"open", "gone"},
         \A t \in Ticket : row'[t] = row[t]
            \/ (row[t] = "none" /\ row'[t] = "open" /\ b.ticket = t),
         row' \in [Ticket -> {"none", "open", "closed"}]
  PROVE  [Book!Next]_(Book!vars)
<1>1. UNCHANGED Live BY DEF Live
<1>2. CASE row' = row BY <1>1, <1>2 DEF Book!vars
<1>3. CASE row' # row
  <2>1. PICK t \in Ticket : row'[t] # row[t] BY <1>3 DEF TypeOK
  <2>2. /\ row[t] = "none" /\ b.ticket = t /\ order[t] \in {"open", "gone"}
        /\ row' = [row EXCEPT ![t] = "open"]
    BY <2>1 DEF TypeOK
  <2>3. Live[t] = order[t] BY <2>2 DEF Live
  <2>4. Book!Enter(t) \/ Book!EnterLate(t)
    BY <1>1, <2>2, <2>3 DEF Book!Enter, Book!EnterLate
  <2> QED BY <2>4 DEF Book!Next
<1> QED BY <1>2, <1>3

(* A change of one order, seen from the book. *)
LEMMA LiveChange ==
  ASSUME TypeOK, NEW t \in Ticket, NEW s, order' = [order EXCEPT ![t] = s]
  PROVE  /\ s \in {"open", "gone"} => Live' = [Live EXCEPT ![t] = s]
         /\ s \notin {"open", "gone"} /\ order[t] \notin {"open", "gone"} => UNCHANGED Live
BY DEF TypeOK, Live

(* Every step of the bridge is a step of the book, or none. *)
LEMMA BookStep ==
  TypeOK /\ InHand /\ Accounted /\ [Next]_vars => [Book!Next]_(Book!vars)
<1> SUFFICES ASSUME TypeOK, InHand, Accounted, [Next]_vars PROVE [Book!Next]_(Book!vars)
  OBVIOUS
<1> USE DEF db, broker, memory, control, terminal
<1>1. ASSUME NEW t \in Ticket, NEW net \in Net, ManageFilled(t, net)
      PROVE  [Book!Next]_(Book!vars)
  <2>1. /\ Post(origin[t], Executed(t), net) /\ Executed(t) \in Body
        /\ UNCHANGED order /\ order[t] = "open"
    BY <1>1, BodyTypes DEF ManageFilled, Visible, Open
  <2>2. /\ row' \in [Ticket -> {"none", "open", "closed"}]
        /\ \A u \in Ticket : row'[u] = row[u]
              \/ (row[u] = "none" /\ row'[u] = "open" /\ Executed(t).ticket = u)
    BY <2>1, PostType, PostMentions
  <2> QED BY <2>1, <2>2, BodyTickets, BookPost
<1>2. ASSUME NEW t \in Ticket, NEW net \in Net, ManageVanished(t, net) \/ ResizeInfeasible(t, net)
      PROVE  [Book!Next]_(Book!vars)
  <2>1. PICK s \in {"rejected", "failed"} : Post(origin[t], Say(s), net)
    BY <1>2 DEF ManageVanished, ResizeInfeasible
  <2>2. /\ row' \in [Ticket -> {"none", "open", "closed"}]
        /\ \A u \in Ticket : row'[u] = row[u]
              \/ (row[u] = "none" /\ row'[u] = "open" /\ Say(s).ticket = u)
    BY <2>1, BodyTypes, PostType, PostMentions
  <2>3. UNCHANGED order BY <1>2 DEF ManageVanished, ResizeInfeasible
  <2> QED BY <2>1, <2>2, <2>3, BodyTypes, BodyTickets, BookPost
<1>3. ASSUME NEW net \in Net, Report(net) PROVE [Book!Next]_(Book!vars)
  <2>1. Post(job.act, job.body, net) /\ job.body \in Body /\ UNCHANGED order
    BY <1>3 DEF InHand, Report
  <2>2. /\ row' \in [Ticket -> {"none", "open", "closed"}]
        /\ \A u \in Ticket : row'[u] = row[u]
              \/ (row[u] = "none" /\ row'[u] = "open" /\ job.body.ticket = u)
    BY <2>1, PostType, PostMentions
  <2>3. \A u \in Ticket : job.body.ticket = u => order[u] \in {"open", "gone"}
    BY <1>3 DEF Report, Accounted, Mentioned, Reported
  <2> QED BY <2>1, <2>2, <2>3, BookPost
<1>4. ASSUME NEW a \in Action, NEW net \in Net, Drain(a, net) PROVE [Book!Next]_(Book!vars)
  <2>1. retry[a] \in Body /\ retry[a] # NULL /\ UNCHANGED order
    BY <1>4 DEF TypeOK, InHand, Drain
  <2>2. /\ row' \in [Ticket -> {"none", "open", "closed"}]
        /\ \A u \in Ticket : row'[u] = row[u]
              \/ (row[u] = "none" /\ row'[u] = "open" /\ retry[a].ticket = u)
    BY <1>4 DEF TypeOK, Drain, Record
  <2>3. \A u \in Ticket : retry[a].ticket = u => order[u] \in {"open", "gone"}
    BY <2>1 DEF Accounted, Mentioned, Queued
  <2> QED BY <2>1, <2>2, <2>3, BookPost
<1>5. ASSUME NEW t \in Ticket, NEW net \in Net, Reconcile(t, net) PROVE [Book!Next]_(Book!vars)
  <2>1. UNCHANGED Live BY <1>5 DEF Reconcile, Live
  <2>2. row' = row \/ row' = [row EXCEPT ![t] = Reconciled(t)] BY <1>5 DEF Reconcile
  <2>3. CASE row' = row BY <2>1, <2>3 DEF Book!vars
  <2>4. CASE row' # row
    <3>1. Reconciled(t) # row[t] BY <2>2, <2>4 DEF TypeOK
    <3>2. CASE row[t] = "open" /\ Reconciled(t) = "closed" /\ order[t] = "gone"
      <4>1. Live[t] = "gone" BY <3>2 DEF Live
      <4> QED BY <2>1, <2>2, <2>4, <3>2, <4>1 DEF Book!Next, Book!Strike
    <3>3. CASE row[t] = "none" /\ Reconciled(t) = "open" /\ Visible(t)
      <4>1. Live[t] = "open" BY <3>3 DEF Live, Visible, Open
      <4> QED BY <2>1, <2>2, <2>4, <3>3, <4>1 DEF Book!Next, Book!Enter
    <3> QED BY <1>5, <3>1, <3>2, <3>3, ReconcileFinds
  <2> QED BY <2>3, <2>4
<1>6. ASSUME NEW t \in Ticket, NEW net \in Net, CloseByEa(t, net) PROVE [Book!Next]_(Book!vars)
  <2>1. /\ Live[t] = "open" /\ Live' = [Live EXCEPT ![t] = "gone"]
        /\ row' = row \/ (row[t] = "open" /\ row' = [row EXCEPT ![t] = "closed"])
    BY <1>6, LiveChange DEF CloseByEa, Visible, Open, Live
  <2>2. Book!Close(t) \/ Book!CloseAndStrike(t)
    BY <2>1 DEF Book!Close, Book!CloseAndStrike
  <2> QED BY <2>2 DEF Book!Next
<1>7. ASSUME NEW t \in Ticket, MarketFill(t) \/ LimitFills(t) PROVE [Book!Next]_(Book!vars)
  <2>1. /\ Live[t] = "never" /\ Live' = [Live EXCEPT ![t] = "open"] /\ UNCHANGED row
    BY <1>7, LiveChange DEF MarketFill, LimitFills, Live
  <2> QED BY <2>1 DEF Book!Next, Book!Open
<1>8. ASSUME NEW t \in Ticket, OrderGone(t) PROVE [Book!Next]_(Book!vars)
  <2>1. CASE order[t] = "limit"
    <3>1. UNCHANGED <<Live, row>> BY <1>8, <2>1, LiveChange DEF OrderGone
    <3> QED BY <3>1 DEF Book!vars
  <2>2. CASE order[t] = "open"
    <3>1. Live[t] = "open" /\ Live' = [Live EXCEPT ![t] = "gone"] /\ UNCHANGED row
      BY <1>8, <2>2, LiveChange DEF OrderGone, Live
    <3> QED BY <3>1 DEF Book!Next, Book!Close
  <2> QED BY <1>8, <2>1, <2>2 DEF OrderGone
<1>9. ASSUME NEW t \in Ticket, ManageCancelled(t) \/ ResizeDelete(t) \/ PlaceLimit(t) \/ ManageWaits(t)
      PROVE  [Book!Next]_(Book!vars)
  <2>1. /\ UNCHANGED row
        /\ \/ UNCHANGED order
           \/ /\ order[t] \in {"limit", "unused"}
              /\ \E s \in {"dropped", "limit"} : order' = [order EXCEPT ![t] = s]
    BY <1>9 DEF ManageCancelled, ResizeDelete, PlaceLimit, ManageWaits
  <2>2. UNCHANGED Live
    <3>1. CASE UNCHANGED order BY <3>1 DEF Live
    <3>2. CASE ~UNCHANGED order BY <2>1, <3>2, LiveChange
    <3> QED BY <3>1, <3>2
  <2> QED BY <2>1, <2>2 DEF Book!vars
<1>10. CASE UNCHANGED <<row, order>>
  BY <1>10 DEF Book!vars, Live
<1>11. CASE \/ Poll \/ RejectOpen \/ Refuse \/ Dedupe \/ Track
            \/ StartReconcile \/ StartDrain \/ StartManage
            \/ Crash \/ Restart \/ Refresh \/ WarmedUp \/ CancelPending
  <2>1. UNCHANGED <<row, order>>
    BY <1>11 DEF Poll, RejectOpen, Refuse, Dedupe, Track, StartReconcile, StartDrain,
         StartManage, Crash, Restart, Refresh, WarmedUp, CancelPending
  <2> QED BY <1>10, <2>1
<1>12. ASSUME NEW a \in Action, NEW net \in Net,
              \/ Claim(a, net) \/ DrainExpired(a) \/ Recycle(a) \/ RequestResize(a)
       PROVE  [Book!Next]_(Book!vars)
  <2>1. UNCHANGED <<row, order>>
    BY <1>12 DEF Claim, DrainExpired, Recycle, RequestResize
  <2> QED BY <1>10, <2>1
<1>13. ASSUME NEW t \in Ticket, GraceEnds(t) PROVE [Book!Next]_(Book!vars)
  <2>1. UNCHANGED <<row, order>> BY <1>13 DEF GraceEnds
  <2> QED BY <1>10, <2>1
<1>14. CASE UNCHANGED vars BY <1>10, <1>14 DEF vars
<1> "answered" \in Net BY DEF Net
<1>15. CASE OnTimer
  <2>1. CASE \E t \in Ticket : ManageOrder(t) BY <2>1, <1>1, <1>2, <1>9 DEF ManageOrder
  <2>2. CASE Execute BY <2>2, <1>3, <1>7, <1>9, <1>11, <1>12 DEF Execute
  <2>3. CASE \E t \in Ticket, net \in Net : Reconcile(t, net) BY <2>3, <1>5
  <2>4. CASE \E a \in Action, net \in Net : Drain(a, net) BY <2>4, <1>4
  <2>5. CASE \E a \in Action : DrainExpired(a) BY <2>5, <1>12
  <2>6. CASE Poll \/ StartReconcile \/ StartDrain \/ StartManage BY <2>6, <1>11
  <2> QED BY <1>15, <2>1, <2>2, <2>3, <2>4, <2>5, <2>6 DEF OnTimer
<1>16. CASE Terminal BY <1>16, <1>6, <1>11, <1>13 DEF Terminal
<1>17. CASE Broker BY <1>17, <1>7, <1>8 DEF Broker
<1>18. CASE Backend BY <1>18, <1>11, <1>12 DEF Backend
<1> QED BY <1>14, <1>15, <1>16, <1>17, <1>18 DEF Next

(* The positions table is kept as PositionBook promises, whatever is lost,     *)
(* retried, lagging or restarted: no phantom entry, no false close, no second  *)
(* entry (api.py:462, ea/CopyTrades.mq5:3266).                                 *)
THEOREM BookImplemented == Spec => BookKept
<1>1. Init => Book!Init BY DEF Init, Book!Init, Live
<1> QED BY <1>1, TypeInit, AccountInit, TypeStep, AccountStep, BookStep, PTL
  DEF Spec, BookKept, Book!Spec
-----------------------------------------------------------------------------
(* Pending orders.  The argument needs the order in hand between the broker    *)
(* call and its persistence, the gap of a replacement, and that the loop over  *)
(* the tracked orders, which a replacement interrupts, has only such to visit. *)
InLoop == at = "manage" \/ (at \in {"replace", "placed", "report"} /\ job.back = "manage")

OnlyOrder ==
  /\ TrackedOnce
  /\ \A u \in tracked : order[u] # "unused"
  /\ InLoop => todo \subseteq tracked
  /\ at = "won" => job.back = "execute"
  /\ at = "replace" => \A u \in tracked : origin[u] # job.act
  /\ at = "placed" => /\ origin[job.ticket] = job.act /\ order[job.ticket] # "unused"
                      /\ \A u \in tracked : origin[u] = job.act => u = job.ticket

(* Outside the replacement of an order, a step that takes on no order. *)
LEMMA KeepOrders ==
  ASSUME TypeOK, InHand, OnlyOrder, tracked' \subseteq tracked, UNCHANGED origin,
         \A t \in Ticket : order[t] # "unused" => order'[t] # "unused",
         at' \notin {"won", "replace", "placed"} \/ UNCHANGED <<at, job>>,
         InLoop' => todo' \subseteq tracked'
  PROVE  OnlyOrder'
<1>1. TrackedOnce' /\ \A u \in tracked' : order'[u] # "unused"
  BY DEF TypeOK, OnlyOrder, TrackedOnce
<1>2. CASE at' \notin {"won", "replace", "placed"} BY <1>1, <1>2 DEF OnlyOrder
<1>3. CASE UNCHANGED <<at, job>>
  <2>1. at = "placed" => order'[job.ticket] # "unused"
    BY DEF OnlyOrder, InHand
  <2> QED BY <1>1, <1>3, <2>1 DEF OnlyOrder, InLoop
<1> QED BY <1>2, <1>3

(* A step that reports: the loop it is in does not change. *)
LEMMA ReportOrders ==
  ASSUME TypeOK, InHand, OnlyOrder, at \in {"won", "replace", "placed"},
         NEW b, Reporting(b), UNCHANGED todo
  PROVE  at' = "report" /\ (InLoop' => todo' \subseteq tracked)
<1>1. job \in Job BY DEF InHand
<1>2. at' = "report" /\ job'.back = job.back BY <1>1 DEF Reporting, Job
<1> QED BY <1>2 DEF OnlyOrder, InLoop

LEMMA OrderStep == TypeOK /\ InHand /\ OnlyOrder /\ [Next]_vars => OnlyOrder'
<1> SUFFICES ASSUME TypeOK, InHand, OnlyOrder, [Next]_vars PROVE OnlyOrder' OBVIOUS
<1> USE DEF db, broker, memory, control, terminal
<1>1. ASSUME NEW t \in Ticket, ResizeDelete(t) PROVE OnlyOrder'
  <2>1. /\ t \in tracked /\ tracked' = tracked \ {t} /\ todo' \subseteq tracked'
        /\ UNCHANGED origin /\ order' = [order EXCEPT ![t] = "dropped"]
        /\ at' = "replace" /\ job'.act = origin[t]
    BY <1>1 DEF ResizeDelete, Managing, OnlyOrder, InLoop
  <2>2. \A u \in tracked' : origin'[u] # job'.act BY <2>1 DEF OnlyOrder, TrackedOnce, TypeOK
  <2> QED BY <2>1, <2>2 DEF TypeOK, OnlyOrder, TrackedOnce
<1>2. ASSUME NEW t \in Ticket, PlaceLimit(t) PROVE OnlyOrder'
  <2>1. /\ job \in Job /\ order[t] = "unused" /\ t \notin tracked
        /\ \A u \in tracked : origin[u] # job.act
    BY <1>2 DEF InHand, OnlyOrder, PlaceLimit, Placed
  <2>2. /\ UNCHANGED <<tracked, todo>> /\ origin' = [origin EXCEPT ![t] = job.act]
        /\ order' = [order EXCEPT ![t] = "limit"] /\ at' = "placed"
        /\ job' = [job EXCEPT !.ticket = t]
    BY <1>2 DEF PlaceLimit
  <2>3. job'.act = job.act /\ job'.ticket = t /\ job'.back = job.back
    BY <2>1, <2>2 DEF Job
  <2>4. InLoop' => todo \subseteq tracked
    BY <1>2, <2>2, <2>3 DEF PlaceLimit, OnlyOrder, InLoop
  <2> QED BY <2>1, <2>2, <2>3, <2>4 DEF TypeOK, OnlyOrder, TrackedOnce
<1>3. CASE Track
  <2>1. /\ at = "placed" /\ tracked' = tracked \cup {job.ticket}
        /\ UNCHANGED <<order, origin, todo>> /\ Reporting(Say("watching"))
    BY <1>3 DEF Track
  <2>2. at' = "report" /\ (InLoop' => todo' \subseteq tracked) BY <2>1, ReportOrders
  <2> QED BY <2>1, <2>2 DEF OnlyOrder, TrackedOnce
<1>4. CASE RejectOpen \/ Refuse \/ Dedupe
  <2>1. /\ at \in {"won", "replace"} /\ UNCHANGED <<order, origin, tracked, todo>>
        /\ \E b : Reporting(b)
    BY <1>4 DEF RejectOpen, Refuse, Dedupe
  <2>2. at' = "report" /\ (InLoop' => todo' \subseteq tracked) BY <2>1, ReportOrders
  <2> QED BY <2>1, <2>2, KeepOrders
<1>5. ASSUME NEW t \in Ticket, MarketFill(t) PROVE OnlyOrder'
  <2>1. /\ at = "won" /\ order[t] = "unused" /\ order' = [order EXCEPT ![t] = "open"]
        /\ origin' = [origin EXCEPT ![t] = job.act] /\ UNCHANGED <<tracked, todo>>
        /\ Reporting(Executed(t))
    BY <1>5 DEF MarketFill
  <2>2. at' = "report" /\ (InLoop' => todo' \subseteq tracked) BY <2>1, ReportOrders
  <2> QED BY <2>1, <2>2 DEF TypeOK, OnlyOrder, TrackedOnce
<1>6. ASSUME NEW net \in Net, Report(net) PROVE OnlyOrder'
  <2>1. /\ UNCHANGED <<tracked, origin, order, todo>>
        /\ at' \in {"manage", "execute"} /\ (InLoop' => InLoop)
    BY <1>6 DEF InHand, Report, Job, InLoop
  <2> QED BY <2>1, KeepOrders DEF OnlyOrder
<1>7. ASSUME NEW t \in Ticket, NEW net \in Net,
             \/ ManageFilled(t, net) \/ ManageVanished(t, net) \/ ResizeInfeasible(t, net)
             \/ ManageWaits(t) \/ ManageCancelled(t)
      PROVE  OnlyOrder'
  <2>1. /\ at = "manage" /\ UNCHANGED <<at, job, origin>> /\ todo' = todo \ {t}
        /\ tracked' = tracked \/ tracked' = tracked \ {t}
        /\ UNCHANGED order \/ order' = [order EXCEPT ![t] = "dropped"]
    BY <1>7 DEF ManageFilled, ManageVanished, ResizeInfeasible, ManageWaits,
         ManageCancelled, Managing
  <2>2. todo' \subseteq tracked' BY <2>1 DEF OnlyOrder, InLoop
  <2> QED BY <2>1, <2>2, KeepOrders DEF TypeOK
<1>8. CASE Poll \/ StartReconcile \/ StartDrain \/ StartManage \/ Crash \/ Restart
  <2>1. /\ UNCHANGED <<order, origin>> /\ tracked' \subseteq tracked
        /\ at' \in {"execute", "reconcile", "drain", "manage", "down"}
        /\ at' = "manage" => todo' \subseteq tracked'
    BY <1>8 DEF Poll, StartReconcile, StartDrain, StartManage, Crash, Restart
  <2> QED BY <2>1, KeepOrders DEF InLoop
<1>9. ASSUME NEW a \in Action, NEW net \in Net, Claim(a, net) PROVE OnlyOrder'
  <2>1. /\ UNCHANGED <<order, origin, tracked>> /\ at = "execute"
        /\ \/ UNCHANGED <<at, job>>
           \/ at' = "won" /\ job'.back = "execute"
    BY <1>9 DEF Claim
  <2> QED BY <2>1 DEF OnlyOrder, InLoop, TrackedOnce
<1>10. CASE /\ UNCHANGED <<order, origin, tracked, at, job>>
            /\ at \notin {"manage", "won", "replace", "placed", "report"} \/ UNCHANGED todo
  BY <1>10 DEF OnlyOrder, InLoop, TrackedOnce
<1>11. ASSUME NEW t \in Ticket, NEW net \in Net, Reconcile(t, net) PROVE OnlyOrder'
  BY <1>10, <1>11 DEF Reconcile
<1>12. ASSUME NEW a \in Action, NEW net \in Net, Drain(a, net) PROVE OnlyOrder'
  BY <1>10, <1>12 DEF Drain
<1>13. ASSUME NEW a \in Action, DrainExpired(a) PROVE OnlyOrder'
  BY <1>10, <1>13 DEF DrainExpired
<1>14. ASSUME NEW t \in Ticket, GraceEnds(t) PROVE OnlyOrder'
  BY <1>10, <1>14 DEF GraceEnds
<1>15. ASSUME NEW a \in Action, Recycle(a) \/ RequestResize(a) PROVE OnlyOrder'
  BY <1>10, <1>15 DEF Recycle, RequestResize
<1>16. CASE Refresh \/ WarmedUp \/ CancelPending \/ UNCHANGED vars
  BY <1>10, <1>16 DEF Refresh, WarmedUp, CancelPending, vars
<1>17. ASSUME NEW t \in Ticket,
              LimitFills(t) \/ OrderGone(t) \/ \E net \in Net : CloseByEa(t, net)
       PROVE  OnlyOrder'
  <2>1. /\ UNCHANGED <<origin, tracked, todo, at, job>>
        /\ \E s \in {"open", "gone", "dropped"} : order' = [order EXCEPT ![t] = s]
    BY <1>17 DEF LimitFills, OrderGone, CloseByEa
  <2>2. \A u \in Ticket : order[u] # "unused" => order'[u] # "unused" BY <2>1 DEF TypeOK
  <2>3. InLoop' => todo' \subseteq tracked' BY <2>1 DEF OnlyOrder, InLoop
  <2> QED BY <2>1, <2>2, <2>3, KeepOrders
<1>18. CASE OnTimer
  <2> "answered" \in Net BY DEF Net
  <2>1. CASE \E t \in Ticket : ManageOrder(t) BY <2>1, <1>1, <1>7 DEF ManageOrder
  <2>2. CASE Execute BY <2>2, <1>2, <1>3, <1>4, <1>5, <1>6, <1>9 DEF Execute
  <2>3. CASE \E t \in Ticket, net \in Net : Reconcile(t, net) BY <2>3, <1>11
  <2>4. CASE \E a \in Action, net \in Net : Drain(a, net) BY <2>4, <1>12
  <2>5. CASE \E a \in Action : DrainExpired(a) BY <2>5, <1>13
  <2>6. CASE Poll \/ StartReconcile \/ StartDrain \/ StartManage BY <2>6, <1>8
  <2> QED BY <1>18, <2>1, <2>2, <2>3, <2>4, <2>5, <2>6 DEF OnTimer
<1>19. CASE Terminal BY <1>19, <1>8, <1>14, <1>16, <1>17 DEF Terminal
<1>20. CASE Broker \/ Backend BY <1>20, <1>15, <1>16, <1>17 DEF Broker, Backend
<1> QED BY <1>16, <1>18, <1>19, <1>20 DEF Next

(* However often claims are recycled, limit orders replaced and the EA         *)
(* restarted, no two of the orders it tracks are for the same action           *)
(* (ea/CopyTrades.mq5:1662).                                                   *)
THEOREM PendingTrackedOnce == Spec => []TrackedOnce
<1>1. Init => OnlyOrder BY DEF Init, OnlyOrder, TrackedOnce, InLoop
<1>2. OnlyOrder => TrackedOnce BY DEF OnlyOrder
<1> QED BY <1>1, <1>2, TypeInit, TypeStep, OrderStep, PTL DEF Spec

-----------------------------------------------------------------------------
(* An executed action has its position on record, whichever way the result     *)
(* came.  A body that says executed, queued or about to be posted, names a     *)
(* ticket ordered for its action, so that recording it records that ticket.    *)
FillOf(a, b) == b.status = "executed" => b.ticket \in Ticket /\ origin[b.ticket] = a

Backed ==
  /\ ExecutedRecorded
  /\ \A a \in Action : retry[a] # NULL => FillOf(a, retry[a])
  /\ at = "report" => FillOf(job.act, job.body)

LEMMA FillBodies ==
  /\ \A s, a : s # "executed" => FillOf(a, Say(s))
  /\ \A t \in Ticket : FillOf(origin[t], Executed(t))
BY DEF FillOf, Say, Executed

(* Recording such a body keeps the promise. *)
LEMMA RecordBacked ==
  ASSUME TypeOK, ExecutedRecorded, NEW a \in Action, NEW b \in Body, FillOf(a, b),
         Record(a, b), UNCHANGED origin
  PROVE  ExecutedRecorded'
<1> SUFFICES ASSUME NEW c \in Action, status'[c] = "executed"
             PROVE  \E t \in Ticket : origin'[t] = c /\ row'[t] # "none"
  BY DEF ExecutedRecorded
<1>1. \A t \in Ticket : row[t] # "none" => row'[t] # "none"
  BY DEF TypeOK, Record
<1>2. CASE status[c] = "executed" BY <1>1, <1>2 DEF ExecutedRecorded
<1>3. CASE status[c] # "executed"
  <2>1. c = a /\ b.status = "executed" /\ Accepts(a) BY <1>3 DEF TypeOK, Record
  <2>2. b.ticket \in Ticket /\ origin[b.ticket] = c BY <2>1 DEF FillOf
  <2>3. row'[b.ticket] # "none" BY <2>1, <2>2 DEF TypeOK, Record
  <2> QED BY <2>2, <2>3
<1> QED BY <1>2, <1>3

LEMMA PostBacked ==
  ASSUME TypeOK, Backed, NEW a \in Action, NEW b \in Body, FillOf(a, b), NEW net,
         Post(a, b, net), UNCHANGED origin, at' # "report"
  PROVE  Backed'
<1>1. ExecutedRecorded'
  <2>1. CASE net = "unsent" BY <2>1 DEF Post, Backed, ExecutedRecorded
  <2>2. CASE net # "unsent" BY <2>2, RecordBacked DEF Post, Backed
  <2> QED BY <2>1, <2>2
<1>2. ASSUME NEW c \in Action, retry'[c] # NULL PROVE FillOf(c, retry[c])'
  BY <1>2 DEF TypeOK, Post, Backed, FillOf
<1> QED BY <1>1, <1>2 DEF Backed

(* A step that executes nothing, strips no row and orders no known ticket anew *)
(* keeps the promise; so does one that posts nothing.                          *)
LEMMA KeepBacked ==
  ASSUME Backed,
         \A a \in Action : status'[a] = "executed" => status[a] = "executed",
         \A t \in Ticket : row[t] # "none" => row'[t] # "none" /\ origin'[t] = origin[t],
         \A t \in Ticket : Queued(t) => origin'[t] = origin[t],
         \A a \in Action : retry'[a] # NULL => retry'[a] = retry[a],
         at' = "report" => FillOf(job.act, job.body)'
  PROVE  Backed'
<1>1. ExecutedRecorded' BY DEF Backed, ExecutedRecorded
<1>2. ASSUME NEW a \in Action, retry'[a] # NULL PROVE FillOf(a, retry[a])'
  BY <1>2 DEF Backed, FillOf, Queued
<1> QED BY <1>1, <1>2 DEF Backed

LEMMA BackedStep ==
  TypeOK /\ InHand /\ OnlyOrder /\ Accounted /\ Backed /\ [Next]_vars => Backed'
<1> SUFFICES ASSUME TypeOK, InHand, OnlyOrder, Accounted, Backed, [Next]_vars PROVE Backed'
  OBVIOUS
<1> USE DEF db, broker, memory, control, terminal
<1>1. ASSUME NEW t \in Ticket, NEW net \in Net,
             ManageFilled(t, net) \/ ManageVanished(t, net) \/ ResizeInfeasible(t, net)
      PROVE  Backed'
  <2>1. at' = "manage" /\ UNCHANGED origin /\ origin[t] \in Action
    BY <1>1 DEF ManageFilled, ManageVanished, ResizeInfeasible, Managing, InHand,
                OnlyOrder, InLoop
  <2>2. PICK b \in Body : Post(origin[t], b, net) /\ FillOf(origin[t], b)
    BY <1>1, BodyTypes, FillBodies DEF ManageFilled, ManageVanished, ResizeInfeasible
  <2> QED BY <2>1, <2>2, PostBacked
<1>2. ASSUME NEW net \in Net, Report(net) PROVE Backed'
  <2>1. /\ job.act \in Action /\ job.body \in Body /\ FillOf(job.act, job.body)
        /\ at' # "report" /\ UNCHANGED origin
    BY <1>2 DEF Report, InHand, Job, Backed
  <2> QED BY <1>2, <2>1, PostBacked DEF Report
<1>3. ASSUME NEW a \in Action, NEW net \in Net, Drain(a, net) PROVE Backed'
  <2>1. retry[a] \in Body /\ FillOf(a, retry[a]) BY <1>3 DEF TypeOK, InHand, Drain, Backed
  <2>2. ExecutedRecorded'
    <3>1. CASE net = "unsent" BY <1>3, <3>1 DEF Drain, Backed, ExecutedRecorded
    <3>2. CASE net # "unsent" BY <1>3, <2>1, <3>2, RecordBacked DEF Drain, Backed
    <3> QED BY <3>1, <3>2
  <2>3. ASSUME NEW c \in Action, retry'[c] # NULL PROVE FillOf(c, retry[c])'
    BY <1>3, <2>3 DEF TypeOK, Drain, Backed, FillOf
  <2> QED BY <1>3, <2>2, <2>3 DEF Drain, Backed
<1>4. ASSUME NEW t \in Ticket, MarketFill(t) \/ PlaceLimit(t) PROVE Backed'
  <2>1. row[t] = "none" /\ ~Queued(t)
    BY <1>4 DEF MarketFill, PlaceLimit, Accounted, Mentioned, TypeOK
  <2>2. \A u \in Ticket : u # t => origin'[u] = origin[u]
    BY <1>4 DEF MarketFill, PlaceLimit, TypeOK
  <2>3. at' = "report" => FillOf(job.act, job.body)'
    <3> SUFFICES ASSUME MarketFill(t) PROVE FillOf(job.act, job.body)'
      BY <1>4 DEF PlaceLimit
    <3>1. job'.act = job.act /\ job'.body = Executed(t)
      BY DEF MarketFill, Reporting, InHand, Job
    <3>2. origin'[t] = job.act BY DEF MarketFill, TypeOK
    <3> QED BY <3>1, <3>2 DEF FillOf, Executed
  <2> QED BY <1>4, <2>1, <2>2, <2>3, KeepBacked DEF MarketFill, PlaceLimit
<1>5. CASE RejectOpen \/ Refuse \/ Dedupe \/ Track
  <2>1. \E s : s # "executed" /\ Reporting(Say(s))
    BY <1>5 DEF RejectOpen, Refuse, Dedupe, Track
  <2>2. FillOf(job.act, job.body)'
    <3>1. job \in Job BY <1>5 DEF InHand, RejectOpen, Refuse, Dedupe, Track
    <3> QED BY <2>1, <3>1 DEF Reporting, Job, FillOf, Say
  <2> QED BY <1>5, <2>2, KeepBacked DEF RejectOpen, Refuse, Dedupe, Track
<1>6. CASE UNCHANGED <<origin, retry>>
           /\ (\A a \in Action : status'[a] = "executed" => status[a] = "executed")
           /\ (\A t \in Ticket : row[t] # "none" => row'[t] # "none")
           /\ (at' = "report" => UNCHANGED <<at, job>>)
  BY <1>6, KeepBacked DEF Backed, FillOf
<1>7. ASSUME NEW t \in Ticket, ManageWaits(t) \/ ManageCancelled(t) \/ ResizeDelete(t)
      PROVE  Backed'
  BY <1>6, <1>7 DEF ManageWaits, ManageCancelled, ResizeDelete, Managing
<1>8. ASSUME NEW a \in Action, NEW net \in Net, Claim(a, net) PROVE Backed'
  BY <1>6, <1>8 DEF Claim, TypeOK
<1>9. ASSUME NEW t \in Ticket, NEW net \in Net, Reconcile(t, net) PROVE Backed'
  <2>1. \A u \in Ticket : row[u] # "none" => row'[u] # "none"
    BY <1>9 DEF TypeOK, Reconcile, Reconciled
  <2> QED BY <1>6, <1>9, <2>1 DEF Reconcile
<1>10. ASSUME NEW t \in Ticket, NEW net \in Net, CloseByEa(t, net) PROVE Backed'
  BY <1>6, <1>10 DEF CloseByEa, TypeOK
<1>11. ASSUME NEW a \in Action, DrainExpired(a) PROVE Backed'
  BY <1>11, KeepBacked DEF DrainExpired, TypeOK
<1>12. CASE Poll \/ StartReconcile \/ StartDrain \/ StartManage
  BY <1>6, <1>12 DEF Poll, StartReconcile, StartDrain, StartManage
<1>13. CASE Crash \/ Restart \/ Refresh \/ WarmedUp \/ \E t \in Ticket : GraceEnds(t)
  BY <1>6, <1>13 DEF Crash, Restart, Refresh, WarmedUp, GraceEnds
<1>14. CASE Broker BY <1>6, <1>14 DEF Broker, LimitFills, OrderGone
<1>15. CASE Backend BY <1>6, <1>15 DEF Backend, CancelPending, Recycle, RequestResize, TypeOK
<1>16. CASE UNCHANGED vars BY <1>6, <1>16 DEF vars
<1>17. ASSUME NEW t \in Ticket, ManageOrder(t) PROVE Backed'
  BY <1>1, <1>7, <1>17 DEF ManageOrder
<1>18. CASE Execute BY <1>2, <1>4, <1>5, <1>8, <1>18 DEF Execute
<1>19. CASE OnTimer BY <1>3, <1>9, <1>11, <1>12, <1>17, <1>18, <1>19 DEF OnTimer
<1>20. CASE Terminal BY <1>10, <1>13, <1>20 DEF Terminal
<1> QED BY <1>14, <1>15, <1>16, <1>19, <1>20 DEF Next

(* Result, retry and recovery in any order, lost and repeated: an action the   *)
(* table calls executed has the position it was executed with (api.py:462).    *)
THEOREM ExecutedHasPosition == Spec => []ExecutedRecorded
<1>1. Init => Backed BY DEF Init, Backed, ExecutedRecorded
<1>2. Backed => ExecutedRecorded BY DEF Backed
<1>3. Init => OnlyOrder BY DEF Init, OnlyOrder, TrackedOnce, InLoop
<1> QED BY <1>1, <1>2, <1>3, TypeInit, TypeStep, AccountInit, AccountStep, OrderStep,
           BackedStep, PTL DEF Spec

-----------------------------------------------------------------------------
(* One position at a time, of an EA without limit orders whose terminal does   *)
(* not lag: then nothing lies between the count and the fill.                  *)
MarketOnly ==
  /\ SinglePosition
  /\ \A t \in Ticket : order[t] # "limit"
  /\ at \notin {"replace", "placed"}

(* The single-position invariant of ea/CopyTrades.mq5:1307.                    *)
THEOREM OnePosition == ASSUME Limit = {}, ~Lag PROVE Spec => []SinglePosition
<1>1. Init => MarketOnly BY DEF Init, MarketOnly, SinglePosition, Open
<1>2. TypeOK /\ InHand /\ MarketOnly /\ [Next]_vars => MarketOnly'
  <2> SUFFICES ASSUME TypeOK, InHand, MarketOnly, [Next]_vars PROVE MarketOnly' OBVIOUS
  <2> USE DEF db, broker, memory, control, terminal
  <2>1. CASE UNCHANGED order /\ at' \notin {"replace", "placed"}
    BY <2>1 DEF MarketOnly, SinglePosition, Open
  <2>2. CASE Execute
    <3>1. ASSUME NEW t \in Ticket, MarketFill(t) PROVE MarketOnly'
      <4>1. /\ order' = [order EXCEPT ![t] = "open"] /\ at' = "report"
            /\ \A u \in Ticket : order[u] # "open"
        BY <3>1, ~Lag DEF MarketFill, Reporting, SomeOpen, Visible, Open
      <4> QED BY <4>1 DEF TypeOK, MarketOnly, SinglePosition, Open
    <3>2. ASSUME NEW t \in Ticket, PlaceLimit(t) PROVE FALSE
      BY <3>2, Limit = {} DEF PlaceLimit, MarketOnly
    <3>3. ASSUME NEW a \in Action, NEW net \in Net, Claim(a, net) PROVE MarketOnly'
      BY <2>1, <3>3 DEF Claim, MarketOnly
    <3>4. ASSUME NEW net \in Net, Report(net) PROVE MarketOnly'
      <4>1. UNCHANGED order /\ at' \in {"manage", "execute"}
        BY <3>4 DEF InHand, Report, Job
      <4> QED BY <2>1, <4>1
    <3>5. CASE RejectOpen \/ Refuse \/ Dedupe \/ Track
      BY <2>1, <3>5 DEF RejectOpen, Refuse, Dedupe, Track, Reporting
    <3> QED BY <2>2, <3>1, <3>2, <3>3, <3>4, <3>5 DEF Execute
  <2>3. ASSUME NEW t \in Ticket, ManageOrder(t) PROVE MarketOnly'
    BY <2>1, <2>3 DEF ManageOrder, ManageWaits, ManageCancelled, ResizeDelete, ManageFilled,
       ManageVanished, ResizeInfeasible, MarketOnly
  <2>4. CASE \E t \in Ticket, net \in Net : Reconcile(t, net)
    BY <2>1, <2>4 DEF Reconcile, MarketOnly
  <2>5. CASE \E a \in Action : DrainExpired(a) \/ \E net \in Net : Drain(a, net)
    BY <2>1, <2>5 DEF Drain, DrainExpired, MarketOnly
  <2>6. CASE Poll \/ StartReconcile \/ StartDrain \/ StartManage
    BY <2>1, <2>6 DEF Poll, StartReconcile, StartDrain, StartManage
  <2>7. CASE Terminal
    <3>1. ASSUME NEW t \in Ticket, NEW net \in Net, CloseByEa(t, net) PROVE MarketOnly'
      BY <3>1 DEF CloseByEa, TypeOK, MarketOnly, SinglePosition, Open
    <3>2. ASSUME NEW t \in Ticket, GraceEnds(t) PROVE MarketOnly'
      BY <2>1, <3>2 DEF GraceEnds, MarketOnly
    <3>3. CASE Crash \/ Restart \/ Refresh \/ WarmedUp
      BY <2>1, <3>3 DEF Crash, Restart, Refresh, WarmedUp, MarketOnly
    <3> QED BY <2>7, <3>1, <3>2, <3>3 DEF Terminal
  <2>8. ASSUME NEW t \in Ticket, LimitFills(t) \/ OrderGone(t) PROVE MarketOnly'
    <3>1. /\ order[t] # "limit" /\ UNCHANGED <<at, todo, job>>
          /\ order' = [order EXCEPT ![t] = "gone"]
      BY <2>8 DEF LimitFills, OrderGone, MarketOnly
    <3> QED BY <3>1 DEF TypeOK, MarketOnly, SinglePosition, Open
  <2>9. CASE Backend BY <2>1, <2>9 DEF Backend, CancelPending, Recycle, RequestResize, MarketOnly
  <2>10. CASE UNCHANGED vars BY <2>1, <2>10 DEF vars, MarketOnly
  <2> QED BY <2>2, <2>3, <2>4, <2>5, <2>6, <2>7, <2>8, <2>9, <2>10 DEF Next, OnTimer, Broker
<1>3. MarketOnly => SinglePosition BY DEF MarketOnly
<1> QED BY <1>1, <1>2, <1>3, TypeInit, TypeStep, PTL DEF Spec

-----------------------------------------------------------------------------
(* Notifications: what the operator is told.  Every result an action had   *)
(* pays for one announcement: by an event still to be dispatched, by a row *)
(* the running tailer has before it, or by a row that was sent.            *)

(* The tailer takes this row, once it is queued.                           *)
Sendable(d, k) == bot.mode = "tailer" /\ d \in bot.conns /\ outbox[d][k].bot = bot.id

(* The rows about an action that were sent or that the running tailer has  *)
(* before it, and the results an action had.                               *)
Coming(i) == {k \in About(i) : Sendable(Home, k) /\ ~outbox[Home][k].delivered}
Counted(i) == Announced(i) \cup Coming(i)
Due(i) == \E e \in owed : e.db = Home /\ e.event # "position_closed" /\ e.action = i
Reckoned(r) == IF Final(r) THEN Results(r) ELSE r.reports

(* Events and outbox rows are about rows there are; all keep their bounds. *)
Sourced(e) ==
  e.event # "position_closed" =>
    /\ e.action \in DOMAIN rows[e.db] /\ e.position = 0
    /\ e.event = "alert" <=> rows[e.db][e.action].reports = 0
    /\ e.event = "alert" => Final(rows[e.db][e.action])

Linked ==
  /\ \A e \in owed : Sourced(e)
  /\ \A d \in Db : \A k \in DOMAIN outbox[d] :
       outbox[d][k].event # "position_closed" => outbox[d][k].action \in DOMAIN rows[d]
  /\ \A d \in Db : Len(rows[d]) <= MaxRows /\ Len(outbox[d]) <= MaxOutbox

(* An outbox row that was sent once is marked, or no tailer takes it.      *)
SentOnce ==
  \A d \in Db : \A k \in 1 .. MaxOutbox : told[<<"dm", d, k>>] > 0 =>
    /\ told[<<"dm", d, k>>] = 1 /\ k \in DOMAIN outbox[d]
    /\ outbox[d][k].delivered \/ ~Sendable(d, k)

(* A message about an action that no stop has torn off is marked.          *)
MarkedOnce ==
  \A what \in {"outcome", "review"} : \A i \in 1 .. MaxRows : told[<<what, Home, i>>] > 0 =>
    /\ i \in DOMAIN rows[Home]
    /\ told[<<what, Home, i>>] <= torn + (IF rows[Home][i].notified THEN 1 ELSE 0)

(* And one about a close is not ahead of the cursor.                       *)
ClosedOnce ==
  \A p \in 1 .. MaxBook :
    told[<<"closed", Home, p>>] <= torn + (IF cursor \in Nat /\ p <= cursor THEN 1 ELSE 0)

(* What a task has in hand is there and unmarked.                          *)
Underway ==
  /\ bot.mode = "tailer" => Home \in bot.conns
  /\ bot.mode = "legacy" => cursor \in Nat
  /\ task.phase = "outbox" =>
       /\ task.db \in bot.conns
       /\ \A k \in task.todo : /\ k \in DOMAIN outbox[task.db]
                               /\ Sendable(task.db, k) /\ ~outbox[task.db][k].delivered
  /\ task.phase \in {"parked", "outcomes"} =>
       \A i \in task.todo : i \in DOMAIN rows[Home] /\ ~rows[Home][i].notified
  /\ \A p \in closer : cursor < p

(* As long as no binding changes, outcomes are told one way only.          *)
OneWay ==
  edits = 0 =>
    /\ bot.mode = "tailer" => ResolveBot(Home) # None
    /\ bot.mode = "legacy" => ResolveBot(Home) = None
    /\ \A k \in 1 .. MaxOutbox : told[<<"dm", Home, k>>] > 0 => ResolveBot(Home) # None
    /\ \A i \in 1 .. MaxRows : told[<<"outcome", Home, i>>] > 0 => ResolveBot(Home) = None

(* No more is announced of an action than it had results.                  *)
Earned ==
  \A i \in DOMAIN rows[Home] :
    Cardinality(Counted(i)) + (IF Due(i) THEN 1 ELSE 0) <= Reckoned(rows[Home][i])

NoticeInv == /\ NoticeTypeOK /\ Linked /\ SentOnce /\ MarkedOnce
             /\ ClosedOnce /\ Underway /\ OneWay

-----------------------------------------------------------------------------
(* Sequences and batches. *)

(* A row of a table is set.                                               *)
LEMMA RowSet ==
  ASSUME NEW S, NEW s \in Seq(S), NEW i \in DOMAIN s, NEW x \in S
  PROVE  /\ [s EXCEPT ![i] = x] \in Seq(S)
         /\ Len([s EXCEPT ![i] = x]) = Len(s)
OBVIOUS


(* A batch is drawn from what is there.                                   *)
LEMMA Batched ==
  ASSUME NEW S
  PROVE  FirstBatch(S) \subseteq S /\ Least(S) \subseteq S
BY DEF FirstBatch, Least

OutRows == [bot : Ours, event : Events, action : Nat, delivered : BOOLEAN]
Positions == [action : Nat, open : BOOLEAN]

(* A row of a table is replaced. *)
LEMMA TableSet ==
  ASSUME NEW S, NEW T \in [Db -> Seq(S)], NEW d \in Db, NEW i \in DOMAIN T[d], NEW x \in S
  PROVE  LET U == [T EXCEPT ![d] = [T[d] EXCEPT ![i] = x]]
         IN  /\ U \in [Db -> Seq(S)]
             /\ \A e \in Db : DOMAIN U[e] = DOMAIN T[e] /\ Len(U[e]) = Len(T[e])
             /\ \A e \in Db : \A j \in DOMAIN T[e] :
                  U[e][j] = IF e = d /\ j = i THEN x ELSE T[e][j]
<1> DEFINE t == [T[d] EXCEPT ![i] = x]
<1>1. /\ t \in Seq(S) /\ Len(t) = Len(T[d]) /\ DOMAIN t = DOMAIN T[d]
      /\ \A j \in DOMAIN T[d] : t[j] = IF j = i THEN x ELSE T[d][j]
  BY RowSet
<1> HIDE DEF t
<1> QED BY <1>1

(* A message that is marked leaves every row but this mark as it was.      *)
LEMMA MarkRow ==
  ASSUME NEW d \in Db, NEW i, rows \in [Db -> Seq(Rows)]
  PROVE  LET marked == [rows EXCEPT ![d][i].notified = TRUE]
         IN  /\ marked \in [Db -> Seq(Rows)]
             /\ \A e \in Db : DOMAIN marked[e] = DOMAIN rows[e] /\ Len(marked[e]) = Len(rows[e])
             /\ \A e \in Db : \A j \in DOMAIN rows[e] :
                  marked[e][j] = IF e = d /\ j = i THEN [rows[e][j] EXCEPT !.notified = TRUE]
                                                   ELSE rows[e][j]
<1> DEFINE x == [rows[d][i] EXCEPT !.notified = TRUE]
           marked == [rows EXCEPT ![d][i].notified = TRUE]
<1>1. marked = [rows EXCEPT ![d] = [rows[d] EXCEPT ![i] = x]]
  OBVIOUS
<1>2. CASE i \in DOMAIN rows[d]
  <2>1. rows[d][i] \in Rows
    BY <1>2
  <2>2. x \in Rows
    BY <2>1 DEF Rows
  <2> HIDE DEF x
  <2>3. LET U == [rows EXCEPT ![d] = [rows[d] EXCEPT ![i] = x]]
        IN  /\ U \in [Db -> Seq(Rows)]
            /\ \A e \in Db : DOMAIN U[e] = DOMAIN rows[e] /\ Len(U[e]) = Len(rows[e])
            /\ \A e \in Db : \A j \in DOMAIN rows[e] :
                 U[e][j] = IF e = d /\ j = i THEN x ELSE rows[e][j]
    BY <1>2, <2>2, TableSet
  <2> HIDE DEF marked
  <2>4. /\ marked \in [Db -> Seq(Rows)]
        /\ \A e \in Db : DOMAIN marked[e] = DOMAIN rows[e] /\ Len(marked[e]) = Len(rows[e])
        /\ \A e \in Db : \A j \in DOMAIN rows[e] :
             marked[e][j] = IF e = d /\ j = i THEN x ELSE rows[e][j]
    BY <1>1, <2>3
  <2> QED BY <2>4 DEF x, marked
<1>3. CASE i \notin DOMAIN rows[d]
  <2>1. [rows[d] EXCEPT ![i] = x] = rows[d]
    BY <1>3
  <2>2. marked = rows
    BY <1>1, <2>1
  <2> QED BY <1>3, <2>2
<1> QED BY <1>2, <1>3

(* A table that has room is no longer than its bound. *)
LEMMA RoomLeft ==
  ASSUME NEW S, NEW T \in [Db -> Seq(S)], NEW bound \in Nat, NEW d \in Db, Len(T[d]) <= bound
  PROVE  Total(T, bound) \in Nat /\ Len(T[d]) <= Total(T, bound)
<1> DEFINE all == {e \in Db \X (1 .. bound) : e[2] \in DOMAIN T[e[1]]}
           n == Len(T[d])
           own == {d} \X (1 .. n)
<1>1. IsFiniteSet(all)
  <2>1. IsFiniteSet(1 .. bound) /\ IsFiniteSet(Db)
    BY FS_Interval, NotificationsAssumption
  <2>2. IsFiniteSet(Db \X (1 .. bound))
    BY <2>1, FS_Product
  <2>3. all \in SUBSET (Db \X (1 .. bound))
    OBVIOUS
  <2> HIDE DEF all
  <2> QED BY <2>2, <2>3, FS_Subset
<1>2. n \in Nat /\ DOMAIN T[d] = 1 .. n
  OBVIOUS
<1>3. own \subseteq all
  <2>1. ASSUME NEW i \in 1 .. n PROVE <<d, i>> \in all
    BY <1>2
  <2> QED BY <2>1
<1>4. Cardinality(own) = n
  <2>1. IsFiniteSet(1 .. n) /\ Cardinality(1 .. n) = n
    <3> HIDE DEF n
    <3>1. IsFiniteSet(1 .. n) /\ Cardinality(1 .. n) = IF 1 > n THEN 0 ELSE n - 1 + 1
      BY <1>2, FS_Interval
    <3> QED BY <1>2, <3>1
  <2>2. IsFiniteSet({d}) /\ Cardinality({d}) = 1
    BY FS_Singleton
  <2>3. Cardinality(own) = Cardinality({d}) * Cardinality(1 .. n)
    BY <2>1, <2>2, FS_Product
  <2> QED BY <1>2, <2>1, <2>2, <2>3
<1>5. Cardinality(own) <= Cardinality(all) /\ Cardinality(all) \in Nat
  BY <1>1, <1>3, FS_Subset, FS_CardinalityType
<1> QED BY <1>4, <1>5 DEF Total

(* The rows in use are a number.                                          *)
LEMMA RoomCounted ==
  ASSUME NEW T, NEW bound \in Nat
  PROVE  Total(T, bound) \in Nat
<1> DEFINE all == {e \in Db \X (1 .. bound) : e[2] \in DOMAIN T[e[1]]}
<1>1. IsFiniteSet(1 .. bound) /\ IsFiniteSet(Db)
  BY FS_Interval, NotificationsAssumption
<1>2. IsFiniteSet(Db \X (1 .. bound))
  BY <1>1, FS_Product
<1>3. all \in SUBSET (Db \X (1 .. bound))
  OBVIOUS
<1>4. IsFiniteSet(all)
  BY <1>2, <1>3, FS_Subset
<1> QED BY <1>4, FS_CardinalityType DEF Total

-----------------------------------------------------------------------------
(* What a step may do to the tables. *)

RowKept(r, s) ==
  /\ r.notified => s.notified
  /\ Final(r) => Final(s) /\ s.reports = r.reports
  /\ s.reports \in {r.reports, r.reports + 1}

OutKept(r, s) ==
  /\ s.bot = r.bot /\ s.event = r.event /\ s.action = r.action
  /\ r.delivered => s.delivered

RowsKept ==
  \A d \in Db : /\ Len(rows[d]) <= Len(rows'[d])
                /\ \A i \in DOMAIN rows[d] : RowKept(rows[d][i], rows'[d][i])

OutboxKept ==
  \A d \in Db : /\ Len(outbox[d]) <= Len(outbox'[d])
                /\ \A k \in DOMAIN outbox[d] : OutKept(outbox[d][k], outbox'[d][k])

(* A table grows within its bound. *)
RowsFit ==
  \A d \in Db : \/ Len(rows'[d]) = Len(rows[d])
                \/ Total(rows, MaxRows) + 1 <= MaxRows /\ Len(rows'[d]) = Len(rows[d]) + 1

OutboxFits ==
  \A d \in Db : \/ Len(outbox'[d]) = Len(outbox[d])
                \/ \E n \in Nat : /\ Total(outbox, MaxOutbox) + n <= MaxOutbox
                                  /\ Len(outbox'[d]) = Len(outbox[d]) + n

RowTyped == rows' \in [Db -> Seq(Rows)] /\ RowsKept /\ RowsFit
OutboxTyped == outbox' \in [Db -> Seq(OutRows)] /\ OutboxKept /\ OutboxFits

(* A position of a table lies within the table's bound.                   *)
LEMMA WithinBound ==
  ASSUME NEW S, NEW s \in Seq(S), NEW bound \in Nat, Len(s) <= bound, NEW i \in DOMAIN s
  PROVE  i \in 1 .. bound
OBVIOUS

LEMMA BoundsNat == MaxRows \in Nat /\ MaxOutbox \in Nat
BY NotificationsAssumption

(* A step that touches no row keeps the rows.                             *)
LEMMA RowsSame == rows \in [Db -> Seq(Rows)] /\ rows' = rows => RowTyped
<1> SUFFICES ASSUME rows \in [Db -> Seq(Rows)], rows' = rows PROVE RowTyped
  OBVIOUS
<1>1. \A d \in Db : \A i \in DOMAIN rows[d] : rows[d][i] \in Rows
  OBVIOUS
<1>2. \A r \in Rows : RowKept(r, r)
  BY DEF RowKept, Rows
<1> QED BY <1>1, <1>2 DEF RowTyped, RowsKept, RowsFit

(* Nor the outbox.                                                        *)
LEMMA OutboxSame == outbox \in [Db -> Seq(OutRows)] /\ outbox' = outbox => OutboxTyped
BY DEF OutboxTyped, OutboxKept, OutKept, OutboxFits

(* One row gets a new form, or one is added. *)
LEMMA RowChanged ==
  ASSUME rows \in [Db -> Seq(Rows)], NEW d \in Db, NEW i \in DOMAIN rows[d], NEW x \in Rows,
         RowKept(rows[d][i], x), rows' = [rows EXCEPT ![d] = [rows[d] EXCEPT ![i] = x]]
  PROVE  RowTyped
<1>1. \A e \in Db : \A j \in DOMAIN rows[e] : rows[e][j] \in Rows
  OBVIOUS
<1>2. \A r \in Rows : RowKept(r, r)
  BY DEF RowKept, Rows
<1>3. /\ rows' \in [Db -> Seq(Rows)]
      /\ \A e \in Db : DOMAIN rows'[e] = DOMAIN rows[e] /\ Len(rows'[e]) = Len(rows[e])
      /\ \A e \in Db : \A j \in DOMAIN rows[e] :
           rows'[e][j] = IF e = d /\ j = i THEN x ELSE rows[e][j]
  BY TableSet
<1>4. ASSUME NEW e \in Db
      PROVE  Len(rows[e]) <= Len(rows'[e]) /\ \A j \in DOMAIN rows[e] : RowKept(rows[e][j], rows'[e][j])
  BY <1>1, <1>2, <1>3, <1>4
<1> QED BY <1>3, <1>4 DEF RowTyped, RowsKept, RowsFit

(* A row is added.                                                        *)
LEMMA RowNew ==
  ASSUME rows \in [Db -> Seq(Rows)], NEW d \in Db, NEW x \in Rows,
         Total(rows, MaxRows) < MaxRows, rows' = [rows EXCEPT ![d] = Append(@, x)]
  PROVE  RowTyped
<1>1. \A e \in Db : \A j \in DOMAIN rows[e] : rows[e][j] \in Rows
  OBVIOUS
<1>2. \A r \in Rows : RowKept(r, r)
  BY DEF RowKept, Rows
<1>3. rows' \in [Db -> Seq(Rows)]
  OBVIOUS
<1>4. ASSUME NEW e \in Db
      PROVE  Len(rows[e]) <= Len(rows'[e]) /\ \A j \in DOMAIN rows[e] : RowKept(rows[e][j], rows'[e][j])
  <2>1. CASE e = d
    <3>1. rows'[e] = Append(rows[e], x) /\ rows[e] \in Seq(Rows)
      BY <2>1
    <3> QED BY <1>1, <1>2, <3>1
  <2>2. CASE e # d
    BY <1>1, <1>2, <2>2
  <2> QED BY <2>1, <2>2
<1>5. RowsFit
  <2>1. Len(rows'[d]) = Len(rows[d]) + 1 /\ \A e \in Db \ {d} : rows'[e] = rows[e]
    OBVIOUS
  <2>2. Total(rows, MaxRows) + 1 <= MaxRows
    BY RoomCounted, NotificationsAssumption
  <2> QED BY <2>1, <2>2 DEF RowsFit
<1> QED BY <1>3, <1>4, <1>5 DEF RowTyped, RowsKept

(* A row is marked as told.                                               *)
LEMMA RowMarked ==
  ASSUME rows \in [Db -> Seq(Rows)], NEW d \in Db, NEW i, rows' = [rows EXCEPT ![d][i].notified = TRUE]
  PROVE  RowTyped
<1>1. \A e \in Db : \A j \in DOMAIN rows[e] : rows[e][j] \in Rows
  OBVIOUS
<1>2. \A r \in Rows : RowKept(r, r) /\ RowKept(r, [r EXCEPT !.notified = TRUE])
  BY DEF RowKept, Rows, Final
<1>3. /\ rows' \in [Db -> Seq(Rows)]
      /\ \A e \in Db : DOMAIN rows'[e] = DOMAIN rows[e] /\ Len(rows'[e]) = Len(rows[e])
      /\ \A e \in Db : \A j \in DOMAIN rows[e] :
           rows'[e][j] = IF e = d /\ j = i THEN [rows[e][j] EXCEPT !.notified = TRUE] ELSE rows[e][j]
  BY MarkRow
<1>4. ASSUME NEW e \in Db
      PROVE  Len(rows[e]) <= Len(rows'[e]) /\ \A j \in DOMAIN rows[e] : RowKept(rows[e][j], rows'[e][j])
  <2>1. ASSUME NEW j \in DOMAIN rows[e] PROVE RowKept(rows[e][j], rows'[e][j])
    <3>1. rows[e][j] \in Rows
      BY <1>1, <2>1
    <3>2. rows'[e][j] = rows[e][j] \/ rows'[e][j] = [rows[e][j] EXCEPT !.notified = TRUE]
      BY <1>3, <2>1
    <3> QED BY <1>2, <3>1, <3>2
  <2> QED BY <1>1, <1>3, <2>1
<1> QED BY <1>3, <1>4 DEF RowTyped, RowsKept, RowsFit

(* The rows a start leaves parked. *)
LEMMA RowsRecovered ==
  ASSUME rows \in [Db -> Seq(Rows)], NEW pending \in SUBSET LiveRows
  PROVE  /\ Recovered(pending) \in Seq(Rows) /\ Len(Recovered(pending)) = Len(rows[Home])
         /\ \A i \in DOMAIN rows[Home] :
              /\ RowKept(rows[Home][i], Recovered(pending)[i])
              /\ Recovered(pending)[i].notified = rows[Home][i].notified
              /\ Recovered(pending)[i].reports = rows[Home][i].reports
              /\ Final(Recovered(pending)[i]) <=> Final(rows[Home][i])
<1>1. rows[Home] \in Seq(Rows) /\ Home \in Db
  BY NotificationsAssumption
<1>2. ASSUME NEW i \in DOMAIN rows[Home]
      PROVE  /\ Recovered(pending)[i] \in Rows
             /\ RowKept(rows[Home][i], Recovered(pending)[i])
             /\ Recovered(pending)[i].notified = rows[Home][i].notified
             /\ Recovered(pending)[i].reports = rows[Home][i].reports
             /\ Final(Recovered(pending)[i]) <=> Final(rows[Home][i])
  <2> DEFINE r == rows[Home][i]
             s == [r EXCEPT !.status = "parked"]
  <2>1. r \in Rows
    BY <1>1
  <2>2. s \in Rows /\ s.status = "parked" /\ s.notified = r.notified /\ s.reports = r.reports
    BY <2>1 DEF Rows
  <2>3. Recovered(pending)[i] = IF i \in pending THEN s ELSE r
    BY DEF Recovered
  <2>4. i \in pending => r.status = "live"
    BY DEF LiveRows
  <2>5. RowKept(r, r) /\ (i \in pending => RowKept(r, s))
    BY <2>1, <2>2, <2>4 DEF RowKept, Final, Rows
  <2> HIDE DEF r, s
  <2>6. CASE i \in pending
    BY <2>1, <2>2, <2>3, <2>4, <2>5, <2>6 DEF Final, r
  <2>7. CASE i \notin pending
    BY <2>1, <2>3, <2>5, <2>7 DEF r
  <2> QED BY <2>6, <2>7
<1>3. DOMAIN Recovered(pending) = 1 .. Len(rows[Home]) /\ DOMAIN rows[Home] = 1 .. Len(rows[Home])
  BY <1>1 DEF Recovered
<1>4. Recovered(pending) \in [1 .. Len(rows[Home]) -> Rows]
  BY <1>2, <1>3 DEF Recovered
<1>5. Recovered(pending) \in Seq(Rows) /\ Len(Recovered(pending)) = Len(rows[Home])
  BY <1>1, <1>4
<1> QED BY <1>2, <1>5

(* A dispatch appends an untold row for every binding that takes the event. *)
LEMMA ListenersFinite ==
  ASSUME bindings \in Configs, NEW d, NEW channel
  PROVE  /\ \A n \in Listeners(d, channel) : n \in DOMAIN bindings /\ bindings[n].bot \in Ours
         /\ Cardinality(Listeners(d, channel)) \in Nat
<1>1. bindings \in Seq(Bindings)
  BY NotificationsAssumption
<1>2. Listeners(d, channel) \subseteq 1 .. Len(bindings) /\ DOMAIN bindings = 1 .. Len(bindings)
  BY <1>1 DEF Listeners
<1>3. IsFiniteSet(1 .. Len(bindings))
  BY <1>1, FS_Interval
<1>4. IsFiniteSet(Listeners(d, channel))
  BY <1>2, <1>3, FS_Subset
<1>5. \A n \in DOMAIN bindings : bindings[n].bot \in Ours
  BY <1>1 DEF Ours
<1> QED BY <1>2, <1>4, <1>5, FS_CardinalityType

TakenBy(e) == Listeners(e.db, IF e.event = "alert" \/ e.action = 0 THEN None
                              ELSE rows[e.db][e.action].channel)
OutRow(e, n) == [bot |-> bindings[n].bot, event |-> e.event, action |-> e.action, delivered |-> FALSE]

(* The rows of a dispatch follow those that were there, one per listener. *)
LEMMA Dispatched ==
  ASSUME NoticeTypeOK, NEW e \in owed, Dispatch(e)
  PROVE  /\ OutboxTyped
         /\ \A d \in Db \ {e.db} : outbox'[d] = outbox[d]
         /\ Len(outbox'[e.db]) = Len(outbox[e.db]) + Cardinality(TakenBy(e))
         /\ \A k \in DOMAIN outbox[e.db] : outbox'[e.db][k] = outbox[e.db][k]
         /\ \E turn \in InOrder(TakenBy(e)) : \A k \in DOMAIN outbox'[e.db] :
              k > Len(outbox[e.db]) => outbox'[e.db][k] = OutRow(e, turn[k - Len(outbox[e.db])])
<1> DEFINE to == TakenBy(e)
           C == Cardinality(to)
           old == outbox[e.db]
<1>1. PICK turn \in InOrder(to) :
        outbox' = [outbox EXCEPT ![e.db] = old \o [n \in 1 .. C |-> OutRow(e, turn[n])]]
  BY DEF Dispatch, TakenBy, OutRow
<1> DEFINE new == [n \in 1 .. C |-> OutRow(e, turn[n])]
<1>2. /\ e.db \in Db /\ e.event \in Events /\ e.action \in Nat /\ bindings \in Configs
      /\ outbox \in [Db -> Seq(OutRows)]
  BY DEF NoticeTypeOK, Announcements, OutRows
<1>3. C \in Nat /\ \A n \in to : bindings[n].bot \in Ours
  BY <1>2, ListenersFinite DEF TakenBy
<1>4. turn \in [1 .. C -> to]
  BY <1>1 DEF InOrder
<1>5. new \in Seq(OutRows) /\ Len(new) = C
  <2>1. \A n \in 1 .. C : OutRow(e, turn[n]) \in OutRows
    BY <1>2, <1>3, <1>4 DEF OutRow, OutRows
  <2>2. new \in [1 .. C -> OutRows]
    BY <2>1
  <2> QED BY <1>3, <2>2
<1>6. \A n \in 1 .. C : new[n] = OutRow(e, turn[n])
  OBVIOUS
<1> HIDE DEF new, C, to
<1>7. outbox'[e.db] = old \o new /\ \A d \in Db \ {e.db} : outbox'[d] = outbox[d]
  BY <1>1, <1>2 DEF new
<1>8. old \in Seq(OutRows) /\ Len(old) \in Nat
  BY <1>2
<1>9. /\ old \o new \in Seq(OutRows) /\ Len(old \o new) = Len(old) + C
      /\ DOMAIN (old \o new) = 1 .. Len(old) + C
      /\ \A k \in DOMAIN old : (old \o new)[k] = old[k]
      /\ \A n \in DOMAIN new : (old \o new)[Len(old) + n] = new[n]
  <2> HIDE DEF old
  <2>1. /\ old \o new \in Seq(OutRows) /\ Len(old \o new) = Len(old) + Len(new)
        /\ DOMAIN (old \o new) = 1 .. Len(old) + Len(new)
        /\ \A k \in DOMAIN old : (old \o new)[k] = old[k]
        /\ \A n \in DOMAIN new : (old \o new)[Len(old) + n] = new[n]
    BY <1>5, <1>8
  <2> QED BY <1>5, <2>1
<1>10. OutboxTyped
  <2>1. outbox' \in [Db -> Seq(OutRows)]
    <3>1. outbox' = [outbox EXCEPT ![e.db] = old \o new]
      BY <1>1 DEF new
    <3> QED BY <1>2, <1>9, <3>1
  <2>2. ASSUME NEW d \in Db
        PROVE  Len(outbox[d]) <= Len(outbox'[d]) /\ \A k \in DOMAIN outbox[d] : OutKept(outbox[d][k], outbox'[d][k])
    <3>1. CASE d = e.db
      <4>1. outbox'[d] = old \o new /\ outbox[d] = old
        BY <1>7, <3>1
      <4>2. Len(old) <= Len(old \o new)
        BY <1>3, <1>8, <1>9
      <4> HIDE DEF old
      <4> QED BY <1>9, <4>1, <4>2 DEF OutKept
    <3>2. CASE d # e.db
      BY <1>2, <1>7, <3>2 DEF OutKept
    <3> QED BY <3>1, <3>2
  <2>3. OutboxFits
    <3>1. Len(outbox'[e.db]) = Len(outbox[e.db]) + C /\ Total(outbox, MaxOutbox) + C <= MaxOutbox
      BY <1>7, <1>9 DEF Dispatch, C, to, TakenBy
    <3> QED BY <1>3, <1>7, <3>1 DEF OutboxFits
  <2> QED BY <2>1, <2>2, <2>3 DEF OutboxTyped, OutboxKept
<1>11. ASSUME NEW k \in DOMAIN outbox'[e.db], k > Len(old)
       PROVE  outbox'[e.db][k] = OutRow(e, turn[k - Len(old)])
  <2>1. k - Len(old) \in 1 .. C /\ k = Len(old) + (k - Len(old))
    <3>1. k \in 1 .. Len(old) + C
      BY <1>7, <1>9, <1>11
    <3> HIDE DEF old
    <3> QED BY <1>3, <1>8, <1>11, <3>1
  <2>2. k - Len(old) \in DOMAIN new
    BY <1>5, <2>1
  <2> QED BY <1>6, <1>7, <1>9, <2>1, <2>2
<1> QED BY <1>1, <1>7, <1>9, <1>10, <1>11 DEF C, to

(* A message that was sent marks its outbox row. *)
LEMMA OutboxMarked ==
  ASSUME outbox \in [Db -> Seq(OutRows)], NEW d \in Db, NEW k \in DOMAIN outbox[d],
         outbox' = [outbox EXCEPT ![d][k].delivered = TRUE]
  PROVE  /\ OutboxTyped
         /\ \A c \in Db : DOMAIN outbox'[c] = DOMAIN outbox[c]
         /\ outbox'[d][k].delivered
         /\ \A c \in Db : \A j \in DOMAIN outbox[c] : c # d \/ j # k => outbox'[c][j] = outbox[c][j]
<1> DEFINE x == [outbox[d][k] EXCEPT !.delivered = TRUE]
<1>1. outbox' = [outbox EXCEPT ![d] = [outbox[d] EXCEPT ![k] = x]]
  OBVIOUS
<1>2. outbox[d][k] \in OutRows
  OBVIOUS
<1>3. x \in OutRows /\ x.delivered /\ OutKept(outbox[d][k], x)
  BY <1>2 DEF OutRows, OutKept
<1> HIDE DEF x
<1>4. /\ outbox' \in [Db -> Seq(OutRows)]
      /\ \A e \in Db : DOMAIN outbox'[e] = DOMAIN outbox[e] /\ Len(outbox'[e]) = Len(outbox[e])
      /\ \A e \in Db : \A j \in DOMAIN outbox[e] :
           outbox'[e][j] = IF e = d /\ j = k THEN x ELSE outbox[e][j]
  <2>1. LET U == [outbox EXCEPT ![d] = [outbox[d] EXCEPT ![k] = x]]
        IN  /\ U \in [Db -> Seq(OutRows)]
            /\ \A e \in Db : DOMAIN U[e] = DOMAIN outbox[e] /\ Len(U[e]) = Len(outbox[e])
            /\ \A e \in Db : \A j \in DOMAIN outbox[e] :
                 U[e][j] = IF e = d /\ j = k THEN x ELSE outbox[e][j]
    BY <1>3, TableSet
  <2> QED BY <1>1, <2>1
<1>5. ASSUME NEW c \in Db
      PROVE  Len(outbox[c]) <= Len(outbox'[c]) /\ \A j \in DOMAIN outbox[c] : OutKept(outbox[c][j], outbox'[c][j])
  BY <1>3, <1>4 DEF OutKept
<1> QED BY <1>3, <1>4, <1>5 DEF OutboxTyped, OutboxKept, OutboxFits

(* A tailer that starts marks what its bot was to deliver. *)
LEMMA OutboxPassed ==
  ASSUME outbox \in [Db -> Seq(OutRows)], StartTailer
  PROVE  /\ OutboxTyped
         /\ \A d \in Db : DOMAIN outbox'[d] = DOMAIN outbox[d]
         /\ \A d \in Db : \A k \in DOMAIN outbox[d] :
              d \in bot'.conns /\ outbox[d][k].bot = bot'.id => outbox'[d][k].delivered
<1> DEFINE Passed(d, k) == d \in bot'.conns /\ outbox[d][k].bot = bot'.id
           Mark(d, k) == IF Passed(d, k) THEN [outbox[d][k] EXCEPT !.delivered = TRUE] ELSE outbox[d][k]
<1>1. outbox' = [d \in Db |-> [k \in DOMAIN outbox[d] |-> Mark(d, k)]]
  BY DEF StartTailer
<1>2. ASSUME NEW d \in Db, NEW k \in DOMAIN outbox[d]
      PROVE  Mark(d, k) \in OutRows /\ OutKept(outbox[d][k], Mark(d, k)) /\ (Passed(d, k) => Mark(d, k).delivered)
  <2>1. outbox[d][k] \in OutRows
    BY <1>2
  <2>2. \A r \in OutRows : LET x == [r EXCEPT !.delivered = TRUE]
                           IN  x \in OutRows /\ x.delivered /\ OutKept(r, x) /\ OutKept(r, r)
    BY DEF OutRows, OutKept
  <2>3. CASE Passed(d, k)
    BY <2>1, <2>2, <2>3
  <2>4. CASE ~Passed(d, k)
    BY <2>1, <2>2, <2>4
  <2> QED BY <2>3, <2>4
<1> HIDE DEF Mark, Passed
<1>3. ASSUME NEW d \in Db
      PROVE  /\ outbox'[d] \in Seq(OutRows) /\ Len(outbox'[d]) = Len(outbox[d])
             /\ DOMAIN outbox'[d] = DOMAIN outbox[d]
             /\ \A k \in DOMAIN outbox[d] : outbox'[d][k] = Mark(d, k)
  <2>1. outbox'[d] = [k \in DOMAIN outbox[d] |-> Mark(d, k)]
    BY <1>1
  <2>2. DOMAIN outbox[d] = 1 .. Len(outbox[d]) /\ Len(outbox[d]) \in Nat
    OBVIOUS
  <2>3. outbox'[d] \in [1 .. Len(outbox[d]) -> OutRows]
    BY <1>2, <2>1, <2>2
  <2> QED BY <2>1, <2>2, <2>3
<1>4. outbox' \in [Db -> Seq(OutRows)]
  BY <1>1, <1>3
<1> QED BY <1>2, <1>3, <1>4 DEF OutboxTyped, OutboxKept, OutboxFits, Passed

(* A row with a result. *)
Answers(r) == {Answered(r, "watching"), [Answered(r, "terminal") EXCEPT !.noop = TRUE], Answered(r, "terminal")}

(* A result counts one more and keeps the mark.                           *)
LEMMA AnswerKept ==
  ASSUME NEW r \in Rows, ~Final(r), NEW x \in Answers(r)
  PROVE  /\ x \in Rows /\ RowKept(r, x)
         /\ x.reports = r.reports + 1 /\ x.notified = r.notified
<1>1. ASSUME NEW s \in {"watching", "terminal"}
      PROVE  /\ Answered(r, s) \in Rows /\ RowKept(r, Answered(r, s))
             /\ Answered(r, s).reports = r.reports + 1 /\ Answered(r, s).notified = r.notified
  <2> DEFINE y == [r EXCEPT !.status = s]
             n == r.reports + 1
             z == [y EXCEPT !.reports = n]
  <2>1. r.reports \in Nat /\ n \in Nat
    BY DEF Rows
  <2>2. y \in Rows /\ y.status = s /\ y.notified = r.notified
    BY DEF Rows
  <2> HIDE DEF y, n
  <2>3. z \in Rows /\ z.status = s /\ z.notified = r.notified /\ z.reports = n
    BY <2>1, <2>2 DEF Rows
  <2>4. Answered(r, s) = z
    BY DEF Answered, Rows, y, n
  <2> HIDE DEF z
  <2> QED BY <2>1, <2>3, <2>4 DEF RowKept, Final, n
<1>2. ASSUME NEW y \in Rows
      PROVE  LET z == [y EXCEPT !.noop = TRUE]
             IN  z \in Rows /\ z.reports = y.reports /\ z.notified = y.notified /\ z.status = y.status
  BY DEF Rows
<1> QED BY <1>1, <1>2 DEF Answers, RowKept, Final

(* The rows in hand are rows of the table. *)
LEMMA InHandThere ==
  ASSUME NoticeTypeOK, Underway
  PROVE  /\ task.phase = "outbox" => \A k \in Least(task.todo) :
              /\ task.db \in Db /\ k \in DOMAIN outbox[task.db] /\ k \in task.todo
              /\ Sendable(task.db, k) /\ ~outbox[task.db][k].delivered
         /\ task.phase \in {"parked", "outcomes"} =>
              \A i \in Least(task.todo) : i \in DOMAIN rows[Home] /\ ~rows[Home][i].notified
BY Batched DEF NoticeTypeOK, Underway

(* Every step keeps the rows and the outbox as far as messages go. *)
LEMMA TablesStep ==
  ASSUME NoticeTypeOK, Underway, [NoticeNext]_noticeVars
  PROVE  RowTyped /\ OutboxTyped
<1> DEFINE Goal == RowTyped /\ OutboxTyped
<1>0. rows \in [Db -> Seq(Rows)] /\ outbox \in [Db -> Seq(OutRows)] /\ Home \in Db
  BY NotificationsAssumption DEF NoticeTypeOK, OutRows
<1>1. UNCHANGED <<rows, outbox>> => Goal
  BY <1>0, RowsSame, OutboxSame
<1>2. ASSUME NEW d \in Db, Insert(d) PROVE Goal
  <2>1. PICK channel \in Channels, what \in {"live", "parked", "terminal"} :
          rows' = [rows EXCEPT ![d] = Append(@, NewRow(what, channel))]
    BY <1>2 DEF Insert
  <2>2. NewRow(what, channel) \in Rows
    BY DEF NewRow, Rows
  <2> QED BY <1>0, <1>2, <2>1, <2>2, RowNew, OutboxSame DEF Insert
<1>3. ASSUME NEW d \in Db, Alert(d) PROVE Goal
  <2>1. NewRow("terminal", None) \in Rows
    BY DEF NewRow, Rows, Channels
  <2> QED BY <1>0, <1>3, <2>1, RowNew, OutboxSame DEF Alert
<1>4. ASSUME NEW d \in Db, NEW i \in DOMAIN rows[d], Settle(d, i) PROVE Goal
  <2>1. rows[d][i] \in Rows /\ ~Final(rows[d][i])
    BY <1>0, <1>4 DEF Settle, Final
  <2>2. PICK x \in Answers(rows[d][i]) : rows' = [rows EXCEPT ![d] = [rows[d] EXCEPT ![i] = x]]
    BY <1>4 DEF Settle, Answers
  <2>3. x \in Rows /\ RowKept(rows[d][i], x)
    BY <2>1, AnswerKept
  <2> QED BY <1>0, <1>4, <2>2, <2>3, RowChanged, OutboxSame DEF Settle
<1>5. ASSUME NEW d \in Db, NEW i \in DOMAIN rows[d], Decide(d, i) PROVE Goal
  <2> DEFINE r == rows[d][i]
             x(s) == [r EXCEPT !.status = s]
  <2>1. r \in Rows /\ r.status \in {"live", "parked"}
    BY <1>0, <1>5 DEF Decide
  <2>2. \A s \in {"terminal", "cancelled", "live"} : x(s) \in Rows /\ RowKept(r, x(s))
    BY <2>1 DEF Rows, RowKept, Final
  <2>3. \E s \in {"terminal", "cancelled", "live"} : rows' = [rows EXCEPT ![d] = [rows[d] EXCEPT ![i] = x(s)]]
    BY <1>5 DEF Decide
  <2> HIDE DEF x
  <2> QED BY <1>0, <1>5, <2>2, <2>3, RowChanged, OutboxSame DEF Decide
<1>6. ASSUME NEW e \in owed, Dispatch(e) PROVE Goal
  BY <1>0, <1>6, Dispatched, RowsSame DEF Dispatch
<1>7. ASSUME StartTailer PROVE Goal
  <2>1. PICK pending \in SUBSET LiveRows : rows' = [rows EXCEPT ![Home] = Recovered(pending)]
    BY <1>7 DEF StartTailer
  <2>2. RowTyped
    <3>1. \A d \in Db : \A i \in DOMAIN rows[d] : RowKept(rows[d][i], rows[d][i])
      BY <1>0, RowsSame DEF RowKept, Rows
    <3> QED BY <1>0, <2>1, <3>1, RowsRecovered DEF RowTyped, RowsKept, RowsFit
  <2> QED BY <1>0, <1>7, <2>2, OutboxPassed
<1>8. ASSUME StartLegacy PROVE Goal
  <2>1. PICK pending \in SUBSET LiveRows :
          rows' = [rows EXCEPT ![Home] = [i \in DOMAIN @ |->
                     LET r == Recovered(pending)[i]
                     IN  IF Final(r) THEN [r EXCEPT !.notified = TRUE] ELSE r]]
    BY <1>8 DEF StartLegacy
  <2> DEFINE x(i) == LET r == Recovered(pending)[i]
                     IN  IF Final(r) THEN [r EXCEPT !.notified = TRUE] ELSE r
             s == [i \in DOMAIN rows[Home] |-> x(i)]
  <2>2. ASSUME NEW i \in DOMAIN rows[Home] PROVE x(i) \in Rows /\ RowKept(rows[Home][i], x(i))
    <3>1. Recovered(pending)[i] \in Rows /\ RowKept(rows[Home][i], Recovered(pending)[i])
      BY <1>0, <2>2, RowsRecovered
    <3>2. \A r \in Rows : LET q == [r EXCEPT !.notified = TRUE]
                          IN  /\ q \in Rows /\ q.notified
                              /\ q.reports = r.reports /\ q.status = r.status
      BY DEF Rows
    <3> QED BY <3>1, <3>2 DEF RowKept, Final
  <2> HIDE DEF x
  <2>3. s \in Seq(Rows) /\ Len(s) = Len(rows[Home]) /\ \A i \in DOMAIN rows[Home] : s[i] = x(i)
    <3>1. rows[Home] \in Seq(Rows) /\ DOMAIN rows[Home] = 1 .. Len(rows[Home])
      BY <1>0
    <3>2. s \in [1 .. Len(rows[Home]) -> Rows]
      BY <2>2, <3>1
    <3> QED BY <3>1, <3>2
  <2>4. rows' = [rows EXCEPT ![Home] = s]
    BY <2>1 DEF x
  <2> HIDE DEF s
  <2>5. \A d \in Db : \A i \in DOMAIN rows[d] : RowKept(rows[d][i], rows[d][i])
    BY <1>0 DEF RowKept, Rows
  <2>6. RowTyped
    <3>1. rows' \in [Db -> Seq(Rows)]
      BY <1>0, <2>3, <2>4
    <3>2. ASSUME NEW d \in Db
          PROVE  /\ Len(rows[d]) <= Len(rows'[d])
                 /\ \A i \in DOMAIN rows[d] : RowKept(rows[d][i], rows'[d][i])
      <4>1. CASE d = Home
        <5>1. rows'[d] = s /\ rows[d] = rows[Home]
          BY <1>0, <2>4, <4>1
        <5>2. Len(rows[Home]) <= Len(s)
          BY <1>0, <2>3
        <5> QED BY <2>2, <2>3, <5>1, <5>2
      <4>2. CASE d # Home
        BY <1>0, <2>4, <2>5, <4>2
      <4> QED BY <4>1, <4>2
    <3>3. RowsFit
      BY <1>0, <2>3, <2>4 DEF RowsFit
    <3> QED BY <3>1, <3>2, <3>3 DEF RowTyped, RowsKept
  <2> QED BY <1>0, <1>8, <2>6, OutboxSame DEF StartLegacy
<1>9. ASSUME DeliverOne PROVE Goal
  <2>1. PICK k \in Least(task.todo) :
          \/ UNCHANGED <<rows, outbox>>
          \/ Delivered(task.db, k)
    BY <1>9 DEF DeliverOne, SentAndStopped, NotSent, api
  <2>2. CASE Delivered(task.db, k)
    <3>1. task.db \in Db /\ k \in DOMAIN outbox[task.db]
      BY <1>9, InHandThere DEF DeliverOne
    <3>2. OutboxTyped
      BY <1>0, <2>2, <3>1, OutboxMarked DEF Delivered
    <3>3. rows' = rows \/ rows' = [rows EXCEPT ![task.db][outbox[task.db][k].action].notified = TRUE]
      BY <2>2 DEF Delivered
    <3>4. RowTyped
      BY <1>0, <3>1, <3>3, RowsSame, RowMarked
    <3> QED BY <3>2, <3>4
  <2> QED BY <1>1, <2>1, <2>2
<1>10. ASSUME AskReview \/ TellOutcome PROVE Goal
  <2>1. outbox' = outbox /\ (rows' = rows \/ \E i \in Least(task.todo) : Notified(i))
    BY <1>10 DEF AskReview, TellOutcome, SentAndStopped, api
  <2> QED BY <1>0, <2>1, RowMarked, RowsSame, OutboxSame DEF Notified
<1>11. ASSUME TellClose PROVE Goal
  BY <1>1, <1>11 DEF TellClose, SentAndStopped, api
<1>12. ASSUME \/ TailerPoll \/ PollParked \/ PollOutcomes \/ PollCloses \/ ApiCrash \/ EditBindings \/ Stop
              \/ (\E d \in Db : \E p \in DOMAIN book[d] : ClosePosition(d, p))
              \/ UNCHANGED noticeVars
       PROVE  Goal
  BY <1>1, <1>12 DEF TailerPoll, PollParked, PollOutcomes, PollCloses, ApiCrash, EditBindings, Stop,
                    ClosePosition, noticeVars, api
<1> HIDE DEF Goal
<1>13. Goal
  BY <1>2, <1>3, <1>4, <1>5, <1>6, <1>7, <1>8, <1>9, <1>10, <1>11, <1>12
     DEF NoticeNext, Dispatcher, Closer, Api, World
<1> QED BY <1>13 DEF Goal

(* Events are of their type.                                              *)
LEMMA OwedTyped ==
  ASSUME NEW d \in Db, NEW what \in Events, NEW i \in Nat, NEW p \in Nat
  PROVE  Event(d, what, i, p) \in Announcements
BY DEF Event, Announcements

(* Telling counts one message up.                                         *)
LEMMA ToldTyped ==
  ASSUME told \in [Messages -> Nat], NEW m, told' = [told EXCEPT ![m] = @ + 1]
  PROVE  /\ told' \in [Messages -> Nat]
         /\ \A x \in Messages : told'[x] = IF x = m THEN told[x] + 1 ELSE told[x]
<1>1. CASE m \in Messages
  BY <1>1
<1>2. CASE m \notin Messages
  <2>1. told' = told
    BY <1>2
  <2> QED BY <1>2, <2>1
<1> QED BY <1>1, <1>2

(* What only the type invariant says of tasks. *)
TaskOK ==
  /\ bot.mode \in {"off", "tailer", "legacy"} /\ bot.conns \subseteq Db
  /\ task \in [phase : Phases, db : Db, todo : SUBSET Nat, left : SUBSET Db]
  /\ closer \subseteq Nat
  /\ task.phase = "outbox" => bot.mode = "tailer"
  /\ task.phase \in {"parked", "asked", "outcomes"} \/ closer # {} => bot.mode = "legacy"
  /\ task.phase \in {"idle", "asked"} => task.todo = {}

WorldOK ==
  /\ book \in [Db -> Seq(Positions)]
  /\ owed \subseteq Announcements
  /\ bindings \in Configs

CountsOK ==
  /\ told \in [Messages -> Nat]
  /\ cursor \in Nat \cup {None}
  /\ {fails, stops, torn, edits} \subseteq Nat

(* The type invariant in parts.                                           *)
LEMMA TypeParts ==
  NoticeTypeOK <=> /\ rows \in [Db -> Seq(Rows)] /\ outbox \in [Db -> Seq(OutRows)]
                   /\ TaskOK /\ WorldOK /\ CountsOK
BY DEF NoticeTypeOK, TaskOK, WorldOK, CountsOK, OutRows, Positions

(* What happens to one database, beside what happens to the processes.    *)
Happens == \E d \in Db : \/ Insert(d) \/ Alert(d)
                         \/ \E i \in DOMAIN rows[d] : Settle(d, i) \/ Decide(d, i)
                         \/ \E p \in DOMAIN book[d] : ClosePosition(d, p)

LEMMA WorldParts == World <=> Happens \/ ApiCrash \/ EditBindings \/ Stop
BY DEF World, Happens

(* None of it reaches the bot, and it moves no counter.                   *)
LEMMA HappensOutside == Happens => UNCHANGED <<bindings, outbox, cursor, bot, task, closer, told, fails, stops, torn, edits>>
<1>1. \A d \in Db : Insert(d) => UNCHANGED <<bindings, outbox, cursor, bot, task, closer, told, fails, stops, torn, edits>>
  BY DEF Insert, process
<1>2. \A d \in Db : Alert(d) => UNCHANGED <<bindings, outbox, cursor, bot, task, closer, told, fails, stops, torn, edits>>
  BY DEF Alert, process
<1>3. \A d \in Db : \A i \in DOMAIN rows[d] :
        Settle(d, i) \/ Decide(d, i) => UNCHANGED <<bindings, outbox, cursor, bot, task, closer, told, fails, stops, torn, edits>>
  BY DEF Settle, Decide, process
<1>4. \A d \in Db : \A p \in DOMAIN book[d] :
        ClosePosition(d, p) => UNCHANGED <<bindings, outbox, cursor, bot, task, closer, told, fails, stops, torn, edits>>
  BY DEF ClosePosition, process
<1> QED BY <1>1, <1>2, <1>3, <1>4 DEF Happens

(* Nor does the API move a task, nor an edit of the bindings.             *)
LEMMA OutsideTasks ==
  Api \/ ApiCrash \/ EditBindings \/ Happens \/ UNCHANGED noticeVars => UNCHANGED <<bot, task, closer>>
<1>1. Api => UNCHANGED <<bot, task, closer>>
  BY DEF Api, Dispatch, process
<1>2. ApiCrash \/ EditBindings => UNCHANGED <<bot, task, closer>>
  BY DEF ApiCrash, EditBindings, process
<1>3. UNCHANGED noticeVars => UNCHANGED <<bot, task, closer>>
  BY DEF noticeVars, process
<1> QED BY <1>1, <1>2, <1>3, HappensOutside

(* A bot that is off has nothing in hand.                                 *)
LEMMA Halted == Halt => TaskOK'
<1> SUFFICES ASSUME Halt PROVE TaskOK'
  OBVIOUS
<1>1. Home \in Db
  BY NotificationsAssumption
<1> QED BY <1>1 DEF Halt, Off, Idle, Round, TaskOK, Phases

(* The tasks keep their types.                                            *)
LEMMA TaskStep ==
  ASSUME NoticeTypeOK, [NoticeNext]_noticeVars
  PROVE  TaskOK'
<1>0. TaskOK /\ Home \in Db
  BY TypeParts, NotificationsAssumption
<1>1. UNCHANGED process => TaskOK'
  BY <1>0 DEF TaskOK, process
<1>2. ASSUME StartTailer \/ StartLegacy PROVE TaskOK'
  <2>1. bot.mode = "off" /\ UNCHANGED <<task, closer>> /\ bot'.mode \in {"tailer", "legacy"} /\ bot'.conns \subseteq Db
    BY <1>0, <1>2 DEF StartTailer, StartLegacy, Conns, DestinationsFor
  <2> QED BY <1>0, <2>1 DEF TaskOK
<1>3. ASSUME TailerPoll PROVE TaskOK'
  <2>1. PICK d \in bot.conns, left \in SUBSET bot.conns :
          task' = [phase |-> "outbox", db |-> d, left |-> left \ {d}, todo |-> Queue(d)]
    <3> DEFINE ready == {d \in bot.conns : Queue(d) # {}}
               left  == IF task.left \cap ready = {} THEN ready ELSE task.left \cap ready
    <3>1. left \in SUBSET bot.conns
      OBVIOUS
    <3>2. \E d \in left : task' = [phase |-> "outbox", db |-> d, left |-> left \ {d}, todo |-> Queue(d)]
      BY <1>3 DEF TailerPoll
    <3> HIDE DEF left
    <3> QED BY <3>1, <3>2
  <2>2. Queue(d) \subseteq DOMAIN outbox[d]
    BY Batched DEF Queue
  <2>3. d \in Db /\ DOMAIN outbox[d] \subseteq Nat
    <3>1. d \in Db
      BY <1>0 DEF TaskOK
    <3>2. outbox[d] \in Seq(OutRows)
      BY <3>1, TypeParts
    <3> QED BY <3>1, <3>2
  <2>4. bot' = bot /\ bot.mode = "tailer" /\ closer' = closer
    BY <1>3 DEF TailerPoll
  <2>5. task' \in [phase : Phases, db : Db, todo : SUBSET Nat, left : SUBSET Db] /\ task'.phase = "outbox"
    <3>1. Queue(d) \in SUBSET Nat /\ left \ {d} \in SUBSET Db
      BY <1>0, <2>2, <2>3 DEF TaskOK
    <3> QED BY <2>1, <2>3, <3>1 DEF Phases
  <2> QED BY <1>0, <2>4, <2>5 DEF TaskOK
<1>4. ASSUME NEW k, Halt \/ (UNCHANGED <<bot, closer>> /\ task' = Served(k) /\ task.phase \in {"outbox", "outcomes"})
      PROVE  TaskOK'
  <2>1. CASE UNCHANGED <<bot, closer>> /\ task' = Served(k) /\ task.phase \in {"outbox", "outcomes"}
    <3>1. CASE task.todo = {k}
      BY <1>0, <2>1, <3>1 DEF TaskOK, Served, Phases
    <3>2. CASE task.todo # {k}
      BY <1>0, <2>1, <3>2 DEF TaskOK, Served, Phases
    <3> QED BY <3>1, <3>2
  <2> QED BY <1>4, <2>1, Halted
<1>5. ASSUME DeliverOne PROVE TaskOK'
  <2>1. PICK k \in Least(task.todo) : Halt \/ (UNCHANGED <<bot, closer>> /\ task' = Served(k))
    BY <1>5 DEF DeliverOne, Sent, SentAndStopped, NotSent, Failed
  <2> QED BY <1>4, <1>5, <2>1 DEF DeliverOne
<1>6. ASSUME TellOutcome PROVE TaskOK'
  <2>1. PICK i \in Least(task.todo) : \/ Halt
                                      \/ UNCHANGED <<bot, closer>> /\ (task' = Served(i) \/ task' = Idle)
    BY <1>6 DEF TellOutcome, Sent, SentAndStopped, Failed
  <2>2. CASE UNCHANGED <<bot, closer>> /\ task' = Idle
    BY <1>0, <2>2 DEF TaskOK, Idle, Round, Phases
  <2> QED BY <1>4, <1>6, <2>1, <2>2 DEF TellOutcome
<1>7. ASSUME AskReview PROVE TaskOK'
  <2>1. PICK i \in Least(task.todo) : Halt \/ (UNCHANGED <<bot, closer>> /\ task' = Asked(i))
    BY <1>7 DEF AskReview, Sent, SentAndStopped, Failed
  <2>2. CASE UNCHANGED <<bot, closer>> /\ task' = Asked(i)
    BY <1>0, <1>7, <2>2 DEF AskReview, TaskOK, Asked, Round, Phases
  <2> QED BY <2>1, <2>2, Halted
<1>8. ASSUME PollParked \/ PollOutcomes PROVE TaskOK'
  <2>1. Parked \subseteq DOMAIN rows[Home] /\ Outcomes \subseteq DOMAIN rows[Home]
    BY Batched DEF Parked, Outcomes, Untold
  <2>2. DOMAIN rows[Home] \subseteq Nat
    BY <1>0 DEF NoticeTypeOK
  <2>3. /\ bot.mode = "legacy" /\ bot' = bot /\ closer' = closer
        /\ task' \in {Idle, Round("parked", Parked), Round("outcomes", Outcomes)}
    BY <1>8 DEF PollParked, PollOutcomes
  <2> QED BY <1>0, <2>1, <2>2, <2>3 DEF TaskOK, Idle, Round, Phases
<1>9. ASSUME PollCloses \/ TellClose PROVE TaskOK'
  <2>1. CASE PollCloses
    <3>1. FirstBatch(Unreported) \subseteq DOMAIN book[Home]
      BY Batched DEF Unreported, Closed
    <3>2. DOMAIN book[Home] \subseteq Nat
      <4>1. book[Home] \in Seq(Positions)
        BY <1>0, TypeParts DEF WorldOK
      <4> QED BY <4>1
    <3>3. /\ bot.mode = "legacy" /\ UNCHANGED <<bot, task>>
          /\ closer' = FirstBatch(Unreported)
      BY <2>1 DEF PollCloses
    <3> QED BY <1>0, <3>1, <3>2, <3>3 DEF TaskOK
  <2>2. CASE TellClose
    <3>1. closer # {}
      BY <2>2, Batched DEF TellClose
    <3>2. Halt \/ (UNCHANGED <<bot, task>> /\ closer' \subseteq closer)
      BY <2>2 DEF TellClose, Sent, SentAndStopped, Failed
    <3> QED BY <1>0, <3>1, <3>2, Halted DEF TaskOK
  <2> QED BY <1>9, <2>1, <2>2
<1>10. ASSUME Stop PROVE TaskOK'
  BY <1>10, Halted DEF Stop
<1>11. ASSUME Api \/ ApiCrash \/ EditBindings \/ Happens \/ UNCHANGED noticeVars
       PROVE  TaskOK'
  BY <1>1, <1>11, OutsideTasks DEF process
<1> QED BY <1>2, <1>3, <1>5, <1>6, <1>7, <1>8, <1>9, <1>10, <1>11, WorldParts DEF NoticeNext, Dispatcher, Closer

(* So do positions, events and bindings.                                  *)
LEMMA WorldStep ==
  ASSUME NoticeTypeOK, [NoticeNext]_noticeVars
  PROVE  WorldOK'
<1>0. WorldOK /\ rows \in [Db -> Seq(Rows)] /\ Home \in Db
  BY TypeParts, NotificationsAssumption
<1>1. UNCHANGED <<book, owed, bindings>> => WorldOK'
  BY <1>0 DEF WorldOK
<1>2. ASSUME NEW d \in Db, NEW i \in Nat, book' = [book EXCEPT ![d] = Append(@, [action |-> i, open |-> TRUE])]
      PROVE  book' \in [Db -> Seq(Positions)]
  <2>1. [action |-> i, open |-> TRUE] \in Positions
    BY DEF Positions
  <2> QED BY <1>0, <1>2, <2>1 DEF WorldOK
<1>3. ASSUME NEW d \in Db, Alert(d) PROVE WorldOK'
  <2>1. Len(rows[d]) + 1 \in Nat
    BY <1>0
  <2>2. Event(d, "alert", Len(rows[d]) + 1, 0) \in Announcements
    BY <2>1, OwedTyped DEF Events
  <2> QED BY <1>0, <1>2, <1>3, <2>2 DEF Alert, WorldOK
<1>4. ASSUME NEW d \in Db, NEW i \in DOMAIN rows[d], Settle(d, i) PROVE WorldOK'
  <2>1. i \in Nat
    BY <1>0
  <2>2. Event(d, "action_terminal", i, 0) \in Announcements
    BY <2>1, OwedTyped DEF Events
  <2>3. book' = book \/ book' = [book EXCEPT ![d] = Append(@, [action |-> i, open |-> TRUE])]
    BY <1>4 DEF Settle
  <2> QED BY <1>0, <1>2, <1>4, <2>1, <2>2, <2>3 DEF Settle, WorldOK
<1>5. ASSUME NEW d \in Db, NEW p \in DOMAIN book[d], ClosePosition(d, p) PROVE WorldOK'
  <2>1. book[d] \in Seq(Positions) /\ p \in Nat /\ book[d][p] \in Positions
    BY <1>0 DEF WorldOK
  <2> DEFINE x == [book[d][p] EXCEPT !.open = FALSE]
  <2>2. x \in Positions /\ book[d][p].action \in Nat
    BY <2>1 DEF Positions
  <2>3. book' = [book EXCEPT ![d] = [book[d] EXCEPT ![p] = x]]
    BY <1>5 DEF ClosePosition
  <2> HIDE DEF x
  <2>4. [book[d] EXCEPT ![p] = x] \in Seq(Positions)
    BY <2>1, <2>2, RowSet
  <2>5. book' \in [Db -> Seq(Positions)]
    BY <1>0, <2>3, <2>4 DEF WorldOK
  <2>6. Event(d, "position_closed", book[d][p].action, p) \in Announcements
    BY <2>1, <2>2, OwedTyped DEF Events
  <2> QED BY <1>0, <1>5, <2>5, <2>6 DEF ClosePosition, WorldOK
<1>6. ASSUME Api \/ ApiCrash PROVE WorldOK'
  BY <1>0, <1>6 DEF Api, Dispatch, ApiCrash, WorldOK
<1>7. ASSUME EditBindings PROVE WorldOK'
  BY <1>0, <1>7 DEF EditBindings, WorldOK, api
<1>8. ASSUME (\E d \in Db : Insert(d) \/ \E i \in DOMAIN rows[d] : Decide(d, i)) \/ Stop \/ StartTailer \/ StartLegacy
             \/ UNCHANGED noticeVars
      PROVE  WorldOK'
  BY <1>1, <1>8 DEF Insert, Decide, Stop, StartTailer, StartLegacy, noticeVars, api
<1>9. ASSUME Dispatcher \/ Closer PROVE WorldOK'
  BY <1>1, <1>9 DEF Dispatcher, Closer, TailerPoll, DeliverOne, PollParked, PollOutcomes, AskReview, TellOutcome,
                   PollCloses, TellClose, SentAndStopped, api
<1> QED BY <1>3, <1>4, <1>5, <1>6, <1>7, <1>8, <1>9 DEF NoticeNext, World

(* So do the counts and the cursor.                                       *)
LEMMA CountsStep ==
  ASSUME NoticeTypeOK, [NoticeNext]_noticeVars
  PROVE  CountsOK'
<1>0. CountsOK /\ TaskOK /\ WorldOK
  BY TypeParts
<1> DEFINE counts == <<told, cursor, fails, stops, torn, edits>>
<1>1. UNCHANGED counts => CountsOK'
  BY <1>0 DEF CountsOK
<1>2. ASSUME NEW m, Sent(m), edits' = edits, cursor' \in Nat \cup {None} PROVE CountsOK'
  BY <1>0, <1>2, ToldTyped DEF Sent, CountsOK
<1>3. ASSUME NEW m, SentAndStopped(m) PROVE CountsOK'
  <2>1. told' \in [Messages -> Nat]
    BY <1>0, <1>3, ToldTyped DEF SentAndStopped, CountsOK
  <2>2. /\ stops' = stops + 1 /\ torn' = torn + 1 /\ UNCHANGED <<cursor, fails, edits>>
        /\ stops \in Nat /\ torn \in Nat /\ fails \in Nat /\ edits \in Nat /\ cursor \in Nat \cup {None}
    BY <1>0, <1>3 DEF SentAndStopped, CountsOK
  <2> QED BY <2>1, <2>2 DEF CountsOK
<1>4. ASSUME Failed, UNCHANGED <<cursor, edits>> PROVE CountsOK'
  BY <1>0, <1>4 DEF Failed, CountsOK
<1>5. cursor' = cursor => cursor' \in Nat \cup {None}
  BY <1>0 DEF CountsOK
<1>6. ASSUME DeliverOne PROVE CountsOK'
  BY <1>1, <1>2, <1>3, <1>4, <1>5, <1>6 DEF DeliverOne, NotSent
<1>7. ASSUME AskReview PROVE CountsOK'
  BY <1>2, <1>3, <1>4, <1>5, <1>7 DEF AskReview
<1>8. ASSUME TellOutcome PROVE CountsOK'
  <2>1. PICK i \in Least(task.todo) :
          \/ UNCHANGED counts
          \/ Sent(<<"outcome", Home, i>>) /\ UNCHANGED <<cursor, edits>>
          \/ SentAndStopped(<<"outcome", Home, i>>)
          \/ Failed /\ UNCHANGED <<cursor, edits>>
    BY <1>8 DEF TellOutcome
  <2> QED BY <1>1, <1>2, <1>3, <1>4, <1>5, <2>1
<1>9. ASSUME TellClose PROVE CountsOK'
  <2>1. PICK p \in Least(closer) :
          \/ Sent(<<"closed", Home, p>>) /\ cursor' = p /\ edits' = edits
          \/ SentAndStopped(<<"closed", Home, p>>)
          \/ Failed /\ UNCHANGED <<cursor, edits>>
    BY <1>9 DEF TellClose
  <2>2. p \in Nat
    BY <1>0, Batched DEF TaskOK
  <2> QED BY <1>2, <1>3, <1>4, <2>1, <2>2
<1>10. ASSUME StartLegacy PROVE CountsOK'
  <2>1. Closed \subseteq Nat
    BY <1>0, NotificationsAssumption DEF Closed, WorldOK
  <2>2. cursor' \in Nat \cup {None}
    BY <1>0, <1>10, <2>1 DEF StartLegacy, CountsOK
  <2> QED BY <1>0, <1>10, <2>2 DEF StartLegacy, CountsOK
<1>11. ASSUME ApiCrash \/ EditBindings \/ Stop PROVE CountsOK'
  BY <1>0, <1>11 DEF ApiCrash, EditBindings, Stop, CountsOK
<1>12. ASSUME Api \/ StartTailer \/ TailerPoll \/ PollParked \/ PollOutcomes \/ PollCloses \/ Happens \/ UNCHANGED noticeVars
       PROVE  CountsOK'
  <2>1. CASE Api \/ Happens
    BY <1>1, <2>1, HappensOutside DEF Api, Dispatch
  <2>2. CASE StartTailer \/ TailerPoll \/ PollParked \/ PollOutcomes \/ PollCloses \/ UNCHANGED noticeVars
    BY <1>1, <2>2 DEF StartTailer, TailerPoll, PollParked, PollOutcomes, PollCloses, noticeVars
  <2> QED BY <1>12, <2>1, <2>2
<1> QED BY <1>6, <1>7, <1>8, <1>9, <1>10, <1>11, <1>12, WorldParts DEF NoticeNext, Dispatcher, Closer

(* Every step keeps the types, and the tables as far as messages go.      *)
LEMMA NoticeTypeStep ==
  ASSUME NoticeTypeOK, Underway, [NoticeNext]_noticeVars
  PROVE  NoticeTypeOK' /\ RowsKept /\ OutboxKept /\ RowsFit /\ OutboxFits
<1>1. RowTyped /\ OutboxTyped /\ TaskOK' /\ WorldOK' /\ CountsOK'
  BY TablesStep, TaskStep, WorldStep, CountsStep
<1> QED BY <1>1 DEF RowTyped, OutboxTyped, NoticeTypeOK, TaskOK, WorldOK, CountsOK, OutRows, Positions

-----------------------------------------------------------------------------
(* Notifications: the parts of the invariant, one after the other.         *)

(* Rows are never removed.                                                *)
LEMMA DomainsGrow ==
  ASSUME NoticeTypeOK, NoticeTypeOK', RowsKept, OutboxKept, NEW d \in Db
  PROVE  DOMAIN rows[d] \subseteq DOMAIN rows'[d] /\ DOMAIN outbox[d] \subseteq DOMAIN outbox'[d]
<1>1. /\ rows[d] \in Seq(Rows) /\ rows'[d] \in Seq(Rows)
      /\ outbox[d] \in Seq(OutRows) /\ outbox'[d] \in Seq(OutRows)
  BY DEF NoticeTypeOK, OutRows
<1> QED BY <1>1 DEF RowsKept, OutboxKept

(* Outbox rows come of a dispatch. *)
LEMMA NewByDispatch ==
  ASSUME NoticeTypeOK, Underway, [NoticeNext]_noticeVars,
         NEW d \in Db, NEW k \in DOMAIN outbox'[d], k \notin DOMAIN outbox[d]
  PROVE  \E e \in owed : Dispatch(e) /\ d = e.db
<1>1. DOMAIN outbox'[d] # DOMAIN outbox[d]
  OBVIOUS
<1>2. \/ \E e \in owed : Dispatch(e)
      \/ outbox' = outbox
      \/ StartTailer
      \/ DeliverOne /\ \E j \in Least(task.todo) : Delivered(task.db, j)
  BY DEF NoticeNext, Dispatcher, Closer, Api, World, noticeVars, api, TailerPoll, DeliverOne, PollParked,
         PollOutcomes, AskReview, TellOutcome, PollCloses, TellClose, SentAndStopped, StartLegacy,
         Insert, Alert, Settle, Decide, ClosePosition, ApiCrash, EditBindings, Stop, NotSent
<1>3. ~StartTailer
  BY <1>1, OutboxPassed DEF NoticeTypeOK, OutRows
<1>4. ~(DeliverOne /\ \E j \in Least(task.todo) : Delivered(task.db, j))
  <2> SUFFICES ASSUME DeliverOne, NEW j \in Least(task.todo), Delivered(task.db, j) PROVE FALSE
    OBVIOUS
  <2>1. task.db \in Db /\ j \in DOMAIN outbox[task.db]
    BY InHandThere DEF DeliverOne
  <2>2. outbox \in [Db -> Seq(OutRows)] /\ outbox' = [outbox EXCEPT ![task.db][j].delivered = TRUE]
    BY DEF NoticeTypeOK, OutRows, Delivered
  <2> QED BY <1>1, <2>1, <2>2, OutboxMarked
<1>5. PICK e \in owed : Dispatch(e)
  BY <1>1, <1>2, <1>3, <1>4
<1>6. d = e.db
  BY <1>1, <1>5, Dispatched
<1> QED BY <1>5, <1>6

(* Events and outbox rows stay about rows there are.                      *)
LEMMA LinkedStep ==
  ASSUME NoticeInv, [NoticeNext]_noticeVars
  PROVE  Linked'
<1>0. /\ NoticeTypeOK /\ Linked /\ Underway
      /\ NoticeTypeOK' /\ RowsKept /\ OutboxKept /\ RowsFit /\ OutboxFits
  BY NoticeTypeStep DEF NoticeInv
<1>1. /\ \A d \in Db : rows[d] \in Seq(Rows) /\ rows'[d] \in Seq(Rows)
      /\ \A d \in Db : outbox[d] \in Seq(OutRows) /\ outbox'[d] \in Seq(OutRows)
      /\ owed \subseteq Announcements /\ owed' \subseteq Announcements
  BY <1>0 DEF NoticeTypeOK, OutRows
<1>2. \A d \in Db : DOMAIN rows[d] \subseteq DOMAIN rows'[d] /\ DOMAIN outbox[d] \subseteq DOMAIN outbox'[d]
  BY <1>0, DomainsGrow
<1>3. ASSUME NEW e \in owed PROVE Sourced(e)'
  <2> SUFFICES ASSUME e.event # "position_closed"
      PROVE  /\ e.action \in DOMAIN rows'[e.db] /\ e.position = 0
             /\ e.event = "alert" <=> rows'[e.db][e.action].reports = 0
             /\ e.event = "alert" => Final(rows'[e.db][e.action])
    BY DEF Sourced, Final
  <2> DEFINE r == rows[e.db][e.action]
             s == rows'[e.db][e.action]
  <2>1. e.db \in Db /\ e.action \in DOMAIN rows[e.db] /\ e.position = 0
    BY <1>0, <1>1 DEF Linked, Sourced, Announcements
  <2>2. (e.event = "alert" <=> r.reports = 0) /\ (e.event = "alert" => Final(r))
    BY <1>0 DEF Linked, Sourced
  <2>3. RowKept(r, s) /\ r.reports \in Nat
    <3>1. r \in Rows
      BY <1>1, <2>1
    <3>2. RowKept(r, s)
      BY <1>0, <2>1 DEF RowsKept
    <3> HIDE DEF r
    <3> QED BY <3>1, <3>2 DEF Rows
  <2>4. e.action \in DOMAIN rows'[e.db]
    BY <1>2, <2>1
  <2> HIDE DEF r, s
  <2>5. (e.event = "alert" <=> s.reports = 0) /\ (e.event = "alert" => Final(s))
    BY <2>2, <2>3 DEF RowKept
  <2> QED BY <2>1, <2>4, <2>5 DEF s
<1>4. ASSUME NEW e \in owed' PROVE Sourced(e)'
  <2>1. \/ owed' \subseteq owed
        \/ \E d \in Db : Alert(d)
        \/ \E d \in Db : \E i \in DOMAIN rows[d] : Settle(d, i)
        \/ \E d \in Db : \E p \in DOMAIN book[d] : ClosePosition(d, p)
    BY DEF NoticeNext, Dispatcher, Closer, Api, World, noticeVars, api, TailerPoll, DeliverOne, PollParked, PollOutcomes,
           AskReview, TellOutcome, PollCloses, TellClose, SentAndStopped, StartTailer, StartLegacy, Dispatch, Insert,
           Decide, ApiCrash, EditBindings, Stop
  <2>2. CASE owed' \subseteq owed
    BY <1>3, <2>2
  <2>3. ASSUME NEW d \in Db, Alert(d) PROVE Sourced(e)'
    <3> DEFINE i == Len(rows[d]) + 1
    <3>1. CASE e = Event(d, "alert", i, 0)
      <4>1. rows'[d] = Append(rows[d], NewRow("terminal", None))
        BY <1>0, <2>3 DEF Alert, NoticeTypeOK
      <4>2. i \in DOMAIN rows'[d] /\ rows'[d][i] = NewRow("terminal", None)
        BY <1>1, <4>1
      <4>3. e.db = d /\ e.event = "alert" /\ e.action = i /\ e.position = 0
        BY <3>1 DEF Event
      <4> HIDE DEF i
      <4> QED BY <4>2, <4>3 DEF Sourced, Final, NewRow
    <3> QED BY <1>3, <2>3, <3>1 DEF Alert
  <2>4. ASSUME NEW d \in Db, NEW i \in DOMAIN rows[d], Settle(d, i) PROVE Sourced(e)'
    <3>1. CASE e = Event(d, "action_terminal", i, 0)
      <4>1. rows[d][i] \in Rows /\ ~Final(rows[d][i])
        BY <1>1, <2>4 DEF Settle, Final
      <4>2. PICK x \in Answers(rows[d][i]) : rows' = [rows EXCEPT ![d] = [rows[d] EXCEPT ![i] = x]]
        BY <2>4 DEF Settle, Answers
      <4>3. x.reports = rows[d][i].reports + 1 /\ rows[d][i].reports \in Nat
        BY <4>1, AnswerKept DEF Rows
      <4>4. rows'[d][i] = x /\ i \in DOMAIN rows'[d]
        BY <1>0, <1>2, <4>2 DEF NoticeTypeOK
      <4>5. e.db = d /\ e.event = "action_terminal" /\ e.action = i /\ e.position = 0
        BY <3>1 DEF Event
      <4> QED BY <4>3, <4>4, <4>5 DEF Sourced
    <3> QED BY <1>3, <2>4, <3>1 DEF Settle
  <2>5. ASSUME NEW d \in Db, NEW p \in DOMAIN book[d], ClosePosition(d, p) PROVE Sourced(e)'
    <3>1. CASE e = Event(d, "position_closed", book[d][p].action, p)
      BY <3>1 DEF Sourced, Event
    <3> QED BY <1>3, <2>5, <3>1 DEF ClosePosition
  <2> QED BY <2>1, <2>2, <2>3, <2>4, <2>5
<1>5. ASSUME NEW d \in Db, NEW k \in DOMAIN outbox'[d], outbox'[d][k].event # "position_closed"
      PROVE  outbox'[d][k].action \in DOMAIN rows'[d]
  <2>1. CASE k \in DOMAIN outbox[d]
    BY <1>0, <1>2, <1>5, <2>1 DEF OutboxKept, OutKept, Linked
  <2>2. CASE k \notin DOMAIN outbox[d]
    <3>1. k > Len(outbox[d])
      BY <1>1, <2>2
    <3>2. PICK e \in owed : Dispatch(e) /\ d = e.db
      BY <1>0, <2>2, NewByDispatch
    <3>3. outbox'[d][k].event = e.event /\ outbox'[d][k].action = e.action
      <4>1. PICK turn \in InOrder(TakenBy(e)) : \A j \in DOMAIN outbox'[e.db] :
              j > Len(outbox[e.db]) => outbox'[e.db][j] = OutRow(e, turn[j - Len(outbox[e.db])])
        BY <1>0, <3>2, Dispatched
      <4> DEFINE n == turn[k - Len(outbox[d])]
      <4>2. outbox'[d][k] = OutRow(e, n)
        BY <1>5, <3>1, <3>2, <4>1
      <4> HIDE DEF n
      <4> QED BY <4>2 DEF OutRow
    <3> QED BY <1>0, <1>2, <1>5, <3>2, <3>3 DEF Linked, Sourced
  <2> QED BY <2>1, <2>2
<1>6. ASSUME NEW d \in Db PROVE Len(rows'[d]) <= MaxRows /\ Len(outbox'[d]) <= MaxOutbox
  <2>1. /\ Len(rows[d]) <= MaxRows /\ Len(outbox[d]) <= MaxOutbox
        /\ Len(rows[d]) \in Nat /\ Len(outbox[d]) \in Nat /\ MaxRows \in Nat /\ MaxOutbox \in Nat
    BY <1>0, <1>1, NotificationsAssumption DEF Linked
  <2>2. rows \in [Db -> Seq(Rows)] /\ outbox \in [Db -> Seq(OutRows)]
    BY <1>0 DEF NoticeTypeOK, OutRows
  <2>3. Total(rows, MaxRows) \in Nat /\ Len(rows[d]) <= Total(rows, MaxRows)
    BY <2>1, <2>2, RoomLeft
  <2>4. Total(outbox, MaxOutbox) \in Nat /\ Len(outbox[d]) <= Total(outbox, MaxOutbox)
    BY <2>1, <2>2, RoomLeft
  <2>5. Len(rows'[d]) <= MaxRows
    BY <1>0, <2>1, <2>3 DEF RowsFit
  <2>6. Len(outbox'[d]) <= MaxOutbox
    <3>1. CASE Len(outbox'[d]) = Len(outbox[d])
      BY <2>1, <3>1
    <3>2. ASSUME NEW n \in Nat, Total(outbox, MaxOutbox) + n <= MaxOutbox, Len(outbox'[d]) = Len(outbox[d]) + n
          PROVE  Len(outbox'[d]) <= MaxOutbox
      BY <2>1, <2>4, <3>2
    <3> QED BY <1>0, <3>1, <3>2 DEF OutboxFits
  <2> QED BY <2>5, <2>6
<1> QED BY <1>4, <1>5, <1>6 DEF Linked

(* The messages there may be.                                             *)
LEMMA MessageKinds ==
  /\ \A d \in Db, k \in 1 .. MaxOutbox : <<"dm", d, k>> \in Messages
  /\ \A what \in {"outcome", "review"}, i \in 1 .. MaxRows : <<what, Home, i>> \in Messages
  /\ \A p \in 1 .. MaxBook : <<"closed", Home, p>> \in Messages
<1>1. \A d \in Db, k \in 1 .. MaxOutbox : <<"dm", d, k>> \in Messages
  BY DEF Messages
<1>2. \A what \in {"outcome", "review"}, i \in 1 .. MaxRows : <<what, Home, i>> \in Messages
  BY DEF Messages
<1>3. \A p \in 1 .. MaxBook : <<"closed", Home, p>> \in Messages
  BY DEF Messages
<1> QED BY <1>1, <1>2, <1>3

(* A message, and what is done once it has arrived.                        *)
Tells(m, done) == (Sent(m) /\ done) \/ SentAndStopped(m)

TellsRow == task.phase = "outbox" /\ \E k \in Least(task.todo) : Tells(<<"dm", task.db, k>>, Delivered(task.db, k))
TellsReview == task.phase = "parked" /\ \E i \in Least(task.todo) : Tells(<<"review", Home, i>>, Notified(i))
TellsOutcome == task.phase = "outcomes" /\ \E i \in Least(task.todo) : Tells(<<"outcome", Home, i>>, Notified(i))
TellsClosed == \E p \in Least(closer) : Tells(<<"closed", Home, p>>, cursor' = p)
TellsNone == told' = told /\ torn' = torn

(* One message at a time.                                                 *)
LEMMA MessageStep ==
  ASSUME [NoticeNext]_noticeVars
  PROVE  TellsNone \/ TellsRow \/ TellsReview \/ TellsOutcome \/ TellsClosed
<1>1. DeliverOne => TellsNone \/ TellsRow
  BY DEF DeliverOne, TellsNone, TellsRow, Tells, NotSent, Failed
<1>2. AskReview => TellsNone \/ TellsReview
  BY DEF AskReview, TellsNone, TellsReview, Tells, Failed
<1>3. TellOutcome => TellsNone \/ TellsOutcome
  BY DEF TellOutcome, TellsNone, TellsOutcome, Tells, Failed
<1>4. TellClose => TellsNone \/ TellsClosed
  BY DEF TellClose, TellsNone, TellsClosed, Tells, Failed
<1>5. DeliverOne \/ AskReview \/ TellOutcome \/ TellClose \/ TellsNone
  <2>1. TailerPoll \/ PollParked \/ PollOutcomes \/ PollCloses => TellsNone
    BY DEF TailerPoll, PollParked, PollOutcomes, PollCloses, TellsNone
  <2>2. StartTailer \/ StartLegacy \/ Stop \/ ApiCrash \/ EditBindings => TellsNone
    BY DEF StartTailer, StartLegacy, Stop, ApiCrash, EditBindings, TellsNone
  <2>3. Api \/ Happens \/ UNCHANGED noticeVars => TellsNone
    BY HappensOutside DEF Api, Dispatch, noticeVars, TellsNone
  <2> QED BY <2>1, <2>2, <2>3, WorldParts DEF NoticeNext, Dispatcher, Closer
<1> QED BY <1>1, <1>2, <1>3, <1>4, <1>5

(* So a count either stays or goes up by one, for a message in hand.       *)
Arrives(done) ==
  \/ torn' = torn /\ done
  \/ torn' = torn + 1 /\ Halt /\ UNCHANGED <<rows, outbox, cursor>>

RowInHand(m) ==
  task.phase = "outbox" /\ \E k \in Least(task.todo) : m = <<"dm", task.db, k>> /\ Arrives(Delivered(task.db, k))
ReviewInHand(m) ==
  task.phase = "parked" /\ \E i \in Least(task.todo) : m = <<"review", Home, i>> /\ Arrives(Notified(i))
OutcomeInHand(m) ==
  task.phase = "outcomes" /\ \E i \in Least(task.todo) : m = <<"outcome", Home, i>> /\ Arrives(Notified(i))
ClosedInHand(m) == \E p \in Least(closer) : m = <<"closed", Home, p>> /\ Arrives(cursor' = p)

(* The count of one message over a step.                                  *)
LEMMA MessageCounted ==
  ASSUME NoticeTypeOK, [NoticeNext]_noticeVars, NEW m \in Messages
  PROVE  \/ told'[m] = told[m] /\ torn' \in {torn, torn + 1}
         \/ told'[m] = told[m] + 1 /\ (RowInHand(m) \/ ReviewInHand(m) \/ OutcomeInHand(m) \/ ClosedInHand(m))
<1> DEFINE Same == told'[m] = told[m] /\ torn' \in {torn, torn + 1}
           More == told'[m] = told[m] + 1
<1>0. told \in [Messages -> Nat]
  BY DEF NoticeTypeOK
<1>1. ASSUME NEW x, Sent(x) \/ SentAndStopped(x) PROVE (m = x /\ More) \/ Same
  BY <1>0, <1>1, ToldTyped DEF Sent, SentAndStopped
<1>2. ASSUME NEW x, SentAndStopped(x) PROVE torn' = torn + 1 /\ Halt /\ UNCHANGED <<rows, outbox, cursor>>
  BY <1>2 DEF SentAndStopped, api
<1>3. ASSUME NEW x, Sent(x) PROVE torn' = torn
  BY <1>3 DEF Sent
<1> HIDE DEF Same, More
<1>4. TellsRow => Same \/ (More /\ RowInHand(m))
  BY <1>1, <1>2, <1>3 DEF TellsRow, Tells, Arrives, RowInHand
<1>5. TellsReview => Same \/ (More /\ ReviewInHand(m))
  BY <1>1, <1>2, <1>3 DEF TellsReview, Tells, Arrives, ReviewInHand
<1>6. TellsOutcome => Same \/ (More /\ OutcomeInHand(m))
  BY <1>1, <1>2, <1>3 DEF TellsOutcome, Tells, Arrives, OutcomeInHand
<1>7. TellsClosed => Same \/ (More /\ ClosedInHand(m))
  BY <1>1, <1>2, <1>3 DEF TellsClosed, Tells, Arrives, ClosedInHand
<1>8. TellsNone => Same
  BY DEF TellsNone, Same
<1>9. Same \/ (More /\ (RowInHand(m) \/ ReviewInHand(m) \/ OutcomeInHand(m) \/ ClosedInHand(m)))
  BY <1>4, <1>5, <1>6, <1>7, <1>8, MessageStep
<1> QED BY <1>9 DEF Same, More

(* A message is of one kind.                                              *)
LEMMA KindInHand ==
  ASSUME NEW m
  PROVE  /\ RowInHand(m) => m[1] = "dm"
         /\ ReviewInHand(m) => m[1] = "review"
         /\ OutcomeInHand(m) => m[1] = "outcome"
         /\ ClosedInHand(m) => m[1] = "closed"
<1>1. RowInHand(m) => m[1] = "dm"
  BY DEF RowInHand
<1>2. ReviewInHand(m) => m[1] = "review"
  BY DEF ReviewInHand
<1>3. OutcomeInHand(m) => m[1] = "outcome"
  BY DEF OutcomeInHand
<1>4. ClosedInHand(m) => m[1] = "closed"
  BY DEF ClosedInHand
<1> QED BY <1>1, <1>2, <1>3, <1>4

(* The bot changes when it starts and when it stops.                       *)
LEMMA BotStep ==
  ASSUME [NoticeNext]_noticeVars
  PROVE  bot' = bot \/ Halt \/ StartTailer \/ StartLegacy
BY DEF NoticeNext, Dispatcher, Closer, Api, World, noticeVars, process, TailerPoll, PollParked, PollOutcomes,
       DeliverOne, AskReview, TellOutcome, TellClose, Sent, SentAndStopped, NotSent, Failed,
       PollCloses, Dispatch, Insert, Alert, Settle, Decide, ClosePosition,
       ApiCrash, EditBindings, Stop

(* A row that comes into the tailer's reach was there before, or is marked *)
(* at the start.                                                           *)
LEMMA ReachStep ==
  ASSUME NoticeTypeOK, [NoticeNext]_noticeVars, OutboxKept,
         NEW d \in Db, NEW k \in DOMAIN outbox[d], Sendable(d, k)', ~outbox'[d][k].delivered
  PROVE  bot' = bot /\ Sendable(d, k) /\ ~outbox[d][k].delivered
<1>1. ~Halt /\ ~StartLegacy
  BY DEF Sendable, Halt, Off, StartLegacy
<1>2. OutKept(outbox[d][k], outbox'[d][k])
  BY DEF OutboxKept
<1>3. ~StartTailer
  <2>1. outbox \in [Db -> Seq(OutRows)]
    BY DEF NoticeTypeOK, OutRows
  <2>2. d \in bot'.conns /\ outbox[d][k].bot = bot'.id
    BY <1>2 DEF Sendable, OutKept
  <2> QED BY <2>1, <2>2, OutboxPassed
<1>4. bot' = bot
  BY <1>1, <1>3, BotStep
<1> QED BY <1>2, <1>4 DEF Sendable, OutKept

(* An outbox row is sent once.                                            *)
LEMMA SentOnceStep ==
  ASSUME NoticeInv, [NoticeNext]_noticeVars
  PROVE  SentOnce'
<1>0. /\ NoticeTypeOK /\ SentOnce /\ Underway
      /\ NoticeTypeOK' /\ RowsKept /\ OutboxKept
  BY NoticeTypeStep DEF NoticeInv
<1> SUFFICES ASSUME NEW d \in Db, NEW k \in 1 .. MaxOutbox, told'[<<"dm", d, k>>] > 0
    PROVE  /\ told'[<<"dm", d, k>>] = 1 /\ k \in DOMAIN outbox'[d]
           /\ outbox'[d][k].delivered \/ ~Sendable(d, k)'
  BY DEF SentOnce
<1> DEFINE m == <<"dm", d, k>>
<1>1. m \in Messages /\ told \in [Messages -> Nat]
  BY <1>0, MessageKinds DEF NoticeTypeOK
<1>2. DOMAIN outbox[d] \subseteq DOMAIN outbox'[d]
  BY <1>0, DomainsGrow
<1>3. CASE told'[m] = told[m]
  <2>1. told[m] = 1 /\ k \in DOMAIN outbox[d] /\ (outbox[d][k].delivered \/ ~Sendable(d, k))
    BY <1>0, <1>3 DEF SentOnce
  <2>2. outbox'[d][k].delivered \/ ~Sendable(d, k)'
    BY <1>0, <2>1, ReachStep
  <2> QED BY <1>2, <1>3, <2>1, <2>2
<1>4. CASE told'[m] # told[m]
  <2>1. PICK j \in Least(task.todo) :
          /\ task.phase = "outbox" /\ m = <<"dm", task.db, j>> /\ told'[m] = told[m] + 1
          /\ Arrives(Delivered(task.db, j))
    <3>1. m[1] = "dm"
      OBVIOUS
    <3> HIDE DEF m
    <3>2. told'[m] = told[m] + 1 /\ (RowInHand(m) \/ ReviewInHand(m) \/ OutcomeInHand(m) \/ ClosedInHand(m))
      BY <1>0, <1>1, <1>4, MessageCounted
    <3>3. RowInHand(m)
      BY <3>1, <3>2, KindInHand
    <3> QED BY <3>2, <3>3 DEF RowInHand
  <2>2. task.db = d /\ j = k
    BY <2>1
  <2>3. k \in DOMAIN outbox[d] /\ Sendable(d, k) /\ ~outbox[d][k].delivered
    BY <1>0, <2>1, <2>2, InHandThere
  <2>4. told[m] = 0
    BY <1>0, <1>1, <2>3 DEF SentOnce
  <2>5. Delivered(d, k) \/ Halt
    BY <2>1, <2>2 DEF Arrives
  <2>6. CASE Delivered(d, k)
    <3>1. outbox \in [Db -> Seq(OutRows)] /\ outbox' = [outbox EXCEPT ![d][k].delivered = TRUE]
      BY <1>0, <2>6 DEF NoticeTypeOK, OutRows, Delivered
    <3>2. outbox'[d][k].delivered
      BY <2>3, <3>1, OutboxMarked
    <3> QED BY <1>2, <2>1, <2>3, <2>4, <3>2
  <2>7. CASE Halt
    BY <1>2, <2>1, <2>3, <2>4, <2>7 DEF Halt, Off, Sendable
  <2> QED BY <2>5, <2>6, <2>7
<1> QED BY <1>3, <1>4

(* A message about an action is repeated only after a torn one.           *)
LEMMA MarkedOnceStep ==
  ASSUME NoticeInv, [NoticeNext]_noticeVars
  PROVE  MarkedOnce'
<1>0. /\ NoticeTypeOK /\ MarkedOnce /\ Underway
      /\ NoticeTypeOK' /\ RowsKept /\ OutboxKept
  BY NoticeTypeStep DEF NoticeInv
<1> SUFFICES ASSUME NEW what \in {"outcome", "review"}, NEW i \in 1 .. MaxRows, told'[<<what, Home, i>>] > 0
    PROVE  /\ i \in DOMAIN rows'[Home]
           /\ told'[<<what, Home, i>>] <= torn' + (IF rows'[Home][i].notified THEN 1 ELSE 0)
  BY DEF MarkedOnce
<1> DEFINE m == <<what, Home, i>>
<1>1. m \in Messages /\ told \in [Messages -> Nat] /\ told[m] \in Nat /\ torn \in Nat /\ Home \in Db
  BY <1>0, MessageKinds, NotificationsAssumption DEF NoticeTypeOK
<1>2. /\ DOMAIN rows[Home] \subseteq DOMAIN rows'[Home]
      /\ i \in DOMAIN rows[Home] => (rows[Home][i].notified => rows'[Home][i].notified)
  BY <1>0, <1>1, DomainsGrow DEF RowsKept, RowKept
<1>3. CASE told'[m] = told[m] /\ torn' \in {torn, torn + 1}
  <2>1. i \in DOMAIN rows[Home] /\ told[m] <= torn + (IF rows[Home][i].notified THEN 1 ELSE 0)
    BY <1>0, <1>3 DEF MarkedOnce
  <2> QED BY <1>1, <1>2, <1>3, <2>1
<1>4. CASE told'[m] = told[m] + 1 /\ (ReviewInHand(m) \/ OutcomeInHand(m))
  <2>1. task.phase \in {"parked", "outcomes"} /\ i \in Least(task.todo) /\ Arrives(Notified(i))
    <3>1. CASE ReviewInHand(m)
      BY <3>1 DEF ReviewInHand
    <3>2. CASE OutcomeInHand(m)
      BY <3>2 DEF OutcomeInHand
    <3> QED BY <1>4, <3>1, <3>2
  <2>2. i \in DOMAIN rows[Home] /\ ~rows[Home][i].notified
    BY <1>0, <2>1, InHandThere
  <2>3. told[m] <= torn
    BY <1>0, <1>1, <2>2 DEF MarkedOnce
  <2>4. CASE torn' = torn + 1
    BY <1>1, <1>2, <1>4, <2>2, <2>3, <2>4
  <2>5. CASE torn' = torn /\ Notified(i)
    <3>1. rows'[Home][i] = [rows[Home][i] EXCEPT !.notified = TRUE] /\ rows[Home][i] \in Rows
      BY <1>0, <1>1, <2>2, <2>5 DEF NoticeTypeOK, Notified
    <3>2. rows'[Home][i].notified
      BY <3>1 DEF Rows
    <3> QED BY <1>1, <1>2, <1>4, <2>2, <2>3, <2>5, <3>2
  <2> QED BY <2>1, <2>4, <2>5 DEF Arrives
<1>5. m[1] \in {"outcome", "review"}
  OBVIOUS
<1> HIDE DEF m
<1>6. \/ told'[m] = told[m] /\ torn' \in {torn, torn + 1}
      \/ told'[m] = told[m] + 1 /\ (RowInHand(m) \/ ReviewInHand(m) \/ OutcomeInHand(m) \/ ClosedInHand(m))
  BY <1>0, <1>1, MessageCounted
<1>7. ~RowInHand(m) /\ ~ClosedInHand(m)
  BY <1>5, KindInHand
<1> QED BY <1>3, <1>4, <1>6, <1>7 DEF m

(* The cursor moves on.                                                    *)
LEMMA CursorStep ==
  ASSUME NoticeTypeOK, Underway, [NoticeNext]_noticeVars
  PROVE  \/ cursor' = cursor
         \/ StartLegacy /\ cursor \notin Nat /\ cursor' \in Nat
         \/ TellClose /\ cursor \in Nat /\ cursor' \in closer /\ cursor' > cursor
<1>1. \/ cursor' = cursor \/ StartLegacy \/ TellClose
  BY DEF NoticeNext, Dispatcher, Closer, Api, World, noticeVars, TailerPoll, PollParked, PollOutcomes, DeliverOne,
         AskReview, TellOutcome, SentAndStopped, PollCloses, StartTailer, Dispatch, Insert, Alert, Settle, Decide,
         ClosePosition, ApiCrash, EditBindings, Stop
<1>2. CASE StartLegacy /\ cursor' # cursor
  <2>1. Closed \subseteq Nat
    <3>1. book[Home] \in Seq(Positions)
      BY NotificationsAssumption DEF NoticeTypeOK, Positions
    <3> QED BY <3>1 DEF Closed
  <2>2. cursor = None /\ cursor' \in Nat
    BY <1>2, <2>1 DEF StartLegacy
  <2> QED BY <1>2, <2>2, NotificationsAssumption
<1>3. CASE TellClose /\ cursor' # cursor
  <2>1. PICK p \in Least(closer) : cursor' = p
    BY <1>3 DEF TellClose, SentAndStopped
  <2>2. p \in closer /\ bot.mode = "legacy"
    BY <2>1, Batched DEF NoticeTypeOK
  <2> QED BY <1>3, <2>1, <2>2 DEF Underway, NoticeTypeOK
<1> QED BY <1>1, <1>2, <1>3

(* And so is one about a close.                                           *)
LEMMA ClosedOnceStep ==
  ASSUME NoticeInv, [NoticeNext]_noticeVars
  PROVE  ClosedOnce'
<1>0. /\ NoticeTypeOK /\ ClosedOnce /\ Underway
      /\ NoticeTypeOK' /\ RowsKept /\ OutboxKept
  BY NoticeTypeStep DEF NoticeInv
<1> SUFFICES ASSUME NEW p \in 1 .. MaxBook
    PROVE  told'[<<"closed", Home, p>>] <= torn' + (IF cursor' \in Nat /\ p <= cursor' THEN 1 ELSE 0)
  BY DEF ClosedOnce
<1> DEFINE m == <<"closed", Home, p>>
<1>1. m \in Messages /\ told \in [Messages -> Nat] /\ told[m] \in Nat /\ torn \in Nat /\ p \in Nat
  BY <1>0, MessageKinds DEF NoticeTypeOK
<1>2. told[m] <= torn + (IF cursor \in Nat /\ p <= cursor THEN 1 ELSE 0)
  BY <1>0 DEF ClosedOnce
<1>3. cursor \in Nat /\ p <= cursor => cursor' \in Nat /\ p <= cursor'
  <2>1. CASE cursor' = cursor
    BY <2>1
  <2>2. CASE cursor \in Nat /\ cursor' \in closer /\ cursor' > cursor
    <3>1. cursor' \in Nat
      BY <1>0, <2>2 DEF NoticeTypeOK
    <3> QED BY <1>1, <2>2, <3>1
  <2> QED BY <1>0, <2>1, <2>2, CursorStep
<1>4. CASE told'[m] = told[m] /\ torn' \in {torn, torn + 1}
  BY <1>1, <1>2, <1>3, <1>4
<1>5. CASE told'[m] = told[m] + 1 /\ ClosedInHand(m)
  <2>1. p \in Least(closer) /\ Arrives(cursor' = p)
    BY <1>5 DEF ClosedInHand
  <2>2. p \in closer /\ cursor \in Nat /\ cursor < p
    BY <1>0, <2>1, Batched DEF Underway, NoticeTypeOK
  <2>3. told[m] <= torn
    BY <1>1, <1>2, <2>2
  <2> QED BY <1>1, <1>5, <2>1, <2>3 DEF Arrives
<1>6. m[1] = "closed"
  OBVIOUS
<1> HIDE DEF m
<1>7. \/ told'[m] = told[m] /\ torn' \in {torn, torn + 1}
      \/ told'[m] = told[m] + 1 /\ (RowInHand(m) \/ ReviewInHand(m) \/ OutcomeInHand(m) \/ ClosedInHand(m))
  BY <1>0, <1>1, MessageCounted
<1>8. ~RowInHand(m) /\ ~ReviewInHand(m) /\ ~OutcomeInHand(m)
  BY <1>6, KindInHand
<1> QED BY <1>4, <1>5, <1>7, <1>8 DEF m

(* Marks are set by a start and by messages.                               *)
LEMMA DeliveredStep ==
  ASSUME NoticeTypeOK, [NoticeNext]_noticeVars, ~StartTailer, ~DeliverOne,
         NEW d \in Db, NEW k \in DOMAIN outbox[d]
  PROVE  outbox'[d][k].delivered = outbox[d][k].delivered
<1>1. outbox' = outbox \/ \E e \in owed : Dispatch(e)
  BY DEF NoticeNext, Dispatcher, Closer, Api, World, noticeVars, api, TailerPoll, PollParked,
         PollOutcomes, AskReview, TellOutcome, PollCloses, TellClose, SentAndStopped, StartLegacy,
         Insert, Alert, Settle, Decide, ClosePosition, ApiCrash, EditBindings, Stop
<1>2. ASSUME NEW e \in owed, Dispatch(e) PROVE outbox'[d][k] = outbox[d][k]
  BY <1>2, Dispatched
<1> QED BY <1>1, <1>2

(* Marks of actions come the same way.                                    *)
LEMMA NotifiedStep ==
  ASSUME NoticeTypeOK, [NoticeNext]_noticeVars, ~StartLegacy, ~DeliverOne, ~AskReview, ~TellOutcome,
         NEW i \in DOMAIN rows[Home]
  PROVE  rows'[Home][i].notified = rows[Home][i].notified
<1>0. rows \in [Db -> Seq(Rows)] /\ Home \in Db
  BY NotificationsAssumption DEF NoticeTypeOK
<1>1. \/ rows' = rows
      \/ StartTailer
      \/ \E d \in Db : Insert(d) \/ Alert(d) \/ \E j \in DOMAIN rows[d] : Settle(d, j) \/ Decide(d, j)
  BY DEF NoticeNext, Dispatcher, Closer, Api, World, noticeVars, api, TailerPoll, PollParked,
         PollOutcomes, PollCloses, TellClose, SentAndStopped, Dispatch,
         ClosePosition, ApiCrash, EditBindings, Stop
<1>2. ASSUME StartTailer PROVE rows'[Home][i].notified = rows[Home][i].notified
  BY <1>0, <1>2, RowsRecovered DEF StartTailer
<1>3. ASSUME NEW d \in Db, NEW x, rows' = [rows EXCEPT ![d] = Append(@, x)]
      PROVE  rows'[Home][i] = rows[Home][i]
  <2>1. CASE d = Home
    <3>1. rows'[Home] = Append(rows[Home], x) /\ rows[Home] \in Seq(Rows)
      BY <1>0, <1>3, <2>1
    <3> QED BY <3>1
  <2>2. CASE d # Home
    BY <1>0, <1>3, <2>2
  <2> QED BY <2>1, <2>2
<1>4. ASSUME NEW d \in Db, Insert(d) \/ Alert(d) PROVE rows'[Home][i].notified = rows[Home][i].notified
  BY <1>3, <1>4 DEF Insert, Alert
<1>5. ASSUME NEW d \in Db, NEW j \in DOMAIN rows[d], NEW x,
             rows' = [rows EXCEPT ![d] = [rows[d] EXCEPT ![j] = x]], x.notified = rows[d][j].notified
      PROVE  rows'[Home][i].notified = rows[Home][i].notified
  <2>1. CASE d = Home /\ j = i
    <3>1. rows'[Home][i] = x
      BY <1>0, <1>5, <2>1
    <3> QED BY <1>5, <2>1, <3>1
  <2>2. CASE ~(d = Home /\ j = i)
    <3>1. rows'[Home][i] = rows[Home][i]
      BY <1>0, <1>5, <2>2
    <3> QED BY <3>1
  <2> QED BY <2>1, <2>2
<1>6. ASSUME NEW d \in Db, NEW j \in DOMAIN rows[d], Settle(d, j)
      PROVE  rows'[Home][i].notified = rows[Home][i].notified
  <2>1. PICK x \in Answers(rows[d][j]) : rows' = [rows EXCEPT ![d] = [rows[d] EXCEPT ![j] = x]]
    BY <1>6 DEF Settle, Answers
  <2>2. rows[d][j] \in Rows /\ ~Final(rows[d][j])
    BY <1>0, <1>6 DEF Settle, Final
  <2>3. x.notified = rows[d][j].notified
    BY <2>2, AnswerKept
  <2> QED BY <1>5, <2>1, <2>3
<1>7. ASSUME NEW d \in Db, NEW j \in DOMAIN rows[d], Decide(d, j)
      PROVE  rows'[Home][i].notified = rows[Home][i].notified
  <2> DEFINE x(s) == [rows[d][j] EXCEPT !.status = s]
  <2>1. PICK s \in {"terminal", "cancelled", "live"} : rows' = [rows EXCEPT ![d] = [rows[d] EXCEPT ![j] = x(s)]]
    BY <1>7 DEF Decide
  <2>2. rows[d][j] \in Rows
    BY <1>0
  <2>3. x(s).notified = rows[d][j].notified
    BY <2>2 DEF Rows
  <2> HIDE DEF x
  <2> QED BY <1>5, <2>1, <2>3
<1> QED BY <1>1, <1>2, <1>4, <1>6, <1>7

(* How the task goes on.                                                   *)
LEMMA TaskMoves ==
  ASSUME [NoticeNext]_noticeVars
  PROVE  \/ UNCHANGED <<task, bot>> /\ ~DeliverOne /\ ~AskReview /\ ~TellOutcome /\ ~StartTailer /\ ~StartLegacy
         \/ StartTailer \/ StartLegacy \/ Halt \/ TailerPoll \/ PollParked \/ PollOutcomes
         \/ DeliverOne \/ AskReview \/ TellOutcome
<1>1. Stop => Halt
  BY DEF Stop
<1>2. PollCloses => UNCHANGED <<task, bot>>
  BY DEF PollCloses
<1>3. TellClose => UNCHANGED <<task, bot>> \/ Halt
  BY DEF TellClose, Sent, SentAndStopped, Failed
<1> QED BY <1>1, <1>2, <1>3, OutsideTasks, WorldParts DEF NoticeNext, Dispatcher, Closer

(* What a task has in hand stays there, unmarked.                         *)
LEMMA UnderwayStep ==
  ASSUME NoticeInv, [NoticeNext]_noticeVars
  PROVE  Underway'
<1>0. /\ NoticeTypeOK /\ Underway /\ Home \in Db
      /\ NoticeTypeOK' /\ RowsKept /\ OutboxKept
  BY NoticeTypeStep, NotificationsAssumption DEF NoticeInv
<1>1. ASSUME bot'.mode = "tailer" PROVE Home \in bot'.conns
  <2>1. CASE StartTailer
    BY <2>1 DEF StartTailer, Conns
  <2>2. CASE bot' = bot
    BY <1>0, <1>1, <2>2 DEF Underway
  <2> QED BY <1>1, <2>1, <2>2, BotStep DEF Halt, Off, StartLegacy
<1>2. ASSUME bot'.mode = "legacy" PROVE cursor' \in Nat
  <2>1. CASE StartLegacy
    <3>1. Closed \subseteq Nat
      <4>1. book[Home] \in Seq(Positions)
        BY <1>0 DEF NoticeTypeOK, Positions
      <4> QED BY <4>1 DEF Closed
    <3> QED BY <1>0, <2>1, <3>1 DEF StartLegacy, NoticeTypeOK
  <2>2. CASE bot' = bot
    <3>1. cursor \in Nat
      BY <1>0, <1>2, <2>2 DEF Underway
    <3> QED BY <1>0, <3>1, CursorStep DEF NoticeTypeOK
  <2> QED BY <1>2, <2>1, <2>2, BotStep DEF Halt, Off, StartTailer
<1>3. ASSUME StartTailer \/ StartLegacy PROVE task'.phase = "idle" /\ closer' = {}
  <2>1. bot.mode = "off" /\ UNCHANGED <<task, closer>>
    BY <1>3 DEF StartTailer, StartLegacy
  <2> QED BY <1>0, <2>1 DEF NoticeTypeOK, Phases
<1>4. ASSUME task'.phase = "outbox"
      PROVE  /\ task'.db \in bot'.conns
             /\ \A k \in task'.todo : /\ k \in DOMAIN outbox'[task'.db]
                                      /\ Sendable(task.db, k)' /\ ~outbox'[task'.db][k].delivered
  <2>1. CASE UNCHANGED <<task, bot>> /\ ~DeliverOne /\ ~StartTailer
    <3>1. task.db \in bot.conns /\ task.db \in Db
      BY <1>0, <1>4, <2>1 DEF Underway, NoticeTypeOK
    <3>2. ASSUME NEW k \in task.todo
          PROVE  /\ k \in DOMAIN outbox'[task.db]
                 /\ Sendable(task.db, k)' /\ ~outbox'[task.db][k].delivered
      <4>1. k \in DOMAIN outbox[task.db] /\ Sendable(task.db, k) /\ ~outbox[task.db][k].delivered
        BY <1>0, <1>4, <2>1, <3>2 DEF Underway
      <4>2. outbox'[task.db][k].delivered = outbox[task.db][k].delivered
        BY <1>0, <2>1, <3>1, <4>1, DeliveredStep
      <4>3. OutKept(outbox[task.db][k], outbox'[task.db][k]) /\ k \in DOMAIN outbox'[task.db]
        BY <1>0, <3>1, <4>1, DomainsGrow DEF OutboxKept
      <4>4. Sendable(task.db, k)'
        BY <2>1, <4>1, <4>3 DEF Sendable, OutKept
      <4> QED BY <4>1, <4>2, <4>3, <4>4
    <3>3. task' = task /\ bot' = bot
      BY <2>1
    <3> QED BY <3>1, <3>2, <3>3 DEF Sendable
  <2>2. CASE TailerPoll
    <3> DEFINE ready == {d \in bot.conns : Queue(d) # {}}
               left  == IF task.left \cap ready = {} THEN ready ELSE task.left \cap ready
    <3>1. PICK d \in left : task' = [phase |-> "outbox", db |-> d, left |-> left \ {d}, todo |-> Queue(d)]
      BY <2>2 DEF TailerPoll
    <3>2. d \in bot.conns
      OBVIOUS
    <3> HIDE DEF left
    <3>3. task'.db = d /\ task'.todo = Queue(d) /\ UNCHANGED <<bot, outbox>> /\ bot.mode = "tailer"
      BY <2>2, <3>1 DEF TailerPoll, api
    <3>4. \A k \in Queue(d) : k \in DOMAIN outbox[d] /\ outbox[d][k].bot = bot.id /\ ~outbox[d][k].delivered
      BY Batched DEF Queue
    <3>5. ASSUME NEW k \in task'.todo
          PROVE  /\ k \in DOMAIN outbox'[task'.db]
                 /\ Sendable(task.db, k)' /\ ~outbox'[task'.db][k].delivered
      BY <3>2, <3>3, <3>4, <3>5 DEF Sendable
    <3> QED BY <3>2, <3>3, <3>5
  <2>3. CASE DeliverOne /\ ~Halt
    <3>1. PICK k \in Least(task.todo) :
            task' = Served(k) /\ bot' = bot /\ (outbox' = outbox \/ Delivered(task.db, k))
      BY <2>3 DEF DeliverOne, Sent, SentAndStopped, NotSent, Failed, api
    <3>2. task.phase = "outbox" /\ task.db \in Db /\ task.db \in bot.conns
      BY <1>0, <2>3 DEF DeliverOne, Underway, NoticeTypeOK
    <3>3. k \in DOMAIN outbox[task.db]
      BY <1>0, <3>2, InHandThere
    <3>4. task'.db = task.db /\ task'.todo = task.todo \ {k}
      BY <1>0, <1>4, <3>1, <3>2 DEF Served, NoticeTypeOK
    <3>5. ASSUME NEW j \in task.todo \ {k}
          PROVE  j \in DOMAIN outbox'[task.db] /\ outbox'[task.db][j] = outbox[task.db][j]
      <4>1. j \in DOMAIN outbox[task.db]
        BY <1>0, <3>2, <3>5 DEF Underway
      <4>2. outbox \in [Db -> Seq(OutRows)]
        BY <1>0 DEF NoticeTypeOK, OutRows
      <4>3. CASE outbox' = [outbox EXCEPT ![task.db][k].delivered = TRUE]
        BY <3>2, <3>3, <3>5, <4>1, <4>2, <4>3, OutboxMarked
      <4> QED BY <3>1, <4>1, <4>3 DEF Delivered
    <3>6. ASSUME NEW j \in task'.todo
          PROVE  /\ j \in DOMAIN outbox'[task'.db]
                 /\ Sendable(task.db, j)' /\ ~outbox'[task'.db][j].delivered
      <4>1. j \in task.todo \ {k}
        BY <3>4, <3>6
      <4>2. Sendable(task.db, j) /\ ~outbox[task.db][j].delivered
        BY <1>0, <3>2, <4>1 DEF Underway
      <4> QED BY <3>1, <3>4, <3>5, <4>1, <4>2 DEF Sendable
    <3> QED BY <3>1, <3>2, <3>4, <3>6
  <2>4. CASE PollParked \/ PollOutcomes \/ AskReview \/ TellOutcome \/ Halt
    <3>1. CASE Halt
      BY <1>4, <3>1 DEF Halt, Idle, Round
    <3>2. CASE PollParked \/ PollOutcomes
      BY <1>4, <3>2 DEF PollParked, PollOutcomes, Idle, Round
    <3>3. CASE AskReview /\ ~Halt
      <4>1. \E i \in Least(task.todo) : task' = Asked(i)
        BY <3>3 DEF AskReview, SentAndStopped
      <4> QED BY <1>0, <1>4, <3>3, <4>1 DEF AskReview, Asked, Round, NoticeTypeOK
    <3>4. CASE TellOutcome /\ ~Halt
      <4>1. task' = Idle \/ \E i \in Least(task.todo) : task' = Served(i)
        BY <3>4 DEF TellOutcome, SentAndStopped
      <4>2. task.phase = "outcomes" /\ task \in [phase : Phases, db : Db, todo : SUBSET Nat, left : SUBSET Db]
        BY <1>0, <3>4 DEF TellOutcome, NoticeTypeOK
      <4>3. \A i : Served(i).phase \in {"idle", "outcomes"}
        BY <4>2 DEF Served
      <4> QED BY <1>4, <4>1, <4>3 DEF Idle, Round
    <3> QED BY <2>4, <3>1, <3>2, <3>3, <3>4
  <2>5. ~StartTailer /\ ~StartLegacy
    BY <1>3, <1>4
  <2> QED BY <2>1, <2>2, <2>3, <2>4, <2>5, TaskMoves
<1>5. ASSUME task'.phase \in {"parked", "outcomes"}, NEW i \in task'.todo
      PROVE  i \in DOMAIN rows'[Home] /\ ~rows'[Home][i].notified
  <2>1. CASE UNCHANGED task /\ ~DeliverOne /\ ~AskReview /\ ~TellOutcome /\ ~StartLegacy
    <3>1. i \in DOMAIN rows[Home] /\ ~rows[Home][i].notified
      BY <1>0, <1>5, <2>1 DEF Underway
    <3>2. rows'[Home][i].notified = rows[Home][i].notified
      BY <1>0, <2>1, <3>1, NotifiedStep
    <3> QED BY <1>0, <3>1, <3>2, DomainsGrow
  <2>2. CASE PollParked \/ PollOutcomes
    <3>1. \A j \in Parked \cup Outcomes : j \in DOMAIN rows[Home] /\ ~rows[Home][j].notified
      BY Batched DEF Parked, Outcomes, Untold
    <3>2. rows' = rows /\ task' \in {Idle, Round("parked", Parked), Round("outcomes", Outcomes)}
      BY <2>2 DEF PollParked, PollOutcomes, api
    <3> QED BY <1>5, <3>1, <3>2 DEF Idle, Round
  <2>3. CASE (AskReview \/ TellOutcome) /\ ~Halt
    <3>1. PICK j \in Least(task.todo) :
            /\ task' \in {Asked(j), Served(j), Idle}
            /\ rows' = rows \/ Notified(j)
      BY <2>3 DEF AskReview, TellOutcome, SentAndStopped, api
    <3>2. task.phase \in {"parked", "outcomes"}
      BY <2>3 DEF AskReview, TellOutcome
    <3>3. i \in task.todo \ {j}
      <4>1. task \in [phase : Phases, db : Db, todo : SUBSET Nat, left : SUBSET Db]
        BY <1>0 DEF NoticeTypeOK
      <4>2. Asked(j).todo \subseteq task.todo \ {j} /\ Served(j).todo \subseteq task.todo \ {j} /\ Idle.todo = {}
        BY <4>1 DEF Asked, Served, Idle, Round
      <4> QED BY <1>5, <3>1, <4>2
    <3>4. i \in DOMAIN rows[Home] /\ ~rows[Home][i].notified
      BY <1>0, <3>2, <3>3 DEF Underway
    <3>5. CASE rows' = [rows EXCEPT ![Home][j].notified = TRUE]
      <4>1. i \in DOMAIN rows'[Home] /\ rows'[Home][i] = rows[Home][i]
        BY <1>0, <3>3, <3>4, <3>5, MarkRow DEF NoticeTypeOK
      <4> QED BY <3>4, <4>1
    <3> QED BY <3>1, <3>4, <3>5 DEF Notified
  <2>4. ~Halt /\ ~StartLegacy /\ ~StartTailer
    BY <1>3, <1>5 DEF Halt, Idle, Round
  <2>5. ~TailerPoll
    BY <1>5 DEF TailerPoll
  <2>6. ~DeliverOne
    <3>1. ASSUME DeliverOne PROVE FALSE
      <4>1. PICK k \in Least(task.todo) : task' = Served(k)
        BY <2>4, <3>1 DEF DeliverOne, SentAndStopped
      <4> QED BY <1>0, <1>5, <3>1, <4>1 DEF DeliverOne, Served, NoticeTypeOK
    <3> QED BY <3>1
  <2> QED BY <2>1, <2>2, <2>3, <2>4, <2>5, <2>6, TaskMoves
<1>6. ASSUME NEW p \in closer' PROVE cursor' < p
  <2>1. CASE TellClose
    <3>1. PICK q \in Least(closer) : Halt \/ closer' = {} \/ (cursor' = q /\ closer' = closer \ {q})
      BY <2>1 DEF TellClose, SentAndStopped
    <3>2. cursor' = q /\ p \in closer /\ p # q
      BY <1>6, <3>1 DEF Halt
    <3>3. q <= p /\ q \in Nat /\ p \in Nat
      BY <1>0, <3>1, <3>2 DEF Least, NoticeTypeOK
    <3> QED BY <3>2, <3>3
  <2>2. CASE PollCloses
    <3>1. closer' \subseteq Unreported /\ cursor' = cursor /\ closer' # {}
      BY <1>6, <2>2, Batched DEF PollCloses
    <3>2. p \in Nat /\ p > cursor
      BY <1>0, <1>6, <3>1 DEF Unreported, NoticeTypeOK
    <3>3. cursor \in Nat
      BY <1>0, <2>2 DEF PollCloses, Underway
    <3> QED BY <3>1, <3>2, <3>3
  <2>3. CASE ~TellClose /\ ~PollCloses
    <3>1. ~StartLegacy /\ ~StartTailer /\ ~Halt
      BY <1>3, <1>6 DEF Halt
    <3>2. closer' = closer
      BY <2>3, <3>1 DEF NoticeNext, Dispatcher, Closer, Api, World, noticeVars, process, TailerPoll, PollParked,
         PollOutcomes, DeliverOne, AskReview, TellOutcome, SentAndStopped, Dispatch, Insert, Alert, Settle, Decide,
         ClosePosition, ApiCrash, EditBindings, Stop
    <3>3. cursor' = cursor
      BY <1>0, <2>3, <3>1, CursorStep
    <3> QED BY <1>0, <1>6, <3>2, <3>3 DEF Underway
  <2> QED BY <2>1, <2>2, <2>3
<1>7. (bot'.mode = "tailer" => Home \in bot'.conns) /\ (bot'.mode = "legacy" => cursor' \in Nat)
  BY <1>1, <1>2
<1>8. task'.phase \in {"parked", "outcomes"} =>
        \A i \in task'.todo : i \in DOMAIN rows'[Home] /\ ~rows'[Home][i].notified
  BY <1>5
<1>9. \A p \in closer' : cursor' < p
  BY <1>6
<1> QED BY <1>4, <1>7, <1>8, <1>9 DEF Underway

(* While no binding changes, the way of telling stays.                    *)
LEMMA OneWayStep ==
  ASSUME NoticeInv, [NoticeNext]_noticeVars
  PROVE  OneWay'
<1>0. NoticeTypeOK /\ Underway /\ OneWay
  BY DEF NoticeInv
<1> SUFFICES ASSUME edits' = 0
    PROVE  /\ bot'.mode = "tailer" => ResolveBot(Home)' # None
           /\ bot'.mode = "legacy" => ResolveBot(Home)' = None
           /\ \A k \in 1 .. MaxOutbox : told'[<<"dm", Home, k>>] > 0 => ResolveBot(Home)' # None
           /\ \A i \in 1 .. MaxRows : told'[<<"outcome", Home, i>>] > 0 => ResolveBot(Home)' = None
  BY DEF OneWay
<1>1. edits = 0 /\ bindings' = bindings
  <2>1. ~EditBindings
    BY <1>0 DEF EditBindings, NoticeTypeOK
  <2> QED BY <2>1 DEF NoticeNext, Dispatcher, Closer, Api, World, noticeVars, TailerPoll, PollParked,
         PollOutcomes, DeliverOne, AskReview, TellOutcome, SentAndStopped, Dispatch, Insert, Alert, Settle, Decide,
         ClosePosition, ApiCrash, Stop, StartTailer, StartLegacy, PollCloses, TellClose
<1>2. ResolveBot(Home)' = ResolveBot(Home)
  BY <1>1 DEF ResolveBot, Reaches
<1>3. bot'.mode = "tailer" => ResolveBot(Home) # None
  BY <1>0, <1>1, BotStep DEF OneWay, StartTailer, StartLegacy, Halt, Off
<1>4. bot'.mode = "legacy" => ResolveBot(Home) = None
  BY <1>0, <1>1, BotStep DEF OneWay, StartTailer, StartLegacy, Halt, Off
<1>5. ASSUME NEW k \in 1 .. MaxOutbox, told'[<<"dm", Home, k>>] > 0 PROVE ResolveBot(Home) # None
  <2> DEFINE m == <<"dm", Home, k>>
  <2>1. m \in Messages /\ m[1] = "dm"
    BY MessageKinds, NotificationsAssumption
  <2>2. CASE told'[m] = told[m]
    BY <1>0, <1>1, <1>5, <2>2 DEF OneWay
  <2>3. CASE told'[m] # told[m]
    <3> HIDE DEF m
    <3>1. RowInHand(m) \/ ReviewInHand(m) \/ OutcomeInHand(m) \/ ClosedInHand(m)
      BY <1>0, <2>1, <2>3, MessageCounted
    <3>2. task.phase = "outbox"
      BY <2>1, <3>1, KindInHand DEF RowInHand
    <3> QED BY <1>0, <1>1, <3>2 DEF NoticeTypeOK, OneWay
  <2> QED BY <2>2, <2>3
<1>6. ASSUME NEW i \in 1 .. MaxRows, told'[<<"outcome", Home, i>>] > 0 PROVE ResolveBot(Home) = None
  <2> DEFINE m == <<"outcome", Home, i>>
  <2>1. m \in Messages /\ m[1] = "outcome"
    BY MessageKinds
  <2>2. CASE told'[m] = told[m]
    BY <1>0, <1>1, <1>6, <2>2 DEF OneWay
  <2>3. CASE told'[m] # told[m]
    <3> HIDE DEF m
    <3>1. RowInHand(m) \/ ReviewInHand(m) \/ OutcomeInHand(m) \/ ClosedInHand(m)
      BY <1>0, <2>1, <2>3, MessageCounted
    <3>2. task.phase = "outcomes"
      BY <2>1, <3>1, KindInHand DEF OutcomeInHand
    <3> QED BY <1>0, <1>1, <3>2 DEF NoticeTypeOK, OneWay
  <2> QED BY <2>2, <2>3
<1> QED BY <1>2, <1>3, <1>4, <1>5, <1>6

(* What is counted for an action are rows of the outbox.                   *)
FinitelyCounted ==
  \A i : /\ Counted(i) \subseteq DOMAIN outbox[Home]
         /\ IsFiniteSet(Counted(i)) /\ Cardinality(Counted(i)) \in Nat

(* They are finitely many.                                                *)
LEMMA CountedFinite == NoticeTypeOK => FinitelyCounted
<1> SUFFICES ASSUME NoticeTypeOK, NEW i
    PROVE  /\ Counted(i) \subseteq DOMAIN outbox[Home]
           /\ IsFiniteSet(Counted(i)) /\ Cardinality(Counted(i)) \in Nat
  BY DEF FinitelyCounted
<1>1. outbox[Home] \in Seq(OutRows)
  BY NotificationsAssumption DEF NoticeTypeOK, OutRows
<1>2. Counted(i) \subseteq 1 .. Len(outbox[Home]) /\ DOMAIN outbox[Home] = 1 .. Len(outbox[Home])
  BY <1>1 DEF Counted, Announced, Coming, About
<1>3. IsFiniteSet(1 .. Len(outbox[Home]))
  BY <1>1, FS_Interval
<1>4. IsFiniteSet(Counted(i))
  BY <1>2, <1>3, FS_Subset
<1> QED BY <1>2, <1>4, FS_CardinalityType

(* A row that is there is sent only when the tailer has it before it.      *)
LEMMA CountedOld ==
  ASSUME NoticeInv, [NoticeNext]_noticeVars, NEW i, NEW k \in DOMAIN outbox[Home], k \in Counted(i)'
  PROVE  k \in Counted(i)
<1>0. /\ NoticeTypeOK /\ Underway /\ Linked /\ OutboxKept /\ Home \in Db
      /\ outbox[Home] \in Seq(OutRows)
  BY NoticeTypeStep, NotificationsAssumption DEF NoticeInv, NoticeTypeOK, OutRows
<1>1. k \in 1 .. MaxOutbox
  BY <1>0, NotificationsAssumption DEF Linked
<1>2. k \in About(i)
  <2>1. OutKept(outbox[Home][k], outbox'[Home][k])
    BY <1>0 DEF OutboxKept
  <2>2. outbox'[Home][k].action = i /\ outbox'[Home][k].event # "position_closed"
    BY DEF Counted, Announced, Coming, About
  <2> QED BY <2>1, <2>2 DEF OutKept, About
<1> DEFINE m == <<"dm", Home, k>>
<1>3. CASE told'[m] > 0
  <2>1. m \in Messages /\ m[1] = "dm"
    BY <1>0, <1>1, MessageKinds
  <2>2. CASE told'[m] = told[m]
    BY <1>2, <1>3, <2>2 DEF Counted, Announced
  <2>3. CASE told'[m] # told[m]
    <3> HIDE DEF m
    <3>1. RowInHand(m) \/ ReviewInHand(m) \/ OutcomeInHand(m) \/ ClosedInHand(m)
      BY <1>0, <2>1, <2>3, MessageCounted
    <3>2. RowInHand(m)
      BY <2>1, <3>1, KindInHand
    <3>3. task.phase = "outbox" /\ \E j \in Least(task.todo) : m = <<"dm", task.db, j>>
      BY <3>2 DEF RowInHand
    <3>4. task.phase = "outbox" /\ task.db = Home /\ k \in Least(task.todo)
      BY <3>3 DEF m
    <3>5. Sendable(Home, k) /\ ~outbox[Home][k].delivered
      BY <1>0, <3>4, InHandThere
    <3> QED BY <1>2, <3>5 DEF Counted, Coming
  <2> QED BY <2>2, <2>3
<1>4. CASE ~(told'[m] > 0)
  <2>1. Sendable(Home, k)' /\ ~outbox'[Home][k].delivered
    BY <1>4 DEF Counted, Announced, Coming
  <2>2. Sendable(Home, k) /\ ~outbox[Home][k].delivered
    BY <1>0, <2>1, ReachStep
  <2> QED BY <1>2, <2>2 DEF Counted, Coming
<1> QED BY <1>3, <1>4

(* One event is owed about an action.                                      *)
LEMMA OwedOnce ==
  ASSUME NoticeTypeOK, Linked, NEW e \in owed, NEW f \in owed,
         e.db = f.db, e.action = f.action, e.event # "position_closed", f.event # "position_closed"
  PROVE  e = f
<1>1. e \in Announcements /\ f \in Announcements
  BY DEF NoticeTypeOK
<1>2. /\ e.position = 0 /\ f.position = 0
      /\ e.event = "alert" <=> f.event = "alert"
  BY DEF Linked, Sourced
<1>3. e.event = f.event
  BY <1>1, <1>2 DEF Announcements, Events
<1> QED BY <1>1, <1>2, <1>3 DEF Announcements

(* Among the rows a dispatch adds one at most is the running bot's.        *)
LEMMA TakenOnce ==
  ASSUME NoticeInv, BoundOnce, NEW e \in owed, Dispatch(e), e.event # "position_closed",
         NEW j \in DOMAIN outbox'[e.db], j \notin DOMAIN outbox[e.db],
         NEW k \in DOMAIN outbox'[e.db], k \notin DOMAIN outbox[e.db],
         outbox'[e.db][j].bot = outbox'[e.db][k].bot
  PROVE  j = k
<1> DEFINE L == Len(outbox[e.db])
           C == Cardinality(TakenBy(e))
<1>0. /\ NoticeTypeOK /\ Linked /\ e \in Announcements /\ e.db \in Db
      /\ outbox[e.db] \in Seq(OutRows) /\ outbox'[e.db] \in Seq(OutRows)
  <2>1. NoticeTypeOK /\ Linked /\ e.db \in Db /\ e \in Announcements
    BY DEF NoticeInv, NoticeTypeOK, Announcements
  <2> QED BY <2>1, Dispatched DEF NoticeTypeOK, OutRows, OutboxTyped
<1>1. PICK turn \in InOrder(TakenBy(e)) : \A n \in DOMAIN outbox'[e.db] :
        n > Len(outbox[e.db]) => outbox'[e.db][n] = OutRow(e, turn[n - Len(outbox[e.db])])
  BY <1>0, Dispatched
<1>2. bindings \in Configs /\ C \in Nat /\ TakenBy(e) \subseteq DOMAIN bindings
  <2>1. bindings \in Configs
    BY <1>0 DEF NoticeTypeOK
  <2> QED BY <2>1, ListenersFinite DEF TakenBy
<1>3. Len(outbox'[e.db]) = L + C
  BY <1>0, Dispatched
<1>4. /\ turn \in [1 .. C -> TakenBy(e)]
      /\ \A m, n \in 1 .. C : m < n => turn[m] < turn[n]
  BY <1>1 DEF InOrder
<1>5. /\ j > L /\ k > L /\ j \in Nat /\ k \in Nat /\ L \in Nat
      /\ j - L \in 1 .. C /\ k - L \in 1 .. C
  <2>1. L \in Nat /\ DOMAIN outbox[e.db] = 1 .. L /\ DOMAIN outbox'[e.db] = 1 .. L + C
    <3>1. DOMAIN outbox'[e.db] = 1 .. Len(outbox'[e.db])
      BY <1>0
    <3>2. L \in Nat /\ DOMAIN outbox[e.db] = 1 .. L
      BY <1>0
    <3> QED BY <1>3, <3>1, <3>2
  <2> HIDE DEF L, C
  <2> QED BY <1>2, <2>1
<1> DEFINE m == turn[j - L]
           n == turn[k - L]
<1>6. m \in TakenBy(e) /\ n \in TakenBy(e)
  BY <1>4, <1>5
<1>7. bindings[m].bot = bindings[n].bot
  <2>1. outbox'[e.db][j] = OutRow(e, m) /\ outbox'[e.db][k] = OutRow(e, n)
    BY <1>1, <1>5
  <2> HIDE DEF m, n
  <2> QED BY <2>1 DEF OutRow
<1>8. m = n
  <2> DEFINE channel == IF e.event = "alert" \/ e.action = 0 THEN None ELSE rows[e.db][e.action].channel
  <2>1. channel \in Channels
    <3>1. e.action \in DOMAIN rows[e.db] /\ rows[e.db] \in Seq(Rows)
      BY <1>0 DEF Linked, Sourced, NoticeTypeOK
    <3>2. rows[e.db][e.action] \in Rows
      BY <3>1
    <3> QED BY <3>2 DEF Rows, Channels
  <2>2. \A x \in TakenBy(e) : x \in DOMAIN bindings /\ Matches(bindings[x], e.db, channel)
    BY DEF TakenBy, Listeners
  <2> HIDE DEF m, n, channel
  <2> QED BY <1>0, <1>2, <1>6, <1>7, <2>1, <2>2 DEF BoundOnce
<1>9. turn[j - L] = turn[k - L]
  BY <1>8
<1>10. ~(j - L < k - L) /\ ~(k - L < j - L)
  <2>1. turn[j - L] \in Nat
    <3>1. DOMAIN bindings \subseteq Nat
      <4>1. bindings \in Seq(Bindings)
        BY <1>2, NotificationsAssumption
      <4> QED BY <4>1
    <3> QED BY <1>2, <1>6, <3>1
  <2> HIDE DEF L, C, m, n
  <2> QED BY <1>4, <1>5, <1>9, <2>1
<1> HIDE DEF L
<1> QED BY <1>5, <1>10

(* A dispatch pays for the row it adds with the event it takes.           *)
LEMMA DispatchEarned ==
  ASSUME NoticeInv, Earned, BoundOnce, NEW e \in owed, Dispatch(e), NEW i \in DOMAIN rows[Home]
  PROVE  Cardinality(Counted(i)') + (IF Due(i)' THEN 1 ELSE 0) <= Reckoned(rows[Home][i])
<1>0. /\ NoticeTypeOK /\ Linked /\ Underway /\ SentOnce /\ Earned /\ Home \in Db
      /\ [NoticeNext]_noticeVars /\ NoticeTypeOK'
      /\ UNCHANGED <<bot, told, rows>> /\ owed' = owed \ {e}
  <2>1. NoticeTypeOK /\ Linked /\ Underway /\ SentOnce /\ Earned /\ Home \in Db
    BY NotificationsAssumption DEF NoticeInv
  <2>2. [NoticeNext]_noticeVars /\ UNCHANGED <<bot, told, rows>> /\ owed' = owed \ {e}
    BY DEF NoticeNext, Api, Dispatch, process
  <2> QED BY <2>1, <2>2, NoticeTypeStep
<1>1. /\ outbox[Home] \in Seq(OutRows) /\ outbox'[Home] \in Seq(OutRows)
  BY <1>0 DEF NoticeTypeOK, OutRows
<1>2. /\ IsFiniteSet(Counted(i)) /\ Cardinality(Counted(i)) \in Nat
      /\ Counted(i)' \subseteq DOMAIN outbox'[Home]
      /\ IsFiniteSet(Counted(i)') /\ Cardinality(Counted(i)') \in Nat
  <2>1. Counted(i)' \subseteq DOMAIN outbox'[Home] /\ IsFiniteSet(Counted(i)') /\ Cardinality(Counted(i)') \in Nat
    <3>1. FinitelyCounted'
      BY <1>0, CountedFinite, PTL
    <3> QED BY <3>1 DEF FinitelyCounted
  <2> QED BY <1>0, <2>1, CountedFinite DEF FinitelyCounted
<1>3. Cardinality(Counted(i)) + (IF Due(i) THEN 1 ELSE 0) <= Reckoned(rows[Home][i])
  BY <1>0 DEF Earned
<1>8. Reckoned(rows[Home][i]) \in Nat
  <2>1. rows[Home] \in Seq(Rows)
    BY <1>0 DEF NoticeTypeOK
  <2>2. rows[Home][i] \in Rows
    BY <2>1
  <2> QED BY <2>2 DEF Reckoned, Results, Rows
<1> DEFINE about == e.db = Home /\ e.event # "position_closed" /\ e.action = i
<1>4. ASSUME NEW k \in Counted(i)', k \notin DOMAIN outbox[Home]
      PROVE  about /\ outbox'[Home][k].bot = bot.id
  <2>1. k \in DOMAIN outbox'[Home] /\ k \in About(i)'
    BY <1>2, <1>4 DEF Counted, Announced, Coming
  <2>2. Home = e.db
    <3>1. CASE Home # e.db
      BY <1>0, <1>4, <2>1, <3>1, Dispatched
    <3> QED BY <3>1
  <2>3. outbox'[Home][k].event = e.event /\ outbox'[Home][k].action = e.action
    <3>1. PICK turn \in InOrder(TakenBy(e)) : \A n \in DOMAIN outbox'[e.db] :
            n > Len(outbox[e.db]) => outbox'[e.db][n] = OutRow(e, turn[n - Len(outbox[e.db])])
      BY <1>0, Dispatched
    <3> DEFINE n == turn[k - Len(outbox[Home])]
    <3>2. k > Len(outbox[Home])
      BY <1>1, <1>4, <2>1
    <3>3. outbox'[Home][k] = OutRow(e, n)
      BY <2>1, <2>2, <3>1, <3>2
    <3> HIDE DEF n
    <3> QED BY <3>3 DEF OutRow
  <2>4. ~(told'[<<"dm", Home, k>>] > 0)
    <3>1. k \in 1 .. MaxOutbox
      <4>1. Linked'
        BY <1>0, LinkedStep
      <4>2. Len(outbox'[Home]) <= MaxOutbox
        BY <1>0, <4>1 DEF Linked
      <4> QED BY <1>1, <2>1, <4>2, BoundsNat, WithinBound
    <3> QED BY <1>0, <1>4, <3>1 DEF SentOnce
  <2>5. Sendable(Home, k)'
    BY <1>4, <2>4 DEF Counted, Announced, Coming
  <2>6. outbox'[Home][k].bot = bot.id
    BY <1>0, <2>5 DEF Sendable
  <2> QED BY <2>1, <2>2, <2>3, <2>6 DEF About
<1>5. ASSUME NEW k \in Counted(i)', k \in DOMAIN outbox[Home] PROVE k \in Counted(i)
  BY <1>0, <1>5, CountedOld
<1>6. CASE about
  <2>1. Due(i)
    BY <1>6 DEF Due
  <2>2. ~Due(i)'
    <3>1. ASSUME NEW f \in owed', f.db = Home, f.event # "position_closed", f.action = i PROVE FALSE
      BY <1>0, <1>6, <3>1, OwedOnce
    <3> QED BY <3>1 DEF Due
  <2>3. \E x : Counted(i)' \subseteq Counted(i) \cup {x}
    <3>1. CASE \E x \in Counted(i)' : x \notin DOMAIN outbox[Home]
      <4>1. PICK x \in Counted(i)' : x \notin DOMAIN outbox[Home]
        BY <3>1
      <4>2. ASSUME NEW k \in Counted(i)', k \notin DOMAIN outbox[Home] PROVE k = x
        <5>1. outbox'[Home][k].bot = outbox'[Home][x].bot
          BY <1>4, <4>1, <4>2
        <5> QED BY <1>2, <1>6, <4>1, <4>2, <5>1, TakenOnce
      <4> QED BY <1>5, <4>2
    <3>2. CASE ~\E x \in Counted(i)' : x \notin DOMAIN outbox[Home]
      BY <1>5, <3>2
    <3> QED BY <3>1, <3>2
  <2>4. Cardinality(Counted(i)') <= Cardinality(Counted(i)) + 1
    <3>1. PICK x : Counted(i)' \subseteq Counted(i) \cup {x}
      BY <2>3
    <3> DEFINE A == Counted(i)
               B == Counted(i)'
    <3>2. IsFiniteSet(A) /\ Cardinality(A) \in Nat /\ B \subseteq A \cup {x}
      BY <1>2, <3>1
    <3> HIDE DEF A, B
    <3>3. /\ IsFiniteSet(A \cup {x})
          /\ Cardinality(A \cup {x}) = IF x \in A THEN Cardinality(A) ELSE Cardinality(A) + 1
      BY <3>2, FS_AddElement
    <3>4. Cardinality(B) <= Cardinality(A \cup {x})
      BY <3>2, <3>3, FS_Subset
    <3>5. Cardinality(B) \in Nat
      BY <1>2 DEF B
    <3>6. Cardinality(B) <= Cardinality(A) + 1
      BY <3>2, <3>3, <3>4, <3>5
    <3> QED BY <3>6 DEF A, B
  <2>5. Cardinality(Counted(i)) + 1 <= Reckoned(rows[Home][i])
    BY <1>3, <2>1
  <2>6. Reckoned(rows[Home][i]) \in Nat
    BY <1>8
  <2> QED BY <1>2, <2>2, <2>4, <2>5, <2>6
<1>7. CASE ~about
  <2>1. Counted(i)' \subseteq Counted(i)
    BY <1>4, <1>5, <1>7
  <2>2. Due(i)' => Due(i)
    BY <1>0 DEF Due
  <2>3. Cardinality(Counted(i)') <= Cardinality(Counted(i))
    BY <1>2, <2>1, FS_Subset
  <2>4. Reckoned(rows[Home][i]) \in Nat
    BY <1>8
  <2> QED BY <1>2, <1>3, <2>2, <2>3, <2>4
<1> QED BY <1>6, <1>7

(* Any other step counts no more, and a result that falls due is one more. *)
LEMMA ReportedStep ==
  ASSUME NoticeInv, [NoticeNext]_noticeVars, NEW i \in DOMAIN rows[Home]
  PROVE  /\ Reckoned(rows[Home][i]) \in Nat /\ Reckoned(rows'[Home][i]) \in Nat
         /\ Reckoned(rows[Home][i]) <= Reckoned(rows'[Home][i])
         /\ Settle(Home, i) => Reckoned(rows[Home][i]) + 1 <= Reckoned(rows'[Home][i])
<1> DEFINE r == rows[Home][i]
           s == rows'[Home][i]
<1>0. NoticeTypeOK /\ NoticeTypeOK' /\ RowsKept /\ OutboxKept /\ Home \in Db
  BY NoticeTypeStep, NotificationsAssumption DEF NoticeInv
<1>1. r \in Rows /\ s \in Rows
  <2>1. rows[Home] \in Seq(Rows) /\ rows'[Home] \in Seq(Rows)
    BY <1>0 DEF NoticeTypeOK
  <2>2. i \in DOMAIN rows'[Home]
    BY <1>0, DomainsGrow
  <2> QED BY <2>1, <2>2
<1>2. RowKept(r, s)
  BY <1>0 DEF RowsKept
<1>3. Settle(Home, i) => ~Final(r) /\ s.reports = r.reports + 1
  <2> SUFFICES ASSUME Settle(Home, i) PROVE ~Final(r) /\ s.reports = r.reports + 1
    OBVIOUS
  <2>1. ~Final(r)
    BY DEF Settle, Final
  <2>2. PICK x \in Answers(rows[Home][i]) : rows' = [rows EXCEPT ![Home] = [rows[Home] EXCEPT ![i] = x]]
    BY DEF Settle, Answers
  <2>3. x.reports = r.reports + 1
    BY <1>1, <2>1, AnswerKept
  <2>4. s = x
    BY <1>0, <2>2 DEF NoticeTypeOK
  <2> QED BY <2>1, <2>3, <2>4
<1> HIDE DEF r, s
<1>4. r.reports \in Nat /\ s.reports \in Nat
  BY <1>1 DEF Rows
<1>5. /\ Reckoned(r) \in Nat /\ Reckoned(s) \in Nat
      /\ Reckoned(r) <= Reckoned(s)
      /\ Settle(Home, i) => Reckoned(r) + 1 <= Reckoned(s)
  BY <1>2, <1>3, <1>4 DEF RowKept, Reckoned, Results
<1> QED BY <1>5 DEF r, s

(* No step announces what was not earned.                                 *)
LEMMA EarnedStep ==
  ASSUME NoticeInv, Earned, BoundOnce, [NoticeNext]_noticeVars
  PROVE  Earned'
<1>0. /\ NoticeTypeOK /\ NoticeTypeOK' /\ RowsKept /\ OutboxKept
      /\ Linked /\ Linked' /\ Underway /\ Earned /\ Home \in Db
  BY NoticeTypeStep, LinkedStep, NotificationsAssumption DEF NoticeInv
<1>1. \A i : /\ IsFiniteSet(Counted(i)) /\ Cardinality(Counted(i)) \in Nat
             /\ Counted(i) \subseteq DOMAIN outbox[Home]
  BY <1>0, CountedFinite DEF FinitelyCounted
<1>2. \A i : /\ IsFiniteSet(Counted(i)') /\ Cardinality(Counted(i)') \in Nat
             /\ Counted(i)' \subseteq DOMAIN outbox'[Home]
  <2>1. FinitelyCounted'
    BY <1>0, CountedFinite, PTL
  <2> QED BY <2>1 DEF FinitelyCounted
<1> SUFFICES ASSUME NEW i \in DOMAIN rows'[Home]
    PROVE  Cardinality(Counted(i)') + (IF Due(i)' THEN 1 ELSE 0) <= Reckoned(rows'[Home][i])
  BY DEF Earned, Reckoned, Final, Results
<1>3. ASSUME NEW e \in owed, Dispatch(e)
      PROVE  Cardinality(Counted(i)') + (IF Due(i)' THEN 1 ELSE 0) <= Reckoned(rows'[Home][i])
  <2>1. rows' = rows
    BY <1>3 DEF Dispatch
  <2> QED BY <1>3, <2>1, DispatchEarned
<1>4. ASSUME ~\E e \in owed : Dispatch(e)
      PROVE  Counted(i)' \subseteq Counted(i)
  <2> SUFFICES ASSUME NEW k \in Counted(i)' PROVE k \in Counted(i)
    OBVIOUS
  <2>1. k \in DOMAIN outbox'[Home]
    BY <1>2
  <2>2. k \in DOMAIN outbox[Home]
    BY <1>0, <1>4, <2>1, NewByDispatch
  <2> QED BY <2>2, CountedOld
<1>5. CASE ~(\E e \in owed : Dispatch(e)) /\ i \in DOMAIN rows[Home]
  <2>1. Cardinality(Counted(i)') <= Cardinality(Counted(i))
    BY <1>1, <1>4, <1>5, FS_Subset
  <2>2. Cardinality(Counted(i)) + (IF Due(i) THEN 1 ELSE 0) <= Reckoned(rows[Home][i])
    BY <1>0, <1>5 DEF Earned
  <2>3. /\ Reckoned(rows[Home][i]) \in Nat /\ Reckoned(rows'[Home][i]) \in Nat
        /\ Reckoned(rows[Home][i]) <= Reckoned(rows'[Home][i])
        /\ Settle(Home, i) => Reckoned(rows[Home][i]) + 1 <= Reckoned(rows'[Home][i])
    BY <1>5, ReportedStep
  <2>4. Due(i)' => Due(i) \/ Settle(Home, i)
    <3>1. \/ owed' \subseteq owed
          \/ \E d \in Db : Alert(d)
          \/ \E d \in Db : \E j \in DOMAIN rows[d] : Settle(d, j)
          \/ \E d \in Db : \E p \in DOMAIN book[d] : ClosePosition(d, p)
      BY DEF NoticeNext, Dispatcher, Closer, Api, World, noticeVars, api, TailerPoll, DeliverOne, PollParked,
             PollOutcomes, AskReview, TellOutcome, PollCloses, TellClose, SentAndStopped, StartTailer, StartLegacy,
             Dispatch, Insert, Decide, ApiCrash, EditBindings, Stop
    <3> SUFFICES ASSUME NEW e \in owed', e.db = Home, e.event # "position_closed", e.action = i
        PROVE  Due(i) \/ Settle(Home, i)
      BY DEF Due
    <3>2. e \in owed => Due(i)
      BY DEF Due
    <3>3. ASSUME NEW d \in Db, Alert(d) PROVE e \in owed
      <4>1. Len(rows[Home]) \in Nat /\ i <= Len(rows[Home])
        <5>1. rows[Home] \in Seq(Rows)
          BY <1>0 DEF NoticeTypeOK
        <5> QED BY <1>5, <5>1
      <4>2. e = Event(d, "alert", Len(rows[d]) + 1, 0) => FALSE
        BY <4>1 DEF Event
      <4> QED BY <3>3, <4>2 DEF Alert
    <3>4. ASSUME NEW d \in Db, NEW j \in DOMAIN rows[d], Settle(d, j) PROVE e \in owed \/ Settle(Home, i)
      <4>1. e \in owed \/ e = Event(d, "action_terminal", j, 0)
        BY <3>4 DEF Settle
      <4>2. e = Event(d, "action_terminal", j, 0) => d = Home /\ j = i
        BY DEF Event
      <4> QED BY <3>4, <4>1, <4>2
    <3>5. ASSUME NEW d \in Db, NEW p \in DOMAIN book[d], ClosePosition(d, p) PROVE e \in owed
      BY <3>5 DEF ClosePosition, Event
    <3> QED BY <3>1, <3>2, <3>3, <3>4, <3>5
  <2> HIDE DEF Counted, Reckoned, Due
  <2>5. Cardinality(Counted(i)) \in Nat /\ Cardinality(Counted(i)') \in Nat
    BY <1>1, <1>2
  <2> QED BY <2>1, <2>2, <2>3, <2>4, <2>5
<1>6. CASE ~(\E e \in owed : Dispatch(e)) /\ i \notin DOMAIN rows[Home]
  <2>1. Counted(i)' = {}
    <3>1. Counted(i) = {}
      BY <1>0, <1>6 DEF Counted, Announced, Coming, About, Linked
    <3> QED BY <1>4, <1>6, <3>1
  <2>2. Cardinality(Counted(i)') = 0
    BY <2>1, FS_EmptySet
  <2>3. rows'[Home][i] \in Rows
    <3>1. rows'[Home] \in Seq(Rows)
      BY <1>0 DEF NoticeTypeOK
    <3> QED BY <3>1
  <2>4. Reckoned(rows'[Home][i]) \in Nat
    BY <2>3 DEF Reckoned, Results, Rows
  <2>5. Due(i)' => Reckoned(rows'[Home][i]) >= 1
    <3> SUFFICES ASSUME NEW e \in owed', e.db = Home, e.event # "position_closed", e.action = i
        PROVE  Reckoned(rows'[Home][i]) >= 1
      BY DEF Due
    <3>1. Sourced(e)'
      BY <1>0 DEF Linked
    <3>2. rows'[Home][i].reports # 0 \/ Final(rows'[Home][i])
      BY <3>1 DEF Sourced, Final
    <3>3. rows'[Home][i].reports \in Nat
      BY <2>3 DEF Rows
    <3> QED BY <3>2, <3>3 DEF Reckoned, Results
  <2> QED BY <2>2, <2>4, <2>5
<1> QED BY <1>3, <1>5, <1>6

-----------------------------------------------------------------------------
(* The theorems. *)

(* The invariant holds at the start,                                      *)
LEMMA NoticeStarts ==
  ASSUME NoticeInit
  PROVE  NoticeInv
<1>0. Home \in Db /\ {MaxRows, MaxBook, MaxOutbox} \subseteq Nat
  BY NotificationsAssumption
<1>1. NoticeTypeOK
  BY <1>0 DEF NoticeInit, NoticeTypeOK, Off, Idle, Round, Phases
<1>2. \A m \in Messages : told[m] = 0
  BY DEF NoticeInit
<1>3. Linked
  BY <1>0 DEF NoticeInit, Linked
<1>4. SentOnce /\ MarkedOnce /\ ClosedOnce
  <2>1. SentOnce
    BY <1>2, MessageKinds DEF SentOnce
  <2>2. MarkedOnce
    BY <1>2, MessageKinds DEF MarkedOnce
  <2>3. ClosedOnce
    <3>1. torn = 0
      BY DEF NoticeInit
    <3> QED BY <1>2, <3>1, MessageKinds DEF ClosedOnce
  <2> QED BY <2>1, <2>2, <2>3
<1>5. Underway
  BY DEF NoticeInit, Underway, Off, Idle, Round
<1>6. OneWay
  <2>1. bot.mode = "off"
    BY DEF NoticeInit, Off
  <2> QED BY <1>0, <1>2, <2>1, MessageKinds DEF OneWay
<1> QED BY <1>1, <1>3, <1>4, <1>5, <1>6 DEF NoticeInv

(* and ever after.                                                        *)
LEMMA NoticeInvariant == NoticeSpec => []NoticeInv
<1>1. NoticeInit => NoticeInv
  BY NoticeStarts
<1>2. NoticeInv /\ [NoticeNext]_noticeVars => NoticeInv'
  <2> SUFFICES ASSUME NoticeInv, [NoticeNext]_noticeVars PROVE NoticeInv'
    OBVIOUS
  <2>1. NoticeTypeOK'
    BY NoticeTypeStep DEF NoticeInv
  <2>2. Linked' /\ SentOnce' /\ MarkedOnce' /\ ClosedOnce' /\ Underway' /\ OneWay'
    BY LinkedStep, SentOnceStep, MarkedOnceStep, ClosedOnceStep, UnderwayStep, OneWayStep
  <2> QED BY <2>1, <2>2 DEF NoticeInv
<1> QED BY <1>1, <1>2, PTL DEF NoticeSpec

(* However bindings, results, stops and failed messages fall, the tables   *)
(* of the outbox and what the bot has in hand keep their types.            *)
THEOREM NoticeTyped == NoticeSpec => []NoticeTypeOK
<1>1. NoticeInv => NoticeTypeOK
  BY DEF NoticeInv
<1> QED BY <1>1, NoticeInvariant, PTL

(* It bounds what the operator hears.                                     *)
LEMMA ToldOnceFollows ==
  ASSUME NoticeInv, Earned
  PROVE  ToldOnce
<1>0. /\ NoticeTypeOK /\ Linked /\ SentOnce /\ MarkedOnce /\ ClosedOnce /\ OneWay /\ Earned
      /\ Home \in Db /\ told \in [Messages -> Nat] /\ {torn, edits} \subseteq Nat
  BY NotificationsAssumption DEF NoticeInv, NoticeTypeOK
<1>1. ASSUME NEW i \in DOMAIN rows[Home]
      PROVE  Cardinality(Announced(i)) + told[<<"outcome", Home, i>>]
               <= Results(rows[Home][i]) + torn + (IF edits = 0 THEN 0 ELSE 1)
  <2> DEFINE A == Cardinality(Announced(i))
             T == told[<<"outcome", Home, i>>]
             R == Results(rows[Home][i])
  <2>1. i \in 1 .. MaxRows
    <3>1. rows[Home] \in Seq(Rows) /\ Len(rows[Home]) <= MaxRows
      BY <1>0 DEF Linked, NoticeTypeOK
    <3> QED BY <3>1, BoundsNat, WithinBound
  <2>2. <<"outcome", Home, i>> \in Messages
    BY <2>1, MessageKinds
  <2>3. T \in Nat /\ (T > 0 => T <= torn + 1)
    BY <1>0, <2>1, <2>2 DEF MarkedOnce
  <2>4. A \in Nat /\ A <= R /\ R \in Nat /\ R >= 1
    <3>1. IsFiniteSet(Counted(i)) /\ Cardinality(Counted(i)) \in Nat
      BY <1>0, CountedFinite DEF FinitelyCounted
    <3>2. A \in Nat /\ A <= Cardinality(Counted(i))
      BY <3>1, FS_Subset, FS_CardinalityType DEF Counted
    <3>3. rows[Home][i].reports \in Nat
      <4>1. rows[Home] \in Seq(Rows)
        BY <1>0 DEF NoticeTypeOK
      <4>2. rows[Home][i] \in Rows
        BY <4>1
      <4> QED BY <4>2 DEF Rows
    <3>4. Cardinality(Counted(i)) <= Reckoned(rows[Home][i])
      <4>1. Cardinality(Counted(i)) + (IF Due(i) THEN 1 ELSE 0) <= Reckoned(rows[Home][i])
        BY <1>0 DEF Earned
      <4>2. Reckoned(rows[Home][i]) \in Nat
        BY <3>3 DEF Reckoned, Results
      <4> QED BY <3>1, <4>1, <4>2
    <3>5. Reckoned(rows[Home][i]) <= R /\ R \in Nat /\ R >= 1 /\ Reckoned(rows[Home][i]) \in Nat
      BY <3>3 DEF Reckoned, Results
    <3> HIDE DEF A, R
    <3> QED BY <3>1, <3>2, <3>4, <3>5
  <2>5. edits = 0 /\ T > 0 => A = 0
    <3> SUFFICES ASSUME edits = 0, T > 0 PROVE Announced(i) = {}
      BY FS_EmptySet
    <3>1. ResolveBot(Home) = None
      BY <1>0, <2>1 DEF OneWay
    <3>2. \A k \in DOMAIN outbox[Home] : k \in 1 .. MaxOutbox
      <4>1. outbox[Home] \in Seq(OutRows) /\ Len(outbox[Home]) <= MaxOutbox
        BY <1>0 DEF Linked, NoticeTypeOK, OutRows
      <4> QED BY <4>1, BoundsNat, WithinBound
    <3> QED BY <1>0, <3>1, <3>2 DEF OneWay, Announced, About
  <2> HIDE DEF A, T, R
  <2>6. A + T <= R + torn + (IF edits = 0 THEN 0 ELSE 1)
    BY <1>0, <2>3, <2>4, <2>5
  <2> QED BY <2>6 DEF A, T, R
<1>2. ASSUME NEW m \in Messages PROVE told[m] <= IF m[1] = "dm" THEN 1 ELSE 1 + torn
  <2>1. CASE \E d \in Db, k \in 1 .. MaxOutbox : m = <<"dm", d, k>>
    <3>1. PICK d \in Db, k \in 1 .. MaxOutbox : m = <<"dm", d, k>>
      BY <2>1
    <3>2. m[1] = "dm"
      BY <3>1
    <3>3. told[m] > 0 => told[m] = 1
      BY <1>0, <3>1 DEF SentOnce
    <3> QED BY <1>0, <3>2, <3>3
  <2>2. CASE \E what \in {"outcome", "review"}, i \in 1 .. MaxRows : m = <<what, Home, i>>
    <3>1. PICK what \in {"outcome", "review"}, i \in 1 .. MaxRows : m = <<what, Home, i>>
      BY <2>2
    <3>2. m[1] # "dm"
      BY <3>1
    <3>3. told[m] > 0 => told[m] <= torn + (IF rows[Home][i].notified THEN 1 ELSE 0)
      BY <1>0, <3>1 DEF MarkedOnce
    <3> QED BY <1>0, <3>2, <3>3
  <2>3. CASE \E p \in 1 .. MaxBook : m = <<"closed", Home, p>>
    <3>1. PICK p \in 1 .. MaxBook : m = <<"closed", Home, p>>
      BY <2>3
    <3>2. m[1] # "dm"
      BY <3>1
    <3>3. told[m] <= torn + (IF cursor \in Nat /\ p <= cursor THEN 1 ELSE 0)
      BY <1>0, <3>1 DEF ClosedOnce
    <3> QED BY <1>0, <3>2, <3>3
  <2> QED BY <2>1, <2>2, <2>3 DEF Messages
<1> QED BY <1>1, <1>2 DEF ToldOnce

(* For every configuration that binds a bot to an event once, the operator *)
(* hears once of each result over both ways of telling, but for stops      *)
(* between a message and its mark and for changed bindings.                *)
THEOREM ToldOnceHolds ==
  ASSUME BoundOnce
  PROVE  NoticeSpec => []ToldOnce
<1>1. NoticeInit => Earned
  BY NotificationsAssumption DEF NoticeInit, Earned
<1>2. NoticeInv /\ Earned /\ [NoticeNext]_noticeVars => Earned'
  BY EarnedStep
<1>3. NoticeInv /\ Earned => ToldOnce
  BY ToldOnceFollows
<1> QED BY <1>1, <1>2, <1>3, NoticeInvariant, PTL DEF NoticeSpec

(* A message that was sent counts. *)
LEMMA SentCounts ==
  ASSUME told \in [Messages -> Nat], NEW m \in Messages, Sent(m)
  PROVE  told'[m] > 0 /\ told' # told
<1>1. told[m] \in Nat /\ told'[m] = told[m] + 1
  BY DEF Sent
<1> QED BY <1>1

(* Nothing leaves the backlog unsent but at a start or as a no-op.         *)
LEMMA PassedOverStep ==
  ASSUME NoticeInv, [NoticeNext]_noticeVars
  PROVE  /\ \A d \in Db : \A k \in DOMAIN outbox[d] :
               ~outbox[d][k].delivered /\ outbox'[d][k].delivered
               => Starts \/ told'[<<"dm", d, k>>] > 0
         /\ \A i \in DOMAIN rows[Home] :
               Final(rows[Home][i]) /\ ~rows[Home][i].notified /\ rows'[Home][i].notified
               => Starts \/ rows[Home][i].noop \/ told' # told
<1>0. /\ NoticeTypeOK /\ Linked /\ Underway /\ Home \in Db
      /\ rows \in [Db -> Seq(Rows)] /\ outbox \in [Db -> Seq(OutRows)] /\ told \in [Messages -> Nat]
  BY NotificationsAssumption DEF NoticeInv, NoticeTypeOK, OutRows
<1>1. StartTailer \/ StartLegacy => Starts
  BY DEF StartTailer, StartLegacy, Starts
<1>2. ASSUME DeliverOne, rows' # rows \/ outbox' # outbox
      PROVE  \E k \in Least(task.todo) :
               /\ k \in DOMAIN outbox[task.db] /\ <<"dm", task.db, k>> \in Messages
               /\ outbox' = [outbox EXCEPT ![task.db][k].delivered = TRUE]
               /\ told'[<<"dm", task.db, k>>] > 0 /\ told' # told
  <2>1. PICK k \in Least(task.todo) : Sent(<<"dm", task.db, k>>) /\ Delivered(task.db, k)
    BY <1>2 DEF DeliverOne, SentAndStopped, NotSent, api
  <2>2. task.db \in Db /\ k \in DOMAIN outbox[task.db]
    BY <1>0, <1>2, InHandThere DEF DeliverOne
  <2>3. k \in 1 .. MaxOutbox
    <3>1. outbox[task.db] \in Seq(OutRows) /\ Len(outbox[task.db]) <= MaxOutbox
      BY <1>0, <2>2 DEF Linked
    <3> QED BY <2>2, <3>1, BoundsNat, WithinBound
  <2>4. <<"dm", task.db, k>> \in Messages
    BY <2>2, <2>3, MessageKinds
  <2>5. told'[<<"dm", task.db, k>>] > 0 /\ told' # told
    BY <1>0, <2>1, <2>4, SentCounts
  <2> QED BY <2>1, <2>2, <2>4, <2>5 DEF Delivered
<1>3. ASSUME NEW d \in Db, NEW k \in DOMAIN outbox[d], ~outbox[d][k].delivered, outbox'[d][k].delivered, ~Starts
      PROVE  told'[<<"dm", d, k>>] > 0
  <2>1. DeliverOne
    BY <1>0, <1>1, <1>3, DeliveredStep
  <2>2. PICK j \in Least(task.todo) :
          /\ j \in DOMAIN outbox[task.db]
          /\ outbox' = [outbox EXCEPT ![task.db][j].delivered = TRUE]
          /\ told'[<<"dm", task.db, j>>] > 0
    BY <1>2, <1>3, <2>1
  <2>3. task.db \in Db
    BY <1>0 DEF NoticeTypeOK
  <2>4. d = task.db /\ k = j
    BY <1>0, <1>3, <2>2, <2>3, OutboxMarked
  <2> QED BY <2>2, <2>4
<1>4. ASSUME NEW i \in DOMAIN rows[Home], ~rows[Home][i].notified, rows'[Home][i].notified, ~Starts
      PROVE  rows[Home][i].noop \/ told' # told
  <2>1. DeliverOne \/ AskReview \/ TellOutcome
    BY <1>0, <1>1, <1>4, NotifiedStep
  <2>2. rows' # rows
    BY <1>4
  <2>3. CASE DeliverOne
    BY <1>2, <2>2, <2>3
  <2>4. ASSUME AskReview \/ TellOutcome, told' = told PROVE rows[Home][i].noop
    <3>1. ASSUME NEW j \in Least(task.todo), NEW what \in {"outcome", "review"}, Sent(<<what, Home, j>>),
                 task.phase \in {"parked", "outcomes"}
          PROVE  FALSE
      <4>1. j \in DOMAIN rows[Home]
        BY <1>0, <3>1, InHandThere
      <4>2. j \in 1 .. MaxRows
        <5>1. rows[Home] \in Seq(Rows) /\ Len(rows[Home]) <= MaxRows
          BY <1>0 DEF Linked
        <5> QED BY <4>1, <5>1, BoundsNat, WithinBound
      <4>3. <<what, Home, j>> \in Messages
        BY <4>2, MessageKinds
      <4> QED BY <1>0, <2>4, <3>1, <4>3, SentCounts
    <3>2. ~AskReview
      BY <2>2, <3>1 DEF AskReview, SentAndStopped, api
    <3>3. PICK j \in Least(task.todo) : rows[Home][j].noop /\ Notified(j)
      BY <2>2, <2>4, <3>1, <3>2 DEF TellOutcome, SentAndStopped, api
    <3>4. j = i
      BY <1>0, <1>4, <3>3, MarkRow DEF Notified
    <3> QED BY <3>3, <3>4
  <2> QED BY <2>1, <2>3, <2>4
<1> QED BY <1>3, <1>4

(* A message leaves the backlog of the running bot only by being sent: the *)
(* marks of rows nobody was told of are those of a start, and of no-ops.   *)
THEOREM PassedOver == NoticeSpec => PassedOverOnlyAtStart
<1>1. NoticeInv /\ [NoticeNext]_noticeVars =>
        [/\ \A d \in Db : \A k \in DOMAIN outbox[d] :
               ~outbox[d][k].delivered /\ outbox'[d][k].delivered
               => Starts \/ told'[<<"dm", d, k>>] > 0
         /\ \A i \in DOMAIN rows[Home] :
               Final(rows[Home][i]) /\ ~rows[Home][i].notified /\ rows'[Home][i].notified
               => Starts \/ rows[Home][i].noop \/ told' # told]_noticeVars
  BY PassedOverStep
<1> QED BY <1>1, NoticeInvariant, PTL DEF NoticeSpec, PassedOverOnlyAtStart
=============================================================================
