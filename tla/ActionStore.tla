----------------------------- MODULE ActionStore -----------------------------
(***************************************************************************)
(* The actions table and everybody who writes its status column.           *)
(*                                                                         *)
(* Three processes share one SQLite file in autocommit mode                *)
(* (src/src/db.py:7): the API (orchestrator inserts, /claim, /result), the *)
(* Telegram bot (promoter, sweepers, operator commands, start-up recovery) *)
(* and the desktop panel.  There is no lock above a single statement, so   *)
(* one action below is one statement, or a run of statements of one        *)
(* process between which no other writer can touch the rows concerned.     *)
(*                                                                         *)
(* Time is a tick, the sweeper's period or a multiple of it.  An age is    *)
(* counted only while the code still compares the column it stands for,    *)
(* and saturates one past the threshold it is compared with.               *)
(***************************************************************************)
EXTENDS Integers, FiniteSets

CONSTANTS
  Id,           \* rows the table may hold
  MaxDelay,     \* largest auto_execute_delay_sec, in ticks
  MgmtMaxAge,   \* MANAGEMENT_MAX_AGE_SEC, in ticks
  ClaimMaxAge,  \* release_stale_claims(max_age_sec), in ticks
  PanelRows,    \* the rows the operator also handles from the desktop panel
  Kinds,        \* what each row may be inserted as, a bound on the inputs
  Symbol,       \* instruments a CANCEL_PENDING may name
  SymbolOf,     \* the instrument in each row's payload
  NULL

ASSUME DelayAssumption == MaxDelay \in Nat
ASSUME AgeAssumption ==
  /\ MgmtMaxAge \in Nat /\ ClaimMaxAge \in Nat
  /\ MgmtMaxAge < ClaimMaxAge      \* "comfortably below release_stale_claims"
ASSUME NullAssumption == NULL \notin Int
ASSUME PanelAssumption == PanelRows \subseteq Id

VARIABLES
  status,    \* actions.status; "absent" before the INSERT
  kind,      \* what the sweepers and the backfill guard tell apart of action_type
  due,       \* execute_after: NULL, or ticks since it elapsed (negative: not yet)
  claimAge,  \* ticks since claimed_at, while claimed
  ks,        \* settings.kill_switch
  botUp,     \* the bot process is running
  swept,     \* claim_sweeper_loop has run since the last tick
  botCmd,    \* an operator command between its SELECT and its UPDATE, or NULL
  sentAge,   \* history: ticks of a running bot a management row has been 'sent'
  claims,    \* history: successful claims of a management row (counted up to 2)
  parked,    \* history: rows parked by recovery or by the backfill guard
  approved   \* history: rows the operator asked to execute since they were parked

rows == <<status, kind, due, claimAge>>
process == <<ks, botUp, swept, botCmd>>
history == <<sentAge, claims, parked, approved>>
vars == <<status, kind, due, claimAge, ks, botUp, swept, botCmd,
          sentAge, claims, parked, approved>>

-----------------------------------------------------------------------------
(* Domains. *)

Terminal == {"cancelled", "executed", "failed", "rejected"}
Status == {"absent", "pending", "sent", "claimed", "watching"} \cup Terminal

(* "MGMT": SINGLETON_MANAGEMENT_TYPES, re-targeted at execution time.  "OPEN": *)
(* the types a backfill does not park.  "TICKET": every other type the EA runs *)
(* (CLOSE_ALL, CLOSE, MODIFY, ...).  "NOTE": born terminal, never executed.    *)
Kind == {"OPEN", "MGMT", "TICKET", "NOTE"}
Executable == {"OPEN", "MGMT", "TICKET"}
BotOp == {"cancel", "execute", "relexec", "relskip"}

DueAge == -MaxDelay .. MgmtMaxAge + 1
ClaimAge == 0 .. ClaimMaxAge + 1

(* The longest exposure ManagementExposure allows, and one more. *)
ExposureBound == MgmtMaxAge + 1 + MaxDelay
SentAge == 0 .. ExposureBound + 1

(* How far execute_after's age is worth counting: only management rows expire. *)
DueCap(a) == IF kind[a] = "MGMT" THEN MgmtMaxAge + 1 ELSE 0
Older(x, cap) == IF x < cap THEN x + 1 ELSE x

IsDue(a) == due[a] # NULL /\ due[a] >= 0

Init ==
  /\ status = [a \in Id |-> "absent"]
  /\ kind = [a \in Id |-> "NOTE"]
  /\ due = [a \in Id |-> NULL]
  /\ claimAge = [a \in Id |-> 0]
  /\ ks = "off"
  /\ botUp = TRUE
  /\ swept = TRUE
  /\ botCmd = NULL
  /\ sentAge = [a \in Id |-> 0]
  /\ claims = [a \in Id |-> 0]
  /\ parked = {}
  /\ approved = {}

-----------------------------------------------------------------------------
(* Inserts. *)

InsertRow(a, k, s, d) ==
  /\ status[a] = "absent" /\ k \in Kinds[a] \cup {"NOTE"}
  /\ status' = [status EXCEPT ![a] = s]
  /\ kind' = [kind EXCEPT ![a] = k]
  /\ due' = [due EXCEPT ![a] = d]
  /\ UNCHANGED <<claimAge, process, sentAge, claims, approved>>

(* _persist_actions, live message: 'sent' at once when the grace delay is 0. *)
InsertLive(a, k, d) ==
  /\ InsertRow(a, k, IF d = 0 THEN "sent" ELSE "pending", -d)
  /\ UNCHANGED parked

(* _persist_actions, replayed message: anything but an OPEN waits for the      *)
(* operator with execute_after NULL.                                           *)
InsertBackfill(a, k, d) ==
  IF k = "OPEN" THEN InsertLive(a, k, d)
  ELSE /\ InsertRow(a, k, "pending", NULL)
       /\ parked' = parked \cup {a}

(* ALERTs, duplicates and rejected signals: rows that are born terminal. *)
InsertNote(a, s) ==
  /\ InsertRow(a, "NOTE", s, NULL)
  /\ UNCHANGED parked

(* /closeall: pending, due at once. *)
InsertCloseAll(a) ==
  /\ botUp /\ botCmd = NULL
  /\ InsertRow(a, "TICKET", "pending", 0)
  /\ UNCHANGED parked

(* POST /actions/manual *)
InsertManual(a) ==
  /\ InsertRow(a, "OPEN", "sent", 0)
  /\ UNCHANGED parked

(* CANCEL_PENDING: flips every watching OPEN of the symbol, then records itself *)
(* as an executed row.                                                         *)
CancelPending(a, sym) ==
  /\ status[a] = "absent"
  /\ status' = [b \in Id |->
       IF b = a THEN "executed"
       ELSE IF kind[b] = "OPEN" /\ status[b] = "watching" /\ SymbolOf[b] = sym
            THEN "rejected" ELSE status[b]]
  /\ UNCHANGED <<kind, due, claimAge, process, history>>

-----------------------------------------------------------------------------
(* The bot's loops. *)

(* promote_due_actions without its execute_after IS NOT NULL conjunct. *)
PromoteParkedToo ==
  /\ botUp /\ botCmd = NULL /\ ks = "off"
  /\ \E a \in Id : status[a] = "pending" /\ (due[a] = NULL \/ IsDue(a))
  /\ status' = [a \in Id |-> IF status[a] = "pending" /\ (due[a] = NULL \/ IsDue(a))
                             THEN "sent" ELSE status[a]]
  /\ UNCHANGED <<kind, due, claimAge, process, history>>

(* promote_due_actions with a whitelist of types, as it once had. *)
PromoteWhitelisted ==
  /\ botUp /\ botCmd = NULL /\ ks = "off"
  /\ \E a \in Id : status[a] = "pending" /\ IsDue(a) /\ kind[a] # "MGMT"
  /\ status' = [a \in Id |-> IF status[a] = "pending" /\ IsDue(a) /\ kind[a] # "MGMT"
                             THEN "sent" ELSE status[a]]
  /\ UNCHANGED <<kind, due, claimAge, process, history>>

(* promote_due_actions without the kill-switch test. *)
PromoteWhenHalted ==
  /\ botUp /\ botCmd = NULL
  /\ \E a \in Id : status[a] = "pending" /\ IsDue(a)
  /\ status' = [a \in Id |-> IF status[a] = "pending" /\ IsDue(a)
                             THEN "sent" ELSE status[a]]
  /\ UNCHANGED <<kind, due, claimAge, process, history>>

(* promote_due_actions *)
Promote ==
  /\ botUp /\ botCmd = NULL /\ ks = "off"
  /\ \E a \in Id : status[a] = "pending" /\ IsDue(a)
  /\ status' = [a \in Id |-> IF status[a] = "pending" /\ IsDue(a)
                             THEN "sent" ELSE status[a]]
  /\ UNCHANGED <<kind, due, claimAge, process, history>>

StaleClaim(a) == status[a] = "claimed" /\ claimAge[a] > ClaimMaxAge

(* release_stale_claims before management types were told apart. *)
RecycleAll == [a \in Id |-> IF StaleClaim(a) THEN "sent" ELSE status[a]]

(* release_stale_claims writing a status schema.sql:65 does not list. *)
RecycleExpired == [a \in Id |-> IF StaleClaim(a) THEN "expired" ELSE status[a]]

(* release_stale_claims that never gives a claim back. *)
ReleaseNone == status

(* release_stale_claims: a stale claim is re-armed, unless its type would pick *)
(* a new target.                                                               *)
Released == [a \in Id |-> IF StaleClaim(a)
                          THEN IF kind[a] = "MGMT" THEN "failed" ELSE "sent"
                          ELSE status[a]]

(* expire_stale_management looking at the wrong status. *)
ExpiredClaimed(st, a) ==
  st[a] = "claimed" /\ kind[a] = "MGMT" /\ due[a] # NULL /\ due[a] > MgmtMaxAge

(* The rows expire_stale_management fails. *)
Expired(st, a) ==
  st[a] = "sent" /\ kind[a] = "MGMT" /\ due[a] # NULL /\ due[a] > MgmtMaxAge

(* claim_sweeper_loop, one round: both sweeps, on disjoint rows. *)
Sweep ==
  /\ botUp /\ botCmd = NULL /\ ~swept
  /\ status' = [a \in Id |-> IF Expired(Released, a) THEN "failed" ELSE Released[a]]
  /\ claimAge' = [a \in Id |-> IF StaleClaim(a) THEN 0 ELSE claimAge[a]]
  /\ swept' = TRUE
  /\ UNCHANGED <<kind, due, ks, botUp, botCmd, history>>

-----------------------------------------------------------------------------
(* The API's answers to the EA. *)

(* POST /actions/{id}/claim that forgets to check the status. *)
ClaimAny(a) ==
  /\ status[a] \notin {"absent", "pending"}
  /\ status' = [status EXCEPT ![a] = "claimed"]
  /\ claimAge' = [claimAge EXCEPT ![a] = 0]
  /\ claims' = IF kind[a] = "MGMT" THEN [claims EXCEPT ![a] = Older(@, 2)] ELSE claims
  /\ UNCHANGED <<kind, due, process, sentAge, parked, approved>>

(* POST /actions/{id}/claim *)
Claim(a) ==
  /\ status[a] = "sent"
  /\ status' = [status EXCEPT ![a] = "claimed"]
  /\ claimAge' = [claimAge EXCEPT ![a] = 0]
  /\ claims' = IF kind[a] = "MGMT" THEN [claims EXCEPT ![a] = Older(@, 2)] ELSE claims
  /\ UNCHANGED <<kind, due, process, sentAge, parked, approved>>

(* POST /actions/{id}/result before the claim_expired guard. *)
ResultAny(a, s) ==
  /\ status[a] \notin {"absent", "pending"}
  /\ s = "watching" => kind[a] = "OPEN"
  /\ status' = [status EXCEPT ![a] = s]
  /\ claimAge' = [claimAge EXCEPT ![a] = 0]
  /\ UNCHANGED <<kind, due, process, history>>

(* POST /actions/{id}/result: on time, repeated or late; a row that is in      *)
(* neither owning state answers 409 and is left alone.                         *)
Result(a, s) ==
  /\ status[a] \in {"claimed", "watching"}
  /\ s = "watching" => kind[a] = "OPEN"
  /\ status' = [status EXCEPT ![a] = s]
  /\ claimAge' = [claimAge EXCEPT ![a] = 0]
  /\ UNCHANGED <<kind, due, process, history>>

-----------------------------------------------------------------------------
(* The operator. *)

(* A bot command or button: the SELECT.  Other statuses get a refusal. *)
BotRead(op, a) ==
  /\ botUp /\ botCmd = NULL
  /\ status[a] = "pending"
  /\ botCmd' = [op |-> op, id |-> a]
  /\ UNCHANGED <<rows, ks, botUp, swept, history>>

(* The UPDATE that follows.  The bot's loops cannot run in between (one event  *)
(* loop, no await), but the other processes can, all the longer while the      *)
(* UPDATE waits for SQLite's write lock.                                       *)
Completes(op) ==
  /\ botCmd # NULL /\ botCmd.op = op
  /\ botCmd' = NULL
  /\ UNCHANGED <<kind, claimAge, ks, botUp, swept, claims, parked>>

(* _do_cancel and _do_execute write whatever the row is by now. *)
DoCancel ==
  /\ Completes("cancel")
  /\ status' = [status EXCEPT ![botCmd.id] = "cancelled"]
  /\ UNCHANGED <<due, sentAge, approved>>

DoExecute ==
  /\ Completes("execute")
  /\ status' = [status EXCEPT ![botCmd.id] = "sent"]
  /\ sentAge' = [sentAge EXCEPT ![botCmd.id] = 0]
  /\ approved' = approved \cup {botCmd.id}
  /\ UNCHANGED due

(* The two recovery buttons repeat the status test in the UPDATE. *)
DoRelaunchExecute ==
  /\ Completes("relexec")
  /\ IF status[botCmd.id] = "pending"
     THEN /\ due' = [due EXCEPT ![botCmd.id] = 0]
          /\ approved' = approved \cup {botCmd.id}
     ELSE UNCHANGED <<due, approved>>
  /\ UNCHANGED <<status, sentAge>>

DoRelaunchSkip ==
  /\ Completes("relskip")
  /\ status' = IF status[botCmd.id] = "pending"
               THEN [status EXCEPT ![botCmd.id] = "rejected"] ELSE status
  /\ UNCHANGED <<due, sentAge, approved>>

BotWrite == DoCancel \/ DoExecute \/ DoRelaunchExecute \/ DoRelaunchSkip

(* The panel's Promote and Cancel buttons: one guarded UPDATE each. *)
GuiPromote(a) ==
  /\ a \in PanelRows /\ status[a] = "pending"
  /\ status' = [status EXCEPT ![a] = "sent"]
  /\ approved' = approved \cup {a}
  /\ UNCHANGED <<kind, due, claimAge, process, sentAge, claims, parked>>

GuiCancel(a) ==
  /\ a \in PanelRows /\ status[a] = "pending"
  /\ status' = [status EXCEPT ![a] = "cancelled"]
  /\ UNCHANGED <<kind, due, claimAge, process, history>>

(* /halt, /resume, the panel's toggle and the cost guard. *)
SetKillSwitch ==
  /\ ks' = IF ks = "on" THEN "off" ELSE "on"
  /\ UNCHANGED <<rows, botUp, swept, botCmd, history>>

-----------------------------------------------------------------------------
(* The bot process stops and starts. *)

BotCrash ==
  /\ botUp
  /\ botUp' = FALSE
  /\ botCmd' = NULL
  /\ UNCHANGED <<rows, ks, swept, history>>

Orphan(a) == status[a] = "pending" /\ due[a] # NULL

(* post_init: recover_orphan_pending_actions parks every pending row that has  *)
(* an execute_after before promotion_loop starts.                              *)
BotStart ==
  /\ ~botUp
  /\ botUp' = TRUE
  /\ due' = [a \in Id |-> IF Orphan(a) THEN NULL ELSE due[a]]
  /\ parked' = parked \cup {a \in Id : Orphan(a)}
  /\ approved' = approved \ {a \in Id : Orphan(a)}
  /\ UNCHANGED <<status, kind, claimAge, ks, swept, botCmd, sentAge, claims>>

(* Time passes.  The sweeper's period is one tick, so a running bot sweeps at  *)
(* least once between two ticks.                                               *)
Tick ==
  /\ botUp => swept
  /\ due' = [a \in Id |-> IF status[a] \in {"pending", "sent"} /\ due[a] # NULL
                          THEN Older(due[a], DueCap(a)) ELSE due[a]]
  /\ claimAge' = [a \in Id |-> IF status[a] = "claimed"
                               THEN Older(claimAge[a], ClaimMaxAge + 1) ELSE claimAge[a]]
  /\ sentAge' = [a \in Id |-> IF botUp /\ status[a] = "sent" /\ kind[a] = "MGMT"
                              THEN Older(sentAge[a], ExposureBound + 1) ELSE sentAge[a]]
  /\ swept' = FALSE
  /\ UNCHANGED <<status, kind, ks, botUp, botCmd, claims, parked, approved>>
-----------------------------------------------------------------------------
Operator ==
  \/ \E op \in BotOp, a \in Id : BotRead(op, a)
  \/ BotWrite
  \/ \E a \in Id : GuiPromote(a)
  \/ \E a \in Id : GuiCancel(a)
  \/ \E a \in Id : InsertCloseAll(a)
  \/ \E a \in Id : InsertManual(a)
  \/ SetKillSwitch

Orchestrator ==
  \/ \E a \in Id, k \in Executable, d \in 0 .. MaxDelay : InsertLive(a, k, d)
  \/ \E a \in Id, k \in Executable, d \in 0 .. MaxDelay : InsertBackfill(a, k, d)
  \/ \E a \in Id, s \in {"executed", "rejected"} : InsertNote(a, s)
  \/ \E a \in Id, sym \in Symbol : CancelPending(a, sym)

Ea ==
  \/ \E a \in Id : Claim(a)
  \/ \E a \in Id, s \in {"executed", "failed", "rejected", "watching"} : Result(a, s)

Bot == Promote \/ Sweep \/ BotCrash \/ BotStart

Next == Operator \/ Orchestrator \/ Ea \/ Bot \/ Tick

Spec == Init /\ [][Next]_vars

(* The bot's event loop serves its timers in turn, however many commands and   *)
(* restarts interleave; launch.bat or the GUI restarts a dead bot.  Nothing    *)
(* obliges the EA, the orchestrator or the operator to act.                    *)
Fairness ==
  /\ WF_vars(Tick) /\ WF_vars(BotStart) /\ WF_vars(BotWrite)
  /\ SF_vars(Sweep) /\ SF_vars(Promote)

FairSpec == Spec /\ Fairness

-----------------------------------------------------------------------------
(* Properties. *)

(* Every column keeps its domain, the CHECK constraint of schema.sql:65 and    *)
(* the shape of a half-done bot command included.                              *)
TypeOK ==
  /\ status \in [Id -> Status]
  /\ kind \in [Id -> Kind]
  /\ due \in [Id -> DueAge \cup {NULL}]
  /\ claimAge \in [Id -> ClaimAge]
  /\ ks \in {"on", "off"}
  /\ botUp \in BOOLEAN
  /\ swept \in BOOLEAN
  /\ botCmd \in [op : BotOp, id : Id] \cup {NULL}
  /\ sentAge \in [Id -> SentAge]
  /\ claims \in [Id -> 0 .. 2]
  /\ parked \subseteq Id
  /\ approved \subseteq Id

(* A cancelled, executed, failed or rejected action is never revived: not by a *)
(* late result, a sweep, or an operator command that read it earlier, as long  *)
(* as the operator handles it in one place.                                    *)
TerminalAbsorbing ==
  [][\A a \in Id \ PanelRows : status[a] \in Terminal => status'[a] = status[a]]_vars

(* A ticketless management action reaches the EA at most once: a second claim  *)
(* could close or modify a trade it was never meant for (promoter.py:18-23).   *)
ManagementClaimedOnce == \A a \in Id \ PanelRows : kind[a] = "MGMT" => claims[a] <= 1

(* A management action whose age is known offers itself to the EA for at most  *)
(* its maximum age, plus one sweep, plus the grace delay an early /execute     *)
(* skips; counted in ticks in which the bot that sweeps is running.            *)
ManagementExposure ==
  \A a \in Id : kind[a] = "MGMT" /\ status[a] = "sent" /\ due[a] # NULL
                => sentAge[a] <= ExposureBound

(* A row parked for review (bot restart, backfill replay) never reaches the EA *)
(* unless the operator asked for it after it was parked.                       *)
ParkedWaits ==
  \A a \in parked \ approved : status[a] \in {"pending", "cancelled", "rejected"}

(* While the kill switch is on, no pending row becomes 'sent' except one the   *)
(* operator himself sends (README.md:86).                                      *)
HaltHoldsPending ==
  [][\A a \in Id : ks = "on" /\ status[a] = "pending" /\ status'[a] = "sent"
                  => a \in approved']_vars

(* A claim the EA never reports on is eventually taken from it.                *)
ClaimResolved == \A a \in Id : status[a] = "claimed" ~> status[a] # "claimed"

(* A row whose delay has elapsed is not stranded: it is promoted, decided, or  *)
(* parked for the operator, unless trading is halted (promoter.py:40-49).      *)
DuePromoted ==
  \A a \in Id : (status[a] = "pending" /\ IsDue(a))
                 ~> (status[a] # "pending" \/ due[a] = NULL \/ ks = "on")

(* What the refusal in bot.py:157 promises: only a pending action is cancelled. *)
CancelOnlyPending ==
  [][\A a \in Id : status[a] # "cancelled" /\ status'[a] = "cancelled"
                  => status[a] = "pending"]_vars
=============================================================================
