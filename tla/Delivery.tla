---------------------------- MODULE Delivery ----------------------------
(***************************************************************************)
(* The way of a channel message to the orchestrator: a listener process    *)
(* (listener.py, or shared_listener.py with a fallback destination) POSTs  *)
(* it, the API of a destination answers 202, and a background task archives *)
(* the message and reads it unless it is on record already.  Processes,    *)
(* Telegram's connection and POSTs fail independently.                     *)
(*                                                                         *)
(* Messages are numbered as Telegram numbers them.                         *)
(***************************************************************************)
EXTENDS Integers, Sequences, FiniteSetsExt

CONSTANTS
  Last,        \* messages are 1 .. Last
  History,     \* those posted before the first launch
  Kinds,       \* the listeners considered, of "single" and "shared"
  Burst,       \* whether Telethon may drop updates before it has settled
  MaxFaults,   \* failed or unanswered POSTs, and cuts of the connection
  MaxCrash     \* crashes of the listener and of the API

Messages == 1 .. Last
Destinations == {"main", "fallback"}

ASSUME DeliveryAssumption ==
  /\ {Last, History, MaxFaults, MaxCrash} \subseteq Nat /\ History <= Last
  /\ Burst \in BOOLEAN /\ Kinds \subseteq {"single", "shared"}

VARIABLES
  kind,     \* which listener main() started
  posted,   \* messages in the channel
  aged,     \* 1 .. aged were too old when messages were last collected
  phase,    \* of the listener process
  net,      \* its connection to Telegram
  hands,    \* the handlers: waiting to post, or to write last_seen
  main,     \* the batch that start-up or a reconnect replays
  second,   \* the batch of _second_pass_catchup
  seen,     \* last_seen_tg_msg_id, in the first destination's settings
  archive,  \* messages table of each destination
  tasks,    \* background tasks of its API
  reads,    \* whether its orchestrator read a message as a replay, each time
  missed,   \* messages posted while nobody listened
  lost,     \* messages dropped with a log line, or held at a crash
  faults, crashes

lsn == <<phase, net, hands, main, second>>
api == <<archive, tasks, reads>>
vars == <<kind, posted, aged, lsn, seen, api, missed, lost, faults, crashes>>

Idle == [todo |-> {}, stale |-> {}, upto |-> 0, from |-> 0]

(* _collect_missed(min_id=from) and the age cap: 1 .. n have aged by now.  *)
Collected(from, n) ==
  [todo |-> {m \in 1 .. posted : m > from},
   stale |-> {m \in 1 .. n : m > from},
   upto |-> IF posted > from THEN posted ELSE 0,
   from |-> 0]

Init ==
  /\ kind \in Kinds
  /\ posted = History /\ aged = 0
  /\ phase = "off" /\ net = FALSE
  /\ hands = [m \in Messages |-> "none"]
  /\ main = Idle /\ second = Idle
  /\ seen = 0
  /\ archive = [d \in Destinations |-> {}]
  /\ tasks = [d \in Destinations |-> {}]
  /\ reads = [d \in Destinations |-> [m \in Messages |-> <<>>]]
  /\ missed = 1 .. History
  /\ lost = {}
  /\ faults = 0 /\ crashes = 0

-----------------------------------------------------------------------------
(* Telegram. *)

Listening == phase # "off" /\ net

Publish ==
  /\ posted < Last
  /\ posted' = posted + 1
  /\ \/ /\ Listening
        /\ hands' = [hands EXCEPT ![posted + 1] = "held"]
        /\ UNCHANGED missed
     \/ /\ Listening => Burst /\ phase \in {"connected", "catchup", "live"}
        /\ missed' = missed \cup {posted + 1}
        /\ UNCHANGED hands
  /\ UNCHANGED <<kind, aged, phase, net, main, second, seen, api, lost, faults, crashes>>

Disconnect ==
  /\ phase \in {"live", "settled"} /\ net /\ faults < MaxFaults
  /\ net' = FALSE
  /\ faults' = faults + 1
  /\ UNCHANGED <<kind, posted, aged, phase, hands, main, second, seen, api, missed, lost, crashes>>

-----------------------------------------------------------------------------
(* _post_incoming_message: it succeeds, or after its retries it gives up;  *)
(* an attempt whose answer is lost has left a task behind either way.      *)

Task(m, backfill, copy) == [msg |-> m, backfill |-> backfill, copy |-> copy]

Copies(d, m) == {t.copy : t \in {u \in tasks[d] : u.msg = m}}
Fresh(d, m) == CHOOSE c \in 1 .. Cardinality(Copies(d, m)) + 1 : c \notin Copies(d, m)

Deliver(d, m, backfill) == tasks[d] \cup {Task(m, backfill, Fresh(d, m))}

(* One destination: ok is what the function returns.                       *)
Post(d, m, backfill, ok) ==
  \/ /\ ok
     /\ tasks' = [tasks EXCEPT ![d] = Deliver(d, m, backfill)]
     /\ UNCHANGED faults
  \/ /\ faults < MaxFaults /\ faults' = faults + 1
     /\ \/ /\ ok
           /\ LET c == Fresh(d, m)
              IN  tasks' = [tasks EXCEPT ![d] = Deliver(d, m, backfill)
                                                  \cup {Task(m, backfill, c + 1)}]
        \/ ~ok /\ tasks' = [tasks EXCEPT ![d] = Deliver(d, m, backfill)]
        \/ ~ok /\ UNCHANGED tasks

(* _post_one: the fallback is tried when the first destination failed.     *)
PostLeg(m, ok) ==
  \/ ok /\ Post("main", m, FALSE, TRUE)
  \/ /\ faults < MaxFaults
     /\ \E arrived \in BOOLEAN :
          LET first == IF arrived THEN Deliver("main", m, FALSE) ELSE tasks["main"]
          IN  IF ok THEN /\ tasks' = [tasks EXCEPT !["main"] = first,
                                         !["fallback"] = Deliver("fallback", m, FALSE)]
                         /\ faults' = faults + 1
              ELSE /\ faults + 1 < MaxFaults
                   /\ tasks' = [tasks EXCEPT !["main"] = first]
                   /\ faults' = faults + 2

-----------------------------------------------------------------------------
(* The listener. *)

(* main(): last_seen is read, then the handler is registered.              *)
Start ==
  /\ phase = "off"
  /\ phase' = "connected" /\ net' = TRUE
  /\ main' = [Idle EXCEPT !.from = seen]
  /\ UNCHANGED <<kind, posted, aged, hands, second, seen, api, missed, lost, faults, crashes>>

(* First launch: everything is archived, nothing is read.                  *)
Collect ==
  /\ phase = "connected"
  /\ phase' = "catchup"
  /\ \E n \in aged .. posted :
       /\ aged' = n
       /\ IF main.from = 0
          THEN /\ archive' = [archive EXCEPT !["main"] = @ \cup 1 .. posted]
               /\ main' = [Collected(0, n) EXCEPT !.todo = {}]
          ELSE main' = Collected(main.from, n) /\ UNCHANGED archive
  /\ UNCHANGED <<kind, posted, net, hands, second, seen, tasks, reads,
                 missed, lost, faults, crashes>>

(* One message of a batch (replay_missed_messages and the loop of          *)
(* _backfill_channel_on_startup, which does not archive what is too old).  *)
ReplayAs(batch, backfill) ==
  LET m == Min(batch.todo)
  IN  /\ batch.todo # {}
      /\ IF m \in batch.stale
         THEN /\ IF kind = "single"
                 THEN archive' = [archive EXCEPT !["main"] = @ \cup {m}] /\ UNCHANGED lost
                 ELSE lost' = lost \cup {m} /\ UNCHANGED archive
              /\ UNCHANGED <<tasks, faults>>
         ELSE /\ \E ok \in BOOLEAN :
                   /\ Post("main", m, backfill, ok)
                   /\ lost' = IF ok THEN lost ELSE lost \cup {m}
              /\ UNCHANGED archive
      /\ UNCHANGED <<kind, posted, aged, phase, net, hands, seen, reads, missed, crashes>>

(* A replay that passes its messages off as live ones.                     *)
ReplayUnflagged(batch) == ReplayAs(batch, FALSE)

Replay(batch) == ReplayAs(batch, TRUE)

Rest(batch) == LET m == Min(batch.todo)
               IN  [batch EXCEPT !.todo = @ \ {m}, !.stale = @ \ {m}]

ReplayMain ==
  /\ phase \in {"catchup", "live", "settled"}
  /\ Replay(main)
  /\ main' = Rest(main)
  /\ UNCHANGED second

(* Marking a message as seen that has not been posted yet.                 *)
AfterBatchNext(batch) == batch.upto + 1

AfterBatch(batch) == batch.upto

(* last_seen is set to the end of the batch; after start-up handlers run.  *)
MarkMain ==
  /\ main.todo = {}
  /\ phase = "catchup" \/ main.upto > 0
  /\ phase \in {"catchup", "live", "settled"}
  /\ seen' = IF main.upto = 0 THEN seen ELSE AfterBatch(main)
  /\ main' = Idle
  /\ phase' = IF phase = "catchup" THEN IF kind = "single" THEN "live" ELSE "settled" ELSE phase
  /\ UNCHANGED <<kind, posted, aged, net, hands, second, api, missed, lost, faults, crashes>>

(* The handlers run side by side and finish in any order.  The shared      *)
(* listener's do not write last_seen.                                      *)
Handle(m) ==
  /\ phase \in {"live", "settled"} /\ hands[m] = "held"
  /\ \E ok \in BOOLEAN :
       /\ IF kind = "single" THEN Post("main", m, FALSE, ok) ELSE PostLeg(m, ok)
       /\ lost' = IF ok THEN lost ELSE lost \cup {m}
  /\ hands' = [hands EXCEPT ![m] = IF kind = "single" THEN "mark" ELSE "none"]
  /\ UNCHANGED <<kind, posted, aged, phase, net, main, second, seen, archive, reads,
                 missed, crashes>>

MarkHandled(m) ==
  /\ phase \in {"live", "settled"} /\ hands[m] = "mark"
  /\ seen' = m
  /\ hands' = [hands EXCEPT ![m] = "none"]
  /\ UNCHANGED <<kind, posted, aged, phase, net, main, second, api, missed, lost, faults, crashes>>

(* _second_pass_catchup, once, six seconds after going live.               *)
SecondPass ==
  /\ phase = "live"
  /\ phase' = "settled"
  /\ \E n \in aged .. posted :
       /\ aged' = n
       /\ second' = IF net THEN Collected(seen, n) ELSE Idle
  /\ UNCHANGED <<kind, posted, net, hands, main, seen, api, missed, lost, faults, crashes>>

ReplaySecond ==
  /\ Replay(second)
  /\ second' = Rest(second)
  /\ UNCHANGED main

MarkSecond ==
  /\ second.todo = {} /\ second.upto > 0
  /\ seen' = AfterBatch(second)
  /\ second' = Idle
  /\ UNCHANGED <<kind, posted, aged, phase, net, hands, main, api, missed, lost, faults, crashes>>

(* A supervisor that only reconnects.                                      *)
ReconnectOnly ==
  /\ phase \in {"live", "settled"} /\ ~net /\ main = Idle
  /\ net' = TRUE
  /\ UNCHANGED <<kind, posted, aged, phase, hands, main, second, seen, api, missed, lost,
                 faults, crashes>>

(* The supervisor loop; the shared listener's does not replay.             *)
Reconnect ==
  /\ phase \in {"live", "settled"} /\ ~net /\ main = Idle
  /\ net' = TRUE
  /\ \E n \in aged .. posted :
       /\ aged' = n
       /\ main' = IF kind = "single" THEN Collected(seen, n) ELSE Idle
  /\ UNCHANGED <<kind, posted, phase, hands, second, seen, api, missed, lost,
                 faults, crashes>>

(* What the process holds and last_seen has passed is not collected again. *)
ListenerCrash ==
  /\ phase # "off" /\ crashes < MaxCrash
  /\ phase' = "off" /\ net' = FALSE
  /\ hands' = [m \in Messages |-> "none"]
  /\ main' = Idle /\ second' = Idle
  /\ LET unposted == {m \in Messages : hands[m] = "held"}
     IN  /\ lost' = lost \cup {m \in unposted \cup main.todo \cup second.todo : m <= seen}
         /\ missed' = missed \cup unposted
  /\ crashes' = crashes + 1
  /\ UNCHANGED <<kind, posted, aged, seen, api, faults>>

-----------------------------------------------------------------------------
(* The API: background tasks run in any order. *)

(* A message that yields no action is deleted again.                       *)
BeginDeleting(d, t) ==
  /\ tasks' = [tasks EXCEPT ![d] = @ \ {t}]
  /\ IF t.msg \in archive[d] THEN UNCHANGED <<archive, reads>>
     ELSE /\ archive' \in {archive, [archive EXCEPT ![d] = @ \cup {t.msg}]}
          /\ reads' = [reads EXCEPT ![d][t.msg] = Append(@, t.backfill)]
  /\ UNCHANGED <<kind, posted, aged, lsn, seen, missed, lost, faults, crashes>>

(* _insert_message: INSERT OR IGNORE; a message on record is not read      *)
(* again, whoever put it there, and it stays there.                        *)
Begin(d, t) ==
  /\ tasks' = [tasks EXCEPT ![d] = @ \ {t}]
  /\ IF t.msg \in archive[d] THEN UNCHANGED <<archive, reads>>
     ELSE /\ archive' = [archive EXCEPT ![d] = @ \cup {t.msg}]
          /\ reads' = [reads EXCEPT ![d][t.msg] = Append(@, t.backfill)]
  /\ UNCHANGED <<kind, posted, aged, lsn, seen, missed, lost, faults, crashes>>

(* The messages of tasks that had not begun are lost.                      *)
ApiCrash(d) ==
  /\ tasks[d] # {} /\ crashes < MaxCrash
  /\ tasks' = [tasks EXCEPT ![d] = {}]
  /\ lost' = lost \cup {t.msg : t \in {u \in tasks[d] : u.msg \notin archive[d]}}
  /\ crashes' = crashes + 1
  /\ UNCHANGED <<kind, posted, aged, lsn, seen, archive, reads, missed, faults>>

Channel == Publish \/ Disconnect
Listener ==
  \/ Start \/ Collect \/ ReplayMain \/ MarkMain \/ SecondPass \/ ReplaySecond \/ MarkSecond
  \/ Reconnect
  \/ \E m \in Messages : Handle(m) \/ MarkHandled(m)
Api(d) == \E t \in tasks[d] : Begin(d, t)

Next ==
  \/ Channel \/ Listener \/ ListenerCrash
  \/ \E d \in Destinations : Api(d) \/ ApiCrash(d)

Spec == Init /\ [][Next]_vars

(* The services are restarted, the supervisor retries for ever, handlers   *)
(* and background tasks run.                                               *)
FairSpec == Spec /\ WF_vars(Listener) /\ WF_vars(\E d \in Destinations : Api(d))

-----------------------------------------------------------------------------
(* Properties. *)

Batch == [todo : SUBSET (1 .. posted), stale : SUBSET (1 .. posted),
          upto : 0 .. posted, from : 0 .. posted]
AnyTask == [msg : 1 .. posted, backfill : BOOLEAN, copy : Nat \ {0}]

TypeOK ==
  /\ kind \in {"single", "shared"}
  /\ posted \in History .. Last /\ aged \in 0 .. posted
  /\ phase \in {"off", "connected", "catchup", "live", "settled"} /\ net \in BOOLEAN
  /\ hands \in [Messages -> {"none", "held", "mark"}]
  /\ \A m \in Messages : hands[m] # "none" => m \in 1 .. posted
  /\ {main, second} \subseteq Batch /\ seen \in 0 .. posted
  /\ archive \in [Destinations -> SUBSET (1 .. posted)]
  /\ tasks \in [Destinations -> SUBSET AnyTask]
  /\ \A d \in Destinations : IsFiniteSet(tasks[d])
  /\ reads \in [Destinations -> [Messages -> Seq(BOOLEAN)]]
  /\ missed \cup lost \subseteq 1 .. posted
  /\ faults \in Nat /\ crashes \in Nat

(* However often a message is posted, retried, replayed and collected      *)
(* again, a destination reads it once (orchestrator.py:227-252).           *)
ReadOnce == \A d \in Destinations, m \in Messages : Len(reads[d][m]) <= 1

(* What was posted while nobody listened is read as a replay only, and so  *)
(* moves no position without the operator, whichever way it is recovered.  *)
(* Nothing from before the first launch is read (listener.py:646-664).     *)
MissedIsReplayed ==
  \A d \in Destinations, m \in missed : \A i \in DOMAIN reads[d][m] :
    reads[d][m][i] /\ m > History

(* After the second pass nothing that Telethon dropped at first is missing *)
(* (listener.py:692-700).                                                  *)
BurstRecovered ==
  kind = "single" /\ phase = "settled" /\ second = Idle /\ faults + crashes = 0 =>
    \A m \in missed : m \in archive["main"] \/ \E t \in tasks["main"] : t.msg = m

Accounted(m) ==
  \/ m \in lost
  \/ \E d \in Destinations : m \in archive[d]
  \/ kind = "shared" /\ m \in missed  \* until its next start

(* Every message ends up in a messages table or in the log as dropped.     *)
EveryMessageAccounted == []<>(\A m \in 1 .. posted : Accounted(m))
=============================================================================
