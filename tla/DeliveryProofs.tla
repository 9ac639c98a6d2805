---------------------------- MODULE DeliveryProofs ----------------------------
(***************************************************************************)
(* What Delivery guarantees for any number of messages, of faults and of   *)
(* crashes, proved with TLAPS.                                             *)
(***************************************************************************)
EXTENDS Delivery, FiniteSetTheorems, WellFoundedInduction, TLAPS

-----------------------------------------------------------------------------
(* The invariant. *)

(* A message that was read is on record. *)
OnRecord ==
  \A d \in Destinations, m \in Messages :
    Len(reads[d][m]) <= 1 /\ (reads[d][m] # <<>> => m \in archive[d])

(* A handler holds a message of its own launch, one that nobody missed. *)
Held ==
  \A m \in Messages : hands[m] # "none" =>
    m > History /\ (hands[m] = "held" => m \notin missed)

(* A message that was missed, or that a handler has yet to post, is with no    *)
(* API as a live one.                                                          *)
NotLive ==
  \A m \in Messages, d \in Destinations : m \in missed \/ hands[m] = "held" =>
    /\ \A t \in tasks[d] : t.msg = m => t.backfill
    /\ \A i \in DOMAIN reads[d][m] : reads[d][m][i]

(* Nothing from before the first launch is on its way, or read. *)
Recent ==
  /\ \A batch \in {main, second} : \A m \in batch.todo : m > History
  /\ \A d \in Destinations : \A t \in tasks[d] : t.msg > History
  /\ \A d \in Destinations, m \in Messages : reads[d][m] # <<>> => m > History

(* last_seen, once written, is past what the first launch found, and it is     *)
(* written before any handler or second pass uses it.                          *)
Past(n) == n = 0 \/ n >= History

SeenPast ==
  /\ \A n \in {seen, main.upto, main.from, second.upto} : Past(n)
  /\ phase = "connected" => main.from = 0 \/ seen >= History
  /\ phase = "catchup" => main.upto >= History \/ seen >= History
  /\ phase \in {"live", "settled"} => seen >= History

DeliveryInv == TypeOK /\ OnRecord /\ Held /\ NotLive /\ Recent /\ SeenPast

-----------------------------------------------------------------------------
(* The operators. *)

(* A nonempty set of numbers has a least one. *)
LEMMA MinIn ==
  ASSUME NEW S \in SUBSET Nat, S # {}
  PROVE  Min(S) \in S
<1> DEFINE R == OpToRel(<, Nat)
<1>1. \A x, y \in Nat : y < x => <<y, x>> \in R BY DEF OpToRel
<1>2. IsWellFoundedOn(R, Nat) BY NatLessThanWellFounded
<1> HIDE DEF R
<1>3. PICK x \in S : \A y \in S : ~ (<<y, x>> \in R) BY <1>2, WFMin
<1>4. \A y \in S : x =< y
  <2> TAKE y \in S
  <2>1. x \in Nat /\ y \in Nat /\ ~ (y < x) BY <1>1, <1>3
  <2> QED BY <2>1, SMT
<1> QED BY <1>4 DEF Min

(* Every copy of a message that reaches an API becomes a task of its own. *)
LEMMA FreshIsNew ==
  ASSUME TypeOK, NEW d \in Destinations, NEW m
  PROVE  Fresh(d, m) \in Nat \ {0} /\ Fresh(d, m) \notin Copies(d, m)
<1> DEFINE S == {u \in tasks[d] : u.msg = m}
           f == [t \in S |-> t.copy]
           C == Copies(d, m)
           n == Cardinality(C)
<1>1. IsFiniteSet(S) BY FS_Subset DEF TypeOK
<1>2. f \in Surjection(S, C) BY DEF Surjection, Copies
<1>3. IsFiniteSet(C) BY <1>1, <1>2, FS_Surjection
<1>4. n \in Nat BY <1>3, FS_CardinalityType
<1> HIDE DEF S, f, C, n
<1>5. \E c \in 1 .. n + 1 : c \notin C
  <2> SUFFICES ASSUME \A c \in 1 .. n + 1 : c \in C PROVE FALSE OBVIOUS
  <2>1. Cardinality(1 .. n + 1) <= n BY <1>3, FS_Subset DEF n
  <2>2. Cardinality(1 .. n + 1) = n + 1 BY <1>4, FS_Interval
  <2> QED BY <1>4, <2>1, <2>2
<1>6. Fresh(d, m) \in 1 .. n + 1 /\ Fresh(d, m) \notin C BY <1>5 DEF Fresh, C, n
<1> QED BY <1>4, <1>6 DEF C

(* What arrives at an API: the message that was posted, flagged as it was. *)
LEMMA Delivered ==
  ASSUME TypeOK, NEW d \in Destinations, NEW m \in 1 .. posted, NEW b \in BOOLEAN
  PROVE  /\ Task(m, b, Fresh(d, m)) \in AnyTask /\ Task(m, b, Fresh(d, m) + 1) \in AnyTask
         /\ \A c : Task(m, b, c).msg = m /\ Task(m, b, c).backfill = b
         /\ Deliver(d, m, b) \in SUBSET AnyTask /\ IsFiniteSet(Deliver(d, m, b))
         /\ \A t \in Deliver(d, m, b) : t \in tasks[d] \/ (t.msg = m /\ t.backfill = b)
<1>1. Fresh(d, m) \in Nat \ {0} BY FreshIsNew
<1>2. tasks[d] \in SUBSET AnyTask /\ IsFiniteSet(tasks[d]) BY DEF TypeOK
<1>3. \A c \in Nat \ {0} : Task(m, b, c) \in AnyTask BY DEF Task, AnyTask
<1>4. \A c : Task(m, b, c).msg = m /\ Task(m, b, c).backfill = b BY DEF Task
<1>5. Fresh(d, m) + 1 \in Nat \ {0} BY <1>1
<1> DEFINE T == Task(m, b, Fresh(d, m))
<1>6. T \in AnyTask /\ T.msg = m /\ T.backfill = b BY <1>1, <1>3, <1>4
<1> HIDE DEF T
<1>7. IsFiniteSet(tasks[d] \cup {T}) BY <1>2, FS_AddElement
<1>8. Deliver(d, m, b) = tasks[d] \cup {T} BY DEF Deliver, T
<1> QED BY <1>1, <1>2, <1>3, <1>4, <1>5, <1>6, <1>7, <1>8

Adds(m, b) ==
  /\ tasks' \in [Destinations -> SUBSET AnyTask] /\ faults' \in Nat
  /\ \A d \in Destinations : /\ IsFiniteSet(tasks'[d])
                             /\ \A t \in tasks'[d] : t \in tasks[d] \/ (t.msg = m /\ t.backfill = b)

(* A POST, however it ends, adds nothing but its message. *)
LEMMA PostAdds ==
  ASSUME TypeOK, NEW d \in Destinations, NEW m \in 1 .. posted, NEW b \in BOOLEAN,
         NEW ok \in BOOLEAN, Post(d, m, b, ok)
  PROVE  Adds(m, b)
<1> DEFINE D == Deliver(d, m, b)
           T == Task(m, b, Fresh(d, m) + 1)
<1>1. /\ D \in SUBSET AnyTask /\ D \cup {T} \in SUBSET AnyTask
      /\ IsFiniteSet(D) /\ IsFiniteSet(D \cup {T})
      /\ \A t \in D \cup {T} : t \in tasks[d] \/ (t.msg = m /\ t.backfill = b)
  BY Delivered, FS_AddElement
<1>2. /\ tasks' \in {tasks, [tasks EXCEPT ![d] = D], [tasks EXCEPT ![d] = D \cup {T}]}
      /\ faults' \in Nat
  BY DEF Post, TypeOK
<1> HIDE DEF D, T
<1> QED BY <1>1, <1>2 DEF Adds, TypeOK

(* Nor do the two POSTs of the shared listener. *)
LEMMA PostLegAdds ==
  ASSUME TypeOK, NEW m \in 1 .. posted, NEW ok \in BOOLEAN, PostLeg(m, ok)
  PROVE  Adds(m, FALSE)
<1> DEFINE D == Deliver("main", m, FALSE)
           F == Deliver("fallback", m, FALSE)
<1>0. "main" \in Destinations /\ "fallback" \in Destinations BY DEF Destinations
<1>1. /\ D \in SUBSET AnyTask /\ F \in SUBSET AnyTask /\ IsFiniteSet(D) /\ IsFiniteSet(F)
      /\ \A t \in D : t \in tasks["main"] \/ (t.msg = m /\ t.backfill = FALSE)
      /\ \A t \in F : t \in tasks["fallback"] \/ (t.msg = m /\ t.backfill = FALSE)
  BY <1>0, Delivered
<1>2. CASE ok /\ Post("main", m, FALSE, TRUE) BY <1>0, <1>2, PostAdds
<1>3. CASE ~ (ok /\ Post("main", m, FALSE, TRUE))
  <2>1. /\ faults' \in Nat
        /\ \E first \in {D, tasks["main"]} :
             tasks' \in {[tasks EXCEPT !["main"] = first],
                         [tasks EXCEPT !["main"] = first, !["fallback"] = F]}
    <3>1. CASE ok
      <4>1. PICK arrived \in BOOLEAN :
              /\ tasks' = [tasks EXCEPT !["main"] = IF arrived THEN D ELSE tasks["main"], !["fallback"] = F]
              /\ faults' = faults + 1
        BY <1>3, <3>1 DEF PostLeg
      <4> DEFINE first == IF arrived THEN D ELSE tasks["main"]
      <4>2. first \in {D, tasks["main"]} /\ faults' \in Nat BY <4>1 DEF TypeOK
      <4> HIDE DEF D, F
      <4> QED BY <4>1, <4>2
    <3>2. CASE ~ok
      <4>1. PICK arrived \in BOOLEAN :
              /\ tasks' = [tasks EXCEPT !["main"] = IF arrived THEN D ELSE tasks["main"]]
              /\ faults' = faults + 2
        BY <3>2 DEF PostLeg
      <4> DEFINE first == IF arrived THEN D ELSE tasks["main"]
      <4>2. first \in {D, tasks["main"]} /\ faults' \in Nat BY <4>1 DEF TypeOK
      <4> HIDE DEF D, F
      <4> QED BY <4>1, <4>2
    <3> QED BY <3>1, <3>2
  <2>2. PICK first \in {D, tasks["main"]} :
             tasks' \in {[tasks EXCEPT !["main"] = first],
                         [tasks EXCEPT !["main"] = first, !["fallback"] = F]}
    BY <2>1
  <2> HIDE DEF D, F
  <2>3. tasks \in [Destinations -> SUBSET AnyTask] /\ \A d \in Destinations : IsFiniteSet(tasks[d])
    BY DEF TypeOK
  <2>4. first \in SUBSET AnyTask /\ IsFiniteSet(first) BY <1>0, <1>1, <2>3
  <2>5. \A d \in Destinations :
          \/ tasks'[d] = tasks[d]
          \/ d = "main" /\ tasks'[d] = first
          \/ d = "fallback" /\ tasks'[d] = F
    BY <1>0, <2>2, <2>3
  <2>6. tasks' \in [Destinations -> SUBSET AnyTask]
    <3>1. CASE tasks' = [tasks EXCEPT !["main"] = first] BY <2>3, <2>4, <3>1
    <3>2. CASE tasks' = [tasks EXCEPT !["main"] = first, !["fallback"] = F] BY <1>1, <2>3, <2>4, <3>2
    <3> QED BY <2>2, <3>1, <3>2
  <2> QED BY <1>1, <2>1, <2>2, <2>3, <2>4, <2>5, <2>6 DEF Adds
<1> QED BY <1>2, <1>3

(* A batch holds what was posted after the mark it starts from. *)
LEMMA CollectedBatch ==
  ASSUME TypeOK, NEW from \in 0 .. posted, NEW n \in aged .. posted
  PROVE  /\ Collected(from, n) \in Batch
         /\ \A m \in Collected(from, n).todo : m > from
         /\ Collected(from, n).from = 0
         /\ Collected(from, n).upto = IF posted > from THEN posted ELSE 0
BY DeliveryAssumption DEF TypeOK, Collected, Batch

LEMMA IdleBatch == ASSUME TypeOK PROVE Idle \in Batch
BY DeliveryAssumption DEF Idle, Batch, TypeOK

LEMMA RestBatch ==
  ASSUME TypeOK, NEW batch \in Batch
  PROVE  /\ Rest(batch) \in Batch /\ Rest(batch).todo \subseteq batch.todo
         /\ Rest(batch).upto = batch.upto /\ Rest(batch).from = batch.from
BY DEF Rest, Batch

(* One message of a batch goes, with its flag, to the API of main. *)
LEMMA Replays ==
  ASSUME TypeOK, NEW batch \in Batch, Replay(batch)
  PROVE  \E m \in batch.todo :
           /\ m \in 1 .. posted
           /\ Adds(m, TRUE)
           /\ archive' \in [Destinations -> SUBSET (1 .. posted)]
           /\ \A d \in Destinations : archive[d] \subseteq archive'[d]
           /\ lost' \subseteq lost \cup {m}
           /\ UNCHANGED <<kind, posted, aged, phase, net, hands, seen, reads, missed, crashes>>
<1> DEFINE m == Min(batch.todo)
<1>1. batch.todo # {} /\ batch.todo \in SUBSET Nat /\ batch.todo \subseteq 1 .. posted
  BY DeliveryAssumption DEF Replay, ReplayAs, Batch, TypeOK
<1>2. m \in batch.todo /\ m \in 1 .. posted BY <1>1, MinIn
<1>3. UNCHANGED <<kind, posted, aged, phase, net, hands, seen, reads, missed, crashes>>
  BY DEF Replay, ReplayAs
<1>4. "main" \in Destinations BY DEF Destinations
<1>5. CASE m \in batch.stale
  <2>1. UNCHANGED <<tasks, faults>> BY <1>5 DEF Replay, ReplayAs
  <2>2. \/ archive' = [archive EXCEPT !["main"] = archive["main"] \cup {m}] /\ lost' = lost
        \/ archive' = archive /\ lost' = lost \cup {m}
    BY <1>5 DEF Replay, ReplayAs
  <2> HIDE DEF m
  <2>3. Adds(m, TRUE) BY <2>1 DEF Adds, TypeOK
  <2>4. /\ archive' \in [Destinations -> SUBSET (1 .. posted)]
        /\ \A d \in Destinations : archive[d] \subseteq archive'[d]
    BY <1>2, <1>4, <2>2 DEF TypeOK
  <2> QED BY <1>2, <1>3, <2>2, <2>3, <2>4
<1>6. CASE m \notin batch.stale
  <2>1. PICK ok \in BOOLEAN : Post("main", m, TRUE, ok) /\ lost' = IF ok THEN lost ELSE lost \cup {m}
    BY <1>6 DEF Replay, ReplayAs
  <2>2. archive' = archive BY <1>6 DEF Replay, ReplayAs
  <2> HIDE DEF m
  <2>3. Adds(m, TRUE) BY <1>2, <1>4, <2>1, PostAdds
  <2> QED BY <1>2, <1>3, <2>1, <2>2, <2>3 DEF TypeOK
<1> QED BY <1>5, <1>6

-----------------------------------------------------------------------------
(* Types. *)

LEMMA ReplaysType ==
  ASSUME TypeOK, ReplayMain \/ ReplaySecond
  PROVE  TypeOK'
<1>1. PICK batch \in {main, second} :
        /\ Replay(batch)
        /\ \/ main' = Rest(batch) /\ second' = second
           \/ main' = main /\ second' = Rest(batch)
  BY DEF ReplayMain, ReplaySecond
<1>2. batch \in Batch BY DEF TypeOK
<1>3. Rest(batch) \in Batch BY <1>2, RestBatch
<1>4. PICK m \in 1 .. posted :
        /\ Adds(m, TRUE) /\ archive' \in [Destinations -> SUBSET (1 .. posted)]
        /\ lost' \subseteq lost \cup {m}
        /\ UNCHANGED <<kind, posted, aged, phase, net, hands, seen, reads, missed, crashes>>
  BY <1>1, <1>2, Replays
<1>5. Batch' = Batch /\ AnyTask' = AnyTask BY <1>4 DEF Batch, AnyTask
<1>6. {main', second'} \subseteq Batch BY <1>1, <1>3 DEF TypeOK
<1> QED BY <1>4, <1>5, <1>6 DEF TypeOK, Adds

LEMMA ChannelType == ASSUME TypeOK, Channel PROVE TypeOK'
<1>1. CASE Publish
  <2>1. /\ posted' = posted + 1 /\ posted' \in History .. Last /\ posted \in Nat
        /\ 1 .. posted \subseteq 1 .. posted' /\ 0 .. posted \subseteq 0 .. posted'
        /\ posted' \in 1 .. posted' /\ posted' \in Messages
    BY <1>1, DeliveryAssumption DEF Publish, TypeOK, Messages
  <2>2. Batch \subseteq Batch' BY <2>1 DEF Batch
  <2>3. AnyTask \subseteq AnyTask' BY <2>1 DEF AnyTask
  <2>4. /\ hands' \in [Messages -> {"none", "held", "mark"}] /\ missed' \subseteq missed \cup {posted'}
        /\ \A k \in Messages \ {posted'} : hands'[k] = hands[k]
    BY <1>1, <2>1 DEF Publish, TypeOK
  <2>5. UNCHANGED <<kind, aged, phase, net, main, second, seen, archive, tasks, reads, lost, faults, crashes>>
    BY <1>1 DEF Publish, api
  <2>6. archive \in [Destinations -> SUBSET (1 .. posted')] BY <2>1 DEF TypeOK
  <2>7. tasks \in [Destinations -> SUBSET AnyTask'] BY <2>3 DEF TypeOK
  <2>8. {main, second} \subseteq Batch' BY <2>2 DEF TypeOK
  <2>9. aged \in 0 .. posted' /\ seen \in 0 .. posted' BY <2>1 DEF TypeOK
  <2>10. missed' \cup lost \subseteq 1 .. posted' BY <2>1, <2>4 DEF TypeOK
  <2> QED BY <2>1, <2>4, <2>5, <2>6, <2>7, <2>8, <2>9, <2>10 DEF TypeOK
<1>2. CASE Disconnect
  <2>1. /\ UNCHANGED <<kind, posted, aged, phase, hands, main, second, seen, archive, tasks, reads,
                        missed, lost, crashes>>
        /\ net' = FALSE /\ faults' = faults + 1
    BY <1>2 DEF Disconnect, api
  <2>2. Batch' = Batch /\ AnyTask' = AnyTask BY <2>1 DEF Batch, AnyTask
  <2>3. faults' \in Nat BY <2>1 DEF TypeOK
  <2> QED BY <2>1, <2>2, <2>3 DEF TypeOK
<1> QED BY <1>1, <1>2 DEF Channel

LEMMA ListenerType == ASSUME TypeOK, Listener \/ ListenerCrash PROVE TypeOK'
<1>0. posted \in Nat /\ History \in Nat /\ 0 \in 0 .. posted BY DeliveryAssumption DEF TypeOK
<1>1. CASE Start
  <2>1. [Idle EXCEPT !.from = seen] \in Batch BY <1>0 DEF TypeOK, Idle, Batch
  <2> QED BY <1>1, <2>1 DEF Start, TypeOK, Batch, AnyTask, api
<1>2. CASE Collect
  <2>1. PICK n \in aged .. posted : /\ aged' = n
                                    /\ \/ /\ archive' = [archive EXCEPT !["main"] = archive["main"] \cup 1 .. posted]
                                          /\ main' = [Collected(0, n) EXCEPT !.todo = {}]
                                       \/ main' = Collected(main.from, n) /\ archive' = archive
    BY <1>2 DEF Collect
  <2>2. main.from \in 0 .. posted BY DEF TypeOK, Batch
  <2>3. Collected(0, n) \in Batch /\ Collected(main.from, n) \in Batch BY <1>0, <2>2, CollectedBatch
  <2>4. [Collected(0, n) EXCEPT !.todo = {}] \in Batch BY <2>3 DEF Batch
  <2>5. main' \in Batch BY <2>1, <2>3, <2>4
  <2>6. archive' \in [Destinations -> SUBSET (1 .. posted)] BY <2>1 DEF TypeOK, Destinations
  <2>7. aged' \in 0 .. posted BY <2>1, <1>0 DEF TypeOK
  <2>8. phase' = "catchup"
        /\ UNCHANGED <<kind, posted, net, hands, second, seen, tasks, reads, missed, lost, faults, crashes>>
    BY <1>2 DEF Collect
  <2>9. Batch' = Batch /\ AnyTask' = AnyTask BY <2>8 DEF Batch, AnyTask
  <2> QED BY <2>5, <2>6, <2>7, <2>8, <2>9 DEF TypeOK
<1>3. CASE MarkMain
  <2>1. seen' \in 0 .. posted BY <1>3 DEF MarkMain, AfterBatch, TypeOK, Batch
  <2>2. phase' \in {"off", "connected", "catchup", "live", "settled"} BY <1>3 DEF MarkMain, TypeOK
  <2> QED BY <1>3, <2>1, <2>2, IdleBatch DEF MarkMain, TypeOK, Batch, AnyTask, api
<1>4. CASE SecondPass
  <2>1. PICK n \in aged .. posted : aged' = n /\ second' \in {Collected(seen, n), Idle}
    BY <1>4 DEF SecondPass
  <2>2. Collected(seen, n) \in Batch /\ Idle \in Batch BY CollectedBatch, IdleBatch DEF TypeOK
  <2>3. second' \in Batch /\ aged' \in 0 .. posted BY <1>0, <2>1, <2>2 DEF TypeOK
  <2>4. phase' = "settled"
        /\ UNCHANGED <<kind, posted, net, hands, main, seen, archive, tasks, reads, missed, lost, faults, crashes>>
    BY <1>4 DEF SecondPass, api
  <2>5. Batch' = Batch /\ AnyTask' = AnyTask BY <2>4 DEF Batch, AnyTask
  <2> QED BY <2>3, <2>4, <2>5 DEF TypeOK
<1>5. CASE MarkSecond
  <2>1. seen' \in 0 .. posted BY <1>5 DEF MarkSecond, AfterBatch, TypeOK, Batch
  <2> QED BY <1>5, <2>1, IdleBatch DEF MarkSecond, TypeOK, Batch, AnyTask, api
<1>6. CASE Reconnect
  <2>1. PICK n \in aged .. posted : aged' = n /\ main' \in {Collected(seen, n), Idle}
    BY <1>6 DEF Reconnect
  <2>2. Collected(seen, n) \in Batch /\ Idle \in Batch BY CollectedBatch, IdleBatch DEF TypeOK
  <2>3. main' \in Batch /\ aged' \in 0 .. posted BY <1>0, <2>1, <2>2 DEF TypeOK
  <2>4. net' = TRUE
        /\ UNCHANGED <<kind, posted, phase, hands, second, seen, archive, tasks, reads, missed, lost, faults, crashes>>
    BY <1>6 DEF Reconnect, api
  <2>5. Batch' = Batch /\ AnyTask' = AnyTask BY <2>4 DEF Batch, AnyTask
  <2> QED BY <2>3, <2>4, <2>5 DEF TypeOK
<1>7. ASSUME NEW m \in Messages, Handle(m) PROVE TypeOK'
  <2>0. m \in 1 .. posted BY <1>7 DEF Handle, TypeOK
  <2>1. PICK ok \in BOOLEAN :
          /\ Post("main", m, FALSE, ok) \/ PostLeg(m, ok)
          /\ lost' \subseteq lost \cup {m}
    BY <1>7 DEF Handle
  <2>2. Adds(m, FALSE) BY <2>0, <2>1, PostAdds, PostLegAdds DEF Destinations
  <2>3. UNCHANGED <<kind, posted, aged, phase, net, main, second, seen, archive, reads, missed, crashes>>
    BY <1>7 DEF Handle
  <2>4. /\ hands' \in [Messages -> {"none", "held", "mark"}]
        /\ \A k \in Messages \ {m} : hands'[k] = hands[k]
    BY <1>7 DEF Handle, TypeOK
  <2>5. Batch' = Batch /\ AnyTask' = AnyTask BY <2>3 DEF Batch, AnyTask
  <2> QED BY <2>0, <2>1, <2>2, <2>3, <2>4, <2>5 DEF TypeOK, Adds
<1>8. ASSUME NEW m \in Messages, MarkHandled(m) PROVE TypeOK'
  <2>1. m \in 1 .. posted BY <1>8 DEF MarkHandled, TypeOK
  <2> QED BY <1>8, <1>0, <2>1 DEF MarkHandled, TypeOK, Batch, AnyTask, api
<1>9. CASE ListenerCrash
  <2>1. hands' \in [Messages -> {"none", "held", "mark"}] /\ \A m \in Messages : hands'[m] = "none"
    BY <1>9 DEF ListenerCrash
  <2>2. main.todo \subseteq 1 .. posted /\ second.todo \subseteq 1 .. posted BY DEF TypeOK, Batch
  <2>3. missed' \cup lost' \subseteq 1 .. posted BY <1>9, <2>2 DEF ListenerCrash, TypeOK
  <2>4. /\ UNCHANGED <<kind, posted, aged, seen, archive, tasks, reads, faults>>
        /\ phase' = "off" /\ net' = FALSE /\ main' = Idle /\ second' = Idle /\ crashes' \in Nat
    BY <1>9 DEF ListenerCrash, TypeOK, api
  <2>5. Batch' = Batch /\ AnyTask' = AnyTask BY <2>4 DEF Batch, AnyTask
  <2> QED BY <2>1, <2>3, <2>4, <2>5, IdleBatch DEF TypeOK
<1> QED
  BY <1>1, <1>2, <1>3, <1>4, <1>5, <1>6, <1>7, <1>8, <1>9, ReplaysType
  DEF Listener

LEMMA ApiType ==
  ASSUME TypeOK, NEW d \in Destinations, Api(d) \/ ApiCrash(d)
  PROVE  TypeOK'
<1>1. ASSUME NEW t \in tasks[d], Begin(d, t) PROVE TypeOK'
  <2>1. t \in AnyTask /\ t.msg \in 1 .. posted /\ t.msg \in Messages /\ t.backfill \in BOOLEAN
    BY DeliveryAssumption DEF TypeOK, AnyTask, Messages
  <2>2. IsFiniteSet(tasks[d] \ {t}) BY FS_RemoveElement DEF TypeOK
  <2>3. tasks' \in [Destinations -> SUBSET AnyTask] /\ \A e \in Destinations : IsFiniteSet(tasks'[e])
    BY <1>1, <2>2 DEF Begin, TypeOK
  <2>4. \/ archive' = archive /\ reads' = reads
        \/ /\ archive' = [archive EXCEPT ![d] = archive[d] \cup {t.msg}]
           /\ reads' = [reads EXCEPT ![d] = [reads[d] EXCEPT ![t.msg] = Append(reads[d][t.msg], t.backfill)]]
    BY <1>1 DEF Begin
  <2>5. archive' \in [Destinations -> SUBSET (1 .. posted)]
    <3>1. archive \in [Destinations -> SUBSET (1 .. posted)] BY DEF TypeOK
    <3>2. archive[d] \cup {t.msg} \in SUBSET (1 .. posted) BY <2>1, <3>1
    <3> QED BY <2>4, <3>1, <3>2
  <2>6. reads' \in [Destinations -> [Messages -> Seq(BOOLEAN)]]
    <3>1. reads[d] \in [Messages -> Seq(BOOLEAN)] /\ reads[d][t.msg] \in Seq(BOOLEAN) BY <2>1 DEF TypeOK
    <3>2. Append(reads[d][t.msg], t.backfill) \in Seq(BOOLEAN) BY <2>1, <3>1
    <3>3. [reads[d] EXCEPT ![t.msg] = Append(reads[d][t.msg], t.backfill)] \in [Messages -> Seq(BOOLEAN)]
      BY <3>1, <3>2
    <3> QED BY <2>4, <3>3 DEF TypeOK
  <2>7. UNCHANGED <<kind, posted, aged, phase, net, hands, main, second, seen, missed, lost, faults, crashes>>
    BY <1>1 DEF Begin, lsn
  <2>8. Batch' = Batch /\ AnyTask' = AnyTask BY <2>7 DEF Batch, AnyTask
  <2> QED BY <2>3, <2>5, <2>6, <2>7, <2>8 DEF TypeOK
<1>2. ASSUME ApiCrash(d) PROVE TypeOK'
  <2>1. /\ tasks' = [tasks EXCEPT ![d] = {}] /\ crashes' = crashes + 1
        /\ lost' = lost \cup {t.msg : t \in {u \in tasks[d] : u.msg \notin archive[d]}}
        /\ UNCHANGED <<kind, posted, aged, phase, net, hands, main, second, seen, archive, reads, missed, faults>>
    BY <1>2 DEF ApiCrash, lsn
  <2>2. Batch' = Batch /\ AnyTask' = AnyTask BY <2>1 DEF Batch, AnyTask
  <2>3. \A t \in tasks[d] : t.msg \in 1 .. posted BY DEF TypeOK, AnyTask
  <2>4. missed' \cup lost' \subseteq 1 .. posted BY <2>1, <2>3 DEF TypeOK
  <2>5. tasks' \in [Destinations -> SUBSET AnyTask] /\ \A e \in Destinations : IsFiniteSet(tasks'[e])
    BY <2>1, FS_EmptySet DEF TypeOK
  <2> QED BY <2>1, <2>2, <2>4, <2>5 DEF TypeOK
<1> QED BY <1>1, <1>2 DEF Api

(* Every variable keeps its domain: no message is handled, replayed or         *)
(* recorded that was never posted, and last_seen never runs ahead.             *)
THEOREM TypeCorrect == Spec => []TypeOK
<1>1. Init => TypeOK
  <2> SUFFICES ASSUME Init PROVE TypeOK OBVIOUS
  <2>1. History \in History .. Last /\ 0 \in 0 .. History /\ kind \in {"single", "shared"}
    BY DeliveryAssumption DEF Init
  <2>2. Idle \in Batch BY <2>1 DEF Idle, Batch, Init
  <2>3. \A d \in Destinations : tasks[d] = {} /\ IsFiniteSet(tasks[d]) BY FS_EmptySet DEF Init
  <2>4. reads \in [Destinations -> [Messages -> Seq(BOOLEAN)]] BY DEF Init
  <2>5. posted \in History .. Last /\ aged \in 0 .. posted /\ seen \in 0 .. posted
        /\ missed \cup lost \subseteq 1 .. posted /\ faults \in Nat /\ crashes \in Nat
    BY <2>1 DEF Init
  <2> QED BY <2>1, <2>2, <2>3, <2>4, <2>5 DEF Init, TypeOK
<1>2. TypeOK /\ [Next]_vars => TypeOK'
  <2> SUFFICES ASSUME TypeOK, [Next]_vars PROVE TypeOK' OBVIOUS
  <2>1. CASE UNCHANGED vars
    <3>1. UNCHANGED <<kind, posted, aged, phase, net, hands, main, second, seen, archive, tasks, reads,
                      missed, lost, faults, crashes>>
      BY <2>1 DEF vars, lsn, api
    <3>2. Batch' = Batch /\ AnyTask' = AnyTask BY <3>1 DEF Batch, AnyTask
    <3> QED BY <3>1, <3>2 DEF TypeOK
  <2> QED BY <2>1, ChannelType, ListenerType, ApiType DEF Next
<1> QED BY <1>1, <1>2, PTL DEF Spec

-----------------------------------------------------------------------------
(* Read once. *)

(* A background task that finds its message on record reads nothing. *)
LEMMA RecordKept ==
  ASSUME TypeOK, OnRecord, [Next]_vars
  PROVE  OnRecord'
<1>1. ASSUME reads' = reads, \A d \in Destinations : archive[d] \subseteq archive'[d] PROVE OnRecord'
  BY <1>1 DEF OnRecord
<1>2. CASE Collect
  <2>1. archive' \in {archive, [archive EXCEPT !["main"] = archive["main"] \cup 1 .. posted]} /\ reads' = reads
    BY <1>2 DEF Collect
  <2> QED BY <1>1, <2>1 DEF TypeOK
<1>3. CASE ReplayMain \/ ReplaySecond
  <2>1. PICK batch \in {main, second} : Replay(batch) BY <1>3 DEF ReplayMain, ReplaySecond
  <2>2. batch \in Batch BY DEF TypeOK
  <2> QED BY <1>1, <2>1, <2>2, Replays
<1>4. ASSUME NEW d \in Destinations, NEW t \in tasks[d], Begin(d, t) PROVE OnRecord'
  <2>1. CASE t.msg \in archive[d] BY <1>1, <1>4, <2>1 DEF Begin
  <2>2. CASE t.msg \notin archive[d]
    <3>1. t.msg \in Messages BY DeliveryAssumption DEF TypeOK, AnyTask, Messages
    <3>2. reads[d][t.msg] = <<>> BY <2>2, <3>1 DEF OnRecord
    <3>3. /\ archive' = [archive EXCEPT ![d] = archive[d] \cup {t.msg}]
          /\ reads' = [reads EXCEPT ![d] = [reads[d] EXCEPT ![t.msg] = Append(reads[d][t.msg], t.backfill)]]
      BY <1>4, <2>2 DEF Begin
    <3>4. reads[d] \in [Messages -> Seq(BOOLEAN)] BY DEF TypeOK
    <3>5. reads'[d][t.msg] = <<t.backfill>> /\ t.msg \in archive'[d] BY <3>1, <3>2, <3>3, <3>4 DEF TypeOK
    <3>6. Len(reads'[d][t.msg]) <= 1 BY <3>5
    <3>7. ASSUME NEW e \in Destinations, NEW m \in Messages, e # d \/ m # t.msg
          PROVE  reads'[e][m] = reads[e][m] /\ archive[e] \subseteq archive'[e]
      BY <3>3, <3>4, <3>7 DEF TypeOK
    <3> QED BY <3>5, <3>6, <3>7 DEF OnRecord
  <2> QED BY <2>1, <2>2
<1>5. ASSUME \/ Channel \/ Start \/ MarkMain \/ SecondPass \/ MarkSecond \/ Reconnect \/ ListenerCrash
             \/ \E m \in Messages : Handle(m) \/ MarkHandled(m)
             \/ \E d \in Destinations : ApiCrash(d)
             \/ UNCHANGED vars
      PROVE  OnRecord'
  BY <1>1, <1>5
  DEF Channel, Publish, Disconnect, Start, MarkMain, SecondPass, MarkSecond, Reconnect, ListenerCrash,
      Handle, MarkHandled, ApiCrash, vars, api
<1> QED BY <1>2, <1>3, <1>4, <1>5 DEF Next, Listener, Api

(* However often a message is posted, retried, replayed and collected again,   *)
(* a destination reads it once: INSERT OR IGNORE and the check of its outcome  *)
(* (_insert_message, ingest).                                                  *)
THEOREM ReadsOnce == Spec => []ReadOnce
<1>1. Init => OnRecord BY DEF Init, OnRecord
<1>2. TypeOK /\ OnRecord /\ [Next]_vars => OnRecord' BY RecordKept
<1>3. OnRecord => ReadOnce BY DEF OnRecord, ReadOnce
<1> QED BY <1>1, <1>2, <1>3, TypeCorrect, PTL DEF Spec

-----------------------------------------------------------------------------
(* Replayed, not read as live. *)

(* The messages of a handler, while it works. *)
LEMMA HeldKept ==
  ASSUME TypeOK, Held, SeenPast, [Next]_vars
  PROVE  Held'
<1>1. CASE Publish
  <2>1. /\ posted' = posted + 1 /\ posted' \in Messages /\ posted' > History
        /\ \A m \in missed : m # posted'
        /\ \A m \in Messages : hands[m] # "none" => m # posted'
    BY <1>1, DeliveryAssumption DEF Publish, TypeOK, Messages
  <2>2. \/ hands' = [hands EXCEPT ![posted'] = "held"] /\ missed' = missed
        \/ hands' = hands /\ missed' = missed \cup {posted'}
    BY <1>1, <2>1 DEF Publish
  <2> QED BY <2>1, <2>2 DEF Held, TypeOK
<1>2. ASSUME NEW m \in Messages, Handle(m) \/ MarkHandled(m) PROVE Held'
  <2>1. /\ hands[m] # "none" /\ missed' = missed
        /\ \E h \in {"none", "mark"} : hands' = [hands EXCEPT ![m] = h]
    BY <1>2 DEF Handle, MarkHandled
  <2> QED BY <2>1 DEF Held, TypeOK
<1>3. CASE ListenerCrash BY <1>3 DEF ListenerCrash, Held
<1>4. ASSUME NEW batch \in {main, second}, Replay(batch) PROVE Held'
  BY <1>4 DEF Replay, ReplayAs, Held
<1>5. ASSUME \/ Disconnect \/ Start \/ Collect \/ MarkMain \/ SecondPass \/ MarkSecond \/ Reconnect
             \/ \E d \in Destinations : Api(d) \/ ApiCrash(d)
             \/ UNCHANGED vars
      PROVE  Held'
  <2>1. UNCHANGED <<hands, missed>>
    BY <1>5
    DEF Disconnect, Start, Collect, MarkMain, SecondPass, MarkSecond, Reconnect, Api, Begin, ApiCrash, vars, lsn
  <2> QED BY <2>1 DEF Held
<1> QED BY <1>1, <1>2, <1>3, <1>4, <1>5 DEF Next, Channel, Listener, ReplayMain, ReplaySecond

(* Only a handler posts a message as a live one, and then it is no longer      *)
(* held and was not missed.                                                    *)
LEMMA NotLiveKept ==
  ASSUME TypeOK, OnRecord, Held, NotLive, [Next]_vars
  PROVE  NotLive'
<1>1. CASE Publish
  <2>1. posted' = posted + 1 /\ \A m \in Messages : m # posted' => hands'[m] = hands[m]
    BY <1>1 DEF Publish, TypeOK
  <2>2. UNCHANGED <<tasks, reads>> /\ missed' \subseteq missed \cup {posted'}
    BY <1>1, <2>1 DEF Publish, api
  <2>3. \A d \in Destinations : \A t \in tasks[d] : t.msg # posted'
    BY <2>1, DeliveryAssumption DEF TypeOK, AnyTask
  <2>4. posted' \in Messages => \A d \in Destinations : reads[d][posted'] = <<>>
    BY <2>1, DeliveryAssumption DEF OnRecord, TypeOK
  <2>5. ASSUME NEW m \in Messages, NEW d \in Destinations, m \in missed' \/ hands'[m] = "held"
        PROVE  /\ \A t \in tasks'[d] : t.msg = m => t.backfill
               /\ \A i \in DOMAIN reads'[d][m] : reads'[d][m][i]
    <3>1. CASE m = posted' BY <2>2, <2>3, <2>4, <3>1
    <3>2. CASE m # posted' BY <2>1, <2>2, <2>5, <3>2 DEF NotLive
    <3> QED BY <3>1, <3>2
  <2> QED BY <2>5 DEF NotLive
<1>2. ASSUME NEW m \in Messages, Handle(m) PROVE NotLive'
  <2>1. m \in 1 .. posted /\ m \notin missed BY <1>2 DEF Handle, Held, TypeOK
  <2>2. Adds(m, FALSE) BY <1>2, <2>1, PostAdds, PostLegAdds DEF Handle, Destinations
  <2>3. UNCHANGED <<reads, missed>> /\ \A k \in Messages : hands'[k] = "held" => hands[k] = "held" /\ k # m
    BY <1>2 DEF Handle, TypeOK
  <2> QED BY <2>1, <2>2, <2>3 DEF NotLive, Adds
<1>3. CASE ListenerCrash
  <2>1. UNCHANGED <<tasks, reads>> /\ \A m \in Messages : hands'[m] = "none" BY <1>3 DEF ListenerCrash, api
  <2>2. \A m \in missed' : m \in missed \/ hands[m] = "held" BY <1>3 DEF ListenerCrash
  <2> QED BY <2>1, <2>2 DEF NotLive
<1>4. ASSUME NEW batch \in {main, second}, Replay(batch) PROVE NotLive'
  <2>1. batch \in Batch BY DEF TypeOK
  <2>2. UNCHANGED <<hands, reads, missed>> /\ \E m \in batch.todo : Adds(m, TRUE) BY <1>4, <2>1, Replays
  <2> QED BY <2>2 DEF NotLive, Adds
<1>5. ASSUME NEW d \in Destinations, NEW t \in tasks[d], Begin(d, t) PROVE NotLive'
  <2>1. /\ UNCHANGED <<hands, missed>> /\ tasks' = [tasks EXCEPT ![d] = tasks[d] \ {t}]
        /\ \/ reads' = reads
           \/ reads' = [reads EXCEPT ![d] = [reads[d] EXCEPT ![t.msg] = Append(reads[d][t.msg], t.backfill)]]
    BY <1>5 DEF Begin, lsn
  <2>2. ASSUME NEW m \in Messages, NEW e \in Destinations, m \in missed \/ hands[m] = "held"
        PROVE  \A i \in DOMAIN reads'[e][m] : reads'[e][m][i]
    <3>1. \A i \in DOMAIN reads[e][m] : reads[e][m][i] BY <2>2 DEF NotLive
    <3>2. CASE reads'[e][m] = reads[e][m] BY <3>1, <3>2
    <3>3. CASE reads'[e][m] # reads[e][m]
      <4>1. reads[e] \in [Messages -> Seq(BOOLEAN)] /\ reads[e][m] \in Seq(BOOLEAN) BY DEF TypeOK
      <4>2. e = d /\ m = t.msg /\ reads'[e][m] = Append(reads[e][m], t.backfill)
        BY <2>1, <3>3, <4>1 DEF TypeOK
      <4>3. t.backfill BY <2>2, <4>2 DEF NotLive
      <4>4. t.backfill = TRUE BY <4>3 DEF TypeOK, AnyTask
      <4>5. reads'[e][m] = Append(reads[e][m], TRUE) BY <4>2, <4>4
      <4> QED BY <3>1, <4>1, <4>5
    <3> QED BY <3>2, <3>3
  <2>3. \A e \in Destinations : tasks'[e] \subseteq tasks[e] BY <2>1 DEF TypeOK
  <2> QED BY <2>1, <2>2, <2>3 DEF NotLive
<1>6. ASSUME NEW d \in Destinations, ApiCrash(d) PROVE NotLive'
  <2>1. UNCHANGED <<hands, missed, reads>> /\ tasks' = [tasks EXCEPT ![d] = {}] BY <1>6 DEF ApiCrash, lsn
  <2> QED BY <2>1 DEF NotLive, TypeOK
<1>7. ASSUME NEW m \in Messages, MarkHandled(m) PROVE NotLive'
  BY <1>7 DEF MarkHandled, NotLive, TypeOK, api
<1>8. ASSUME \/ Disconnect \/ Start \/ Collect \/ MarkMain \/ SecondPass \/ MarkSecond \/ Reconnect
             \/ UNCHANGED vars
      PROVE  NotLive'
  <2>1. UNCHANGED <<hands, missed, tasks, reads>>
    BY <1>8 DEF Disconnect, Start, Collect, MarkMain, SecondPass, MarkSecond, Reconnect, vars, lsn, api
  <2> QED BY <2>1 DEF NotLive
<1> QED
  BY <1>1, <1>2, <1>3, <1>4, <1>5, <1>6, <1>7, <1>8
  DEF Next, Channel, Listener, ReplayMain, ReplaySecond, Api

(* last_seen moves back and forth, but never behind the first launch. *)
LEMMA SeenKept ==
  ASSUME TypeOK, Held, SeenPast, [Next]_vars
  PROVE  SeenPast'
<1>0. /\ posted \in Nat /\ History \in Nat /\ posted >= History /\ seen \in Nat
      /\ main.upto \in Nat /\ main.from \in Nat /\ second.upto \in Nat
  BY DeliveryAssumption DEF TypeOK, Batch
<1>1. Idle.upto = 0 /\ Idle.from = 0 BY DEF Idle
<1>2. CASE Start
  <2>1. main'.from = seen /\ main'.upto = 0 BY <1>2 DEF Start, Idle
  <2>2. phase' = "connected" /\ UNCHANGED <<second, seen>> BY <1>2 DEF Start
  <2> QED BY <1>0, <2>1, <2>2 DEF SeenPast, Past
<1>3. CASE Collect
  <2>1. PICK n \in aged .. posted : \/ main.from = 0 /\ main' = [Collected(0, n) EXCEPT !.todo = {}]
                                    \/ main.from # 0 /\ main' = Collected(main.from, n)
    BY <1>3 DEF Collect
  <2>2. phase = "connected" /\ phase' = "catchup" /\ UNCHANGED <<second, seen>> BY <1>3 DEF Collect
  <2>3. main'.from = 0 /\ main'.upto = IF posted > main.from THEN posted ELSE 0
    <3>1. CASE main.from = 0
      <4>1. main' = [Collected(0, n) EXCEPT !.todo = {}] BY <2>1, <3>1
      <4>2. Collected(0, n).from = 0 /\ Collected(0, n).upto = IF posted > 0 THEN posted ELSE 0
        BY <1>0, CollectedBatch
      <4>3. main'.from = Collected(0, n).from /\ main'.upto = Collected(0, n).upto BY <4>1 DEF Collected
      <4> QED BY <3>1, <4>2, <4>3
    <3>2. CASE main.from # 0
      <4>1. main' = Collected(main.from, n) BY <2>1, <3>2
      <4> QED BY <4>1 DEF Collected
    <3> QED BY <3>1, <3>2
  <2> QED BY <1>0, <2>1, <2>2, <2>3 DEF SeenPast, Past
<1>4. CASE MarkMain
  <2>1. main' = Idle /\ seen' = IF main.upto = 0 THEN seen ELSE main.upto BY <1>4 DEF MarkMain, AfterBatch
  <2>2. /\ second' = second /\ phase \in {"catchup", "live", "settled"}
        /\ phase' = IF phase = "catchup" THEN IF kind = "single" THEN "live" ELSE "settled" ELSE phase
    BY <1>4 DEF MarkMain
  <2>3. seen' >= History BY <1>0, <2>1, <2>2 DEF SeenPast, Past
  <2>4. phase' # "connected" /\ phase' # "catchup" BY <2>2
  <2> QED BY <1>0, <1>1, <2>1, <2>2, <2>3, <2>4 DEF SeenPast, Past
<1>5. CASE SecondPass
  <2>1. PICK n \in aged .. posted : second' \in {Collected(seen, n), Idle} BY <1>5 DEF SecondPass
  <2>2. Past(second'.upto) BY <1>0, <1>1, <2>1 DEF Collected, Past
  <2>3. phase = "live" /\ phase' = "settled" /\ UNCHANGED <<main, seen>> BY <1>5 DEF SecondPass
  <2> QED BY <2>2, <2>3 DEF SeenPast
<1>6. CASE MarkSecond
  <2>1. second' = Idle /\ seen' = second.upto /\ second.upto > 0 /\ UNCHANGED <<phase, main>>
    BY <1>6 DEF MarkSecond, AfterBatch
  <2> QED BY <1>0, <1>1, <2>1 DEF SeenPast, Past
<1>7. CASE Reconnect
  <2>1. PICK n \in aged .. posted : main' \in {Collected(seen, n), Idle} BY <1>7 DEF Reconnect
  <2>2. Past(main'.upto) /\ main'.from = 0 BY <1>0, <1>1, <2>1 DEF Collected, Past
  <2>3. phase \in {"live", "settled"} /\ phase' = phase /\ UNCHANGED <<second, seen>> BY <1>7 DEF Reconnect
  <2> QED BY <2>2, <2>3 DEF SeenPast, Past
<1>8. ASSUME NEW m \in Messages, MarkHandled(m) PROVE SeenPast'
  <2>1. seen' = m /\ hands[m] # "none" /\ UNCHANGED <<phase, main, second>> BY <1>8 DEF MarkHandled
  <2>2. m \in Nat /\ m > History BY <2>1, DeliveryAssumption DEF Held, Messages
  <2> QED BY <1>0, <2>1, <2>2 DEF SeenPast, Past
<1>9. CASE ListenerCrash
  <2>1. phase' = "off" /\ main' = Idle /\ second' = Idle /\ seen' = seen BY <1>9 DEF ListenerCrash
  <2> QED BY <1>1, <2>1 DEF SeenPast, Past
<1>10. CASE ReplayMain \/ ReplaySecond
  <2>1. UNCHANGED <<phase, seen>> /\ (main' \in {main, Rest(main)}) /\ (second' \in {second, Rest(second)})
    BY <1>10 DEF ReplayMain, ReplaySecond, Replay, ReplayAs
  <2>2. main \in Batch /\ second \in Batch BY DEF TypeOK
  <2>3. main'.upto = main.upto /\ main'.from = main.from /\ second'.upto = second.upto
    BY <2>1, <2>2, RestBatch
  <2> QED BY <2>1, <2>3 DEF SeenPast
<1>11. ASSUME \/ Channel \/ (\E m \in Messages : Handle(m)) \/ UNCHANGED vars
              \/ \E d \in Destinations : Api(d) \/ ApiCrash(d)
       PROVE  SeenPast'
  <2>1. UNCHANGED <<phase, seen, main, second>>
    BY <1>11 DEF Channel, Publish, Disconnect, Handle, Api, Begin, ApiCrash, vars, lsn
  <2> QED BY <2>1 DEF SeenPast
<1> QED
  BY <1>2, <1>3, <1>4, <1>5, <1>6, <1>7, <1>8, <1>9, <1>10, <1>11 DEF Next, Listener

(* What the first launch found is in no batch, with no API and not read. *)
LEMMA RecentKept ==
  ASSUME TypeOK, OnRecord, Held, SeenPast, Recent, [Next]_vars
  PROVE  Recent'
<1>0. posted \in Nat /\ History \in Nat /\ seen \in 0 .. posted /\ main.from \in 0 .. posted
  BY DeliveryAssumption DEF TypeOK, Batch
<1>1. Idle.todo = {} BY DEF Idle
<1>2. CASE Collect
  <2>1. PICK n \in aged .. posted : \/ main.from = 0 /\ main' = [Collected(0, n) EXCEPT !.todo = {}]
                                    \/ main.from # 0 /\ main' = Collected(main.from, n)
    BY <1>2 DEF Collect
  <2>2. main.from # 0 => main.from >= History BY DEF SeenPast, Past
  <2>3. \A m \in main'.todo : m > History
    <3>1. CASE main.from = 0 BY <2>1, <3>1 DEF Collected
    <3>2. CASE main.from # 0
      <4>1. main' = Collected(main.from, n) BY <2>1, <3>2
      <4>2. \A m \in main'.todo : m > main.from /\ m \in 1 .. posted BY <1>0, <4>1, CollectedBatch DEF Batch
      <4> QED BY <1>0, <2>2, <3>2, <4>2
    <3> QED BY <3>1, <3>2
  <2>4. UNCHANGED <<second, tasks, reads>> BY <1>2 DEF Collect
  <2> QED BY <2>3, <2>4 DEF Recent
<1>3. ASSUME NEW n \in aged .. posted, phase \in {"live", "settled"}
      PROVE  \A m \in Collected(seen, n).todo : m > History
  <2>1. seen >= History BY <1>3 DEF SeenPast
  <2>2. \A m \in Collected(seen, n).todo : m > seen /\ m \in 1 .. posted BY <1>0, CollectedBatch DEF Batch
  <2> QED BY <1>0, <2>1, <2>2
<1>4. CASE SecondPass
  <2>1. PICK n \in aged .. posted : second' \in {Collected(seen, n), Idle} BY <1>4 DEF SecondPass
  <2>2. phase = "live" /\ UNCHANGED <<main, tasks, reads>> BY <1>4 DEF SecondPass, api
  <2> QED BY <1>1, <1>3, <2>1, <2>2 DEF Recent
<1>5. CASE Reconnect
  <2>1. PICK n \in aged .. posted : main' \in {Collected(seen, n), Idle} BY <1>5 DEF Reconnect
  <2>2. phase \in {"live", "settled"} /\ UNCHANGED <<second, tasks, reads>> BY <1>5 DEF Reconnect, api
  <2> QED BY <1>1, <1>3, <2>1, <2>2 DEF Recent
<1>6. CASE ReplayMain \/ ReplaySecond
  <2>1. PICK batch \in {main, second} :
          Replay(batch) /\ \/ main' = Rest(batch) /\ second' = second /\ batch = main
                           \/ main' = main /\ second' = Rest(batch) /\ batch = second
    BY <1>6 DEF ReplayMain, ReplaySecond
  <2>2. batch \in Batch BY DEF TypeOK
  <2>3. PICK m \in batch.todo : Adds(m, TRUE) /\ reads' = reads BY <2>1, <2>2, Replays
  <2>4. Rest(batch).todo \subseteq batch.todo BY <2>2, RestBatch
  <2>5. \A b \in {main', second'} : \A k \in b.todo : k > History BY <2>1, <2>4 DEF Recent
  <2>6. \A d \in Destinations : \A t \in tasks'[d] : t.msg > History BY <2>3 DEF Recent, Adds
  <2> QED BY <2>3, <2>5, <2>6 DEF Recent
<1>7. ASSUME NEW m \in Messages, Handle(m) PROVE Recent'
  <2>1. m \in 1 .. posted /\ m > History BY <1>7 DEF Handle, Held, TypeOK
  <2>2. Adds(m, FALSE) BY <1>7, <2>1, PostAdds, PostLegAdds DEF Handle, Destinations
  <2>3. UNCHANGED <<main, second, reads>> BY <1>7 DEF Handle
  <2> QED BY <2>1, <2>2, <2>3 DEF Recent, Adds
<1>8. ASSUME NEW d \in Destinations, NEW t \in tasks[d], Begin(d, t) PROVE Recent'
  <2>1. /\ UNCHANGED <<main, second>> /\ tasks' = [tasks EXCEPT ![d] = tasks[d] \ {t}]
        /\ \/ reads' = reads
           \/ reads' = [reads EXCEPT ![d] = [reads[d] EXCEPT ![t.msg] = Append(reads[d][t.msg], t.backfill)]]
    BY <1>8 DEF Begin, lsn
  <2>2. \A e \in Destinations : tasks'[e] \subseteq tasks[e] BY <2>1 DEF TypeOK
  <2>3. \A e \in Destinations, m \in Messages : reads'[e][m] = reads[e][m] \/ m = t.msg
    <3>1. reads \in [Destinations -> [Messages -> Seq(BOOLEAN)]] /\ DOMAIN reads[d] = Messages BY DEF TypeOK
    <3> DEFINE mine == [reads[d] EXCEPT ![t.msg] = Append(reads[d][t.msg], t.backfill)]
    <3>2. \A m \in Messages : m # t.msg => mine[m] = reads[d][m] BY <3>1
    <3>3. reads' = reads \/ reads' = [reads EXCEPT ![d] = mine] BY <2>1
    <3> HIDE DEF mine
    <3> QED BY <3>1, <3>2, <3>3
  <2>4. t.msg > History BY DEF Recent
  <2> QED BY <2>1, <2>2, <2>3, <2>4 DEF Recent
<1>9. ASSUME NEW d \in Destinations, ApiCrash(d) PROVE Recent'
  <2>1. UNCHANGED <<main, second, reads>> /\ tasks' = [tasks EXCEPT ![d] = {}] BY <1>9 DEF ApiCrash, lsn
  <2> QED BY <2>1 DEF Recent, TypeOK
<1>10. CASE Start
  <2>1. main'.todo = {} /\ UNCHANGED <<second, tasks, reads>> BY <1>10 DEF Start, Idle, api
  <2> QED BY <2>1 DEF Recent
<1>11. CASE MarkMain
  <2>1. main' = Idle /\ UNCHANGED <<second, tasks, reads>> BY <1>11 DEF MarkMain, api
  <2> QED BY <1>1, <2>1 DEF Recent
<1>12. CASE MarkSecond
  <2>1. second' = Idle /\ UNCHANGED <<main, tasks, reads>> BY <1>12 DEF MarkSecond, api
  <2> QED BY <1>1, <2>1 DEF Recent
<1>13. CASE ListenerCrash
  <2>1. main' = Idle /\ second' = Idle /\ UNCHANGED <<tasks, reads>> BY <1>13 DEF ListenerCrash, api
  <2> QED BY <1>1, <2>1 DEF Recent
<1>14. ASSUME Channel \/ (\E m \in Messages : MarkHandled(m)) \/ UNCHANGED vars PROVE Recent'
  <2>1. UNCHANGED <<main, second, tasks, reads>>
    BY <1>14 DEF Channel, Publish, Disconnect, MarkHandled, vars, lsn, api
  <2> QED BY <2>1 DEF Recent
<1> QED
  BY <1>2, <1>4, <1>5, <1>6, <1>7, <1>8, <1>9, <1>10, <1>11, <1>12, <1>13, <1>14
  DEF Next, Listener, Api

(* What was posted while nobody listened is read as a replay only, whichever   *)
(* way it is recovered and whatever fails, and nothing from before the first   *)
(* launch is read (_backfill_channel_on_startup, _second_pass_catchup, the     *)
(* supervisor loop, and last_seen_tg_msg_id which they share).                 *)
THEOREM MissedReplayed == Spec => []MissedIsReplayed
<1>1. Init => OnRecord /\ Held /\ NotLive /\ SeenPast /\ Recent
  <2> SUFFICES ASSUME Init PROVE OnRecord /\ Held /\ NotLive /\ SeenPast /\ Recent OBVIOUS
  <2>1. Idle.todo = {} /\ Idle.upto = 0 /\ Idle.from = 0 BY DEF Idle
  <2>2. OnRecord BY DEF Init, OnRecord
  <2>3. SeenPast BY <2>1 DEF Init, SeenPast, Past
  <2>4. /\ \A m \in Messages : hands[m] = "none"
        /\ \A d \in Destinations : tasks[d] = {}
        /\ \A d \in Destinations, m \in Messages : reads[d][m] = <<>>
    BY DEF Init
  <2>5. Held BY <2>4 DEF Held
  <2>6. NotLive BY <2>4 DEF NotLive
  <2>7. Recent BY <2>1, <2>4 DEF Init, Recent
  <2> QED BY <2>2, <2>3, <2>5, <2>6, <2>7
<1>2. TypeOK /\ OnRecord /\ Held /\ NotLive /\ SeenPast /\ Recent /\ [Next]_vars
        => Held' /\ NotLive' /\ SeenPast' /\ Recent'
  BY HeldKept, NotLiveKept, SeenKept, RecentKept
<1>3. TypeOK /\ NotLive /\ Recent => MissedIsReplayed
  <2> SUFFICES ASSUME TypeOK, NotLive, Recent,
                      NEW d \in Destinations, NEW m \in missed, NEW i \in DOMAIN reads[d][m]
               PROVE  reads[d][m][i] /\ m > History
    BY DEF MissedIsReplayed
  <2>1. m \in Messages BY DeliveryAssumption DEF TypeOK, Messages
  <2>2. reads[d][m] # <<>> OBVIOUS
  <2> QED BY <2>1, <2>2 DEF NotLive, Recent
<1>4. Spec => []OnRecord
  <2>1. TypeOK /\ OnRecord /\ [Next]_vars => OnRecord' BY RecordKept
  <2> QED BY <1>1, <2>1, TypeCorrect, PTL DEF Spec
<1> QED BY <1>1, <1>2, <1>3, <1>4, TypeCorrect, PTL DEF Spec
=============================================================================
