-------------------------- MODULE TradeDeskProofs --------------------------
(***************************************************************************)
(* What TradeDesk guarantees for any number of rows and requests, proved   *)
(* with TLAPS.                                                             *)
(***************************************************************************)
EXTENDS TradeDesk, TLAPS

-----------------------------------------------------------------------------
(* The invariant. *)

(* One thread at a time is between BEGIN and COMMIT, and then a table is saved. *)
InTx(r) == At(r).step \in {"write", "book", "commit"}

OneTransaction ==
  \A r \in Threads : InTx(r) => saved # NULL /\ \A s \in Threads : InTx(s) => r = s

(* Only the row the EA's open transaction is about to book is not whole, and   *)
(* only in the table of that transaction.                                      *)
Whole(t, a) == t[a].status = "executed" => t[a].booked

Booking ==
  \A a \in Id : /\ saved # NULL => Whole(saved, a)
                /\ Whole(rows, a) \/ (ea.step = "book" /\ ea.id = a)

(* A request that is not done has written nothing others can read, and nothing *)
(* at all before its own transaction has.                                      *)
Marks(t, r) == \E a \in Id : t[a].by = r \/ t[a].lot = r

Unseen ==
  \A r \in Req : req[r].step # "done" =>
    ~Marks(Committed, r) /\ \A w \in workers : w.step = "merge" => w.read[2] # r

Unwritten == \A r \in Req : req[r].step \notin {"commit", "done"} => ~Marks(rows, r)

DeskInv == TypeOK /\ OneTransaction /\ Booking /\ Unseen /\ Unwritten

-----------------------------------------------------------------------------
(* Types. *)

(* A step of a request, and its answer, are requests again. *)
LEMMA RequestTyped ==
  ASSUME NEW E, "none" \in E, NEW q \in Request(E), NEW s \in Steps
  PROVE  /\ [q EXCEPT !.step = s] \in Request(E)
         /\ [NoRequest EXCEPT !.op = q.op, !.id = q.id, !.step = s] \in Request(E)
         /\ NoRequest \in Request(E)
BY DEF Request, NoRequest, Lot, Status, Steps

(* The thread, whichever it is, has moved on. *)
LEMMA GoesType ==
  ASSUME TypeOK, NEW r \in Threads, NEW s \in Steps, Goes(r, s), At(r).step \in {"begin", "write", "book", "commit"}
  PROVE  /\ req' \in [Req -> Request(Eval)] /\ ea' \in Request(Eval \cup {"late"})
         /\ ea'.step \in {"begin", "write", "book", "commit"} => ea'.op = "result" /\ ea'.id \in Id
<1> USE DEF TypeOK, Goes, To, At, Threads
<1>1. CASE r = NULL
  <2>1. ea' = [ea EXCEPT !.step = s] /\ req' = req BY <1>1
  <2>2. ea' \in Request(Eval \cup {"late"}) BY <2>1, RequestTyped DEF Eval
  <2>3. ea'.op = ea.op /\ ea'.id = ea.id BY <2>1 DEF Request
  <2> QED BY <1>1, <2>1, <2>2, <2>3
<1>2. CASE r # NULL
  <2>1. r \in Req /\ ea' = ea /\ req' = [req EXCEPT ![r] = [req[r] EXCEPT !.step = s]] BY <1>2
  <2>2. [req[r] EXCEPT !.step = s] \in Request(Eval) BY <2>1, RequestTyped DEF Eval
  <2> QED BY <2>1, <2>2
<1> QED BY <1>1, <1>2

(* The thread, whichever it is, has its answer. *)
LEMMA AnsweredType ==
  ASSUME TypeOK, NEW r \in Threads, NEW s \in Steps, Answered(r, s), At(r).step \in {"begin", "write", "book", "commit"}
  PROVE  /\ req' \in [Req -> Request(Eval)] /\ ea' \in Request(Eval \cup {"late"})
         /\ ea'.step \in {"begin", "write", "book", "commit"} => ea'.op = "result" /\ ea'.id \in Id
         /\ unsent' \subseteq Id \X Status
<1> USE DEF TypeOK, Answered, To, At, Threads
<1>1. CASE r = NULL
  <2>1. ea' = NoRequest /\ req' = req BY <1>1
  <2>2. ea' \in Request(Eval \cup {"late"}) BY <2>1, RequestTyped DEF Eval
  <2>3. ea'.step = "idle" BY <2>1 DEF NoRequest
  <2>4. unsent' \subseteq Id \X Status BY <1>1 DEF Request
  <2> QED BY <2>1, <2>2, <2>3, <2>4
<1>2. CASE r # NULL
  <2> DEFINE answer == [NoRequest EXCEPT !.op = req[r].op, !.id = req[r].id, !.step = s]
  <2>1. r \in Req /\ ea' = ea /\ unsent' = unsent /\ req' = [req EXCEPT ![r] = answer] BY <1>2
  <2>2. answer \in Request(Eval) BY <2>1, RequestTyped DEF Eval
  <2> HIDE DEF answer
  <2> QED BY <2>1, <2>2
<1> QED BY <1>1, <1>2

(* A transaction begins, ends or fails. *)
LEMMA TransactionType == ASSUME TypeOK, Transaction PROVE TypeOK'
<1>1. ASSUME NEW r \in Threads, Begin(r) PROVE TypeOK'
  BY <1>1, GoesType, AnsweredType DEF Begin, TypeOK, Steps
<1>2. ASSUME NEW r \in Threads, Commit(r) PROVE TypeOK'
  <2>1. workers' \in {workers, workers \cup Kicked(r)} BY <1>2 DEF Commit
  <2>2. At(r).step = "commit" BY <1>2 DEF Commit
  <2>3. \A w \in Kicked(r) : w \in [id : Id, src : {"signal", "fill"}, step : {"judge"}, read : {NULL}]
    BY <2>2 DEF Kicked, Worker, TypeOK, At
  <2>4. /\ workers' \subseteq [id : Id, src : {"signal", "fill"}, step : {"judge", "merge"},
                               read : (Nat \X Lot) \cup {NULL}]
        /\ \A w \in workers' : w.step = "merge" => w.read \in Nat \X Lot
    BY <2>1, <2>3 DEF TypeOK
  <2> QED BY <1>2, <2>4, AnsweredType DEF Commit, TypeOK, Steps
<1>3. ASSUME NEW r \in Threads, Fail(r) PROVE TypeOK'
  <2>1. rows' \in [Id -> Row] /\ saved' = NULL BY <1>3 DEF Fail, Committed, TypeOK
  <2>2. fails' \in 0 .. MaxFail BY <1>3, DeskAssumption DEF Fail, TypeOK
  <2>3. Answered(r, "error") /\ At(r).step \in {"begin", "write", "book", "commit"} BY <1>3 DEF Fail
  <2> QED BY <1>3, <2>1, <2>2, <2>3, AnsweredType DEF Fail, TypeOK, Steps
<1> QED BY <1>1, <1>2, <1>3 DEF Transaction

(* Rows with one field changed are rows. *)
LEMMA RowTyped ==
  ASSUME NEW q \in Row
  PROVE  /\ \A s \in Status : [q EXCEPT !.status = s] \in Row
         /\ [q EXCEPT !.booked = TRUE] \in Row
         /\ \A e \in Eval, n \in Nat, l \in Lot : [q EXCEPT !.eval = e, !.seq = n, !.lot = l] \in Row
BY DEF Row

LEMMA NewRowTyped ==
  ASSUME NEW b \in Lot \cup {"signal"}
  PROVE  [Absent EXCEPT !.status = "sent", !.by = b] \in Row
BY DEF Absent, Row, Status, Eval, Lot

LEMMA OperatorType == ASSUME TypeOK, Operator PROVE TypeOK'
<1> USE DEF TypeOK, trading
<1>1. ASSUME NEW r \in Req, AskManual(r) PROVE TypeOK'
  <2>1. [NoRequest EXCEPT !.op = "manual", !.step = "begin"] \in Request(Eval)
    BY DEF NoRequest, Request, Lot, Status, Eval, Steps
  <2> QED BY <1>1, <2>1 DEF AskManual
<1>2. ASSUME NEW r \in Req, InsertManual(r) PROVE TypeOK'
  <2>1. PICK a \in Id : /\ rows' = [rows EXCEPT ![a] = [Absent EXCEPT !.status = "sent", !.by = r]]
                        /\ req' = [req EXCEPT ![r] = [req[r] EXCEPT !.id = a, !.step = "commit"]]
    BY <1>2 DEF InsertManual
  <2>2. [req[r] EXCEPT !.id = a, !.step = "commit"] \in Request(Eval) BY DEF Request, Steps
  <2>3. [Absent EXCEPT !.status = "sent", !.by = r] \in Row BY NewRowTyped DEF Lot
  <2> QED BY <1>2, <2>1, <2>2, <2>3 DEF InsertManual
<1>3. ASSUME NEW r \in Req, NEW a \in Id, AskResize(r, a) PROVE TypeOK'
  <2> DEFINE q == [NoRequest EXCEPT !.op = "resize", !.id = a, !.step = "begin",
                                    !.seq = rows[a].seq, !.eval = rows[a].eval]
  <2>1. rows[a].seq \in Nat /\ rows[a].eval \in Eval BY DEF Row
  <2>2. q \in Request(Eval) BY <2>1 DEF NoRequest, Request, Lot, Status, Steps
  <2> HIDE DEF q
  <2>3. req' = [req EXCEPT ![r] = q] BY <1>3 DEF AskResize, q
  <2> QED BY <1>3, <2>2, <2>3 DEF AskResize
<1>4. ASSUME NEW r \in Req, Resize(r) PROVE TypeOK'
  <2> DEFINE a == req[r].id
             q == [rows[a] EXCEPT !.eval = req[r].eval, !.seq = req[r].seq + 1, !.lot = r]
  <2>1. rows' = [rows EXCEPT ![a] = q] /\ req' = [req EXCEPT ![r] = [req[r] EXCEPT !.step = "commit"]]
    BY <1>4 DEF Resize
  <2>2. req[r].eval \in Eval /\ req[r].seq + 1 \in Nat /\ r \in Lot BY DEF Request, Lot
  <2>3. a \in Id => q \in Row BY <2>2, RowTyped
  <2> HIDE DEF a, q
  <2>4. rows' \in [Id -> Row] BY <2>1, <2>3
  <2>5. [req[r] EXCEPT !.step = "commit"] \in Request(Eval) BY RequestTyped DEF Eval, Steps
  <2> QED BY <1>4, <2>1, <2>4, <2>5 DEF Resize
<1> QED BY <1>1, <1>2, <1>3, <1>4 DEF Operator

LEMMA EvaluatorType == ASSUME TypeOK, Evaluator PROVE TypeOK'
<1> USE DEF TypeOK, trading
<1>1. ASSUME NEW w \in workers, Judge(w) PROVE TypeOK'
  <2> DEFINE v == [w EXCEPT !.step = "merge", !.read = <<Committed[w.id].seq, Committed[w.id].lot>>]
  <2>1. Committed[w.id] \in Row BY DEF Committed
  <2>2. <<Committed[w.id].seq, Committed[w.id].lot>> \in Nat \X Lot BY <2>1 DEF Row
  <2>3. /\ v \in [id : Id, src : {"signal", "fill"}, step : {"judge", "merge"}, read : (Nat \X Lot) \cup {NULL}]
        /\ v.read \in Nat \X Lot
    BY <2>2
  <2>4. workers' \in {workers \ {w}, (workers \ {w}) \cup {v}} BY <1>1 DEF Judge
  <2> HIDE DEF v
  <2> QED BY <1>1, <2>3, <2>4 DEF Judge
<1>2. ASSUME NEW w \in workers, GiveUp(w) PROVE TypeOK'
  BY <1>2 DEF GiveUp
<1>3. ASSUME NEW w \in workers, Merge(w) PROVE TypeOK'
  <2> DEFINE Put(t) == IF t[w.id].status = "absent" THEN t
                       ELSE [t EXCEPT ![w.id] = [t[w.id] EXCEPT !.eval = w.src, !.seq = w.read[1], !.lot = w.read[2]]]
  <2>1. w.src \in Eval /\ w.read[1] \in Nat /\ w.read[2] \in Lot /\ w.id \in Id
    BY <1>3 DEF Merge, Eval
  <2>2. ASSUME NEW t \in [Id -> Row] PROVE Put(t) \in [Id -> Row]
    <3>1. [t[w.id] EXCEPT !.eval = w.src, !.seq = w.read[1], !.lot = w.read[2]] \in Row BY <2>1, RowTyped
    <3> QED BY <2>1, <3>1
  <2>3. rows' = Put(rows) /\ saved' = IF saved = NULL THEN NULL ELSE Put(saved) BY <1>3 DEF Merge
  <2> HIDE DEF Put
  <2>4. rows' \in [Id -> Row] /\ saved' \in [Id -> Row] \cup {NULL} BY <2>2, <2>3
  <2> QED BY <1>3, <2>4 DEF Merge
<1> QED BY <1>1, <1>2, <1>3 DEF Evaluator

LEMMA EaType == ASSUME TypeOK, Ea PROVE TypeOK'
<1> USE DEF TypeOK, trading
<1>1. ASSUME WriteResult PROVE TypeOK'
  <2>1. ea.step = "write" /\ ea.id \in Id /\ ea.status \in Status BY <1>1 DEF WriteResult, Request
  <2>2. rows' \in [Id -> Row]
    <3>1. [rows[ea.id] EXCEPT !.status = ea.status] \in Row BY <2>1, RowTyped
    <3> QED BY <1>1, <2>1, <3>1 DEF WriteResult
  <2>3. /\ req' = req
        /\ \/ \E s \in {"book", "commit"} : ea' = [ea EXCEPT !.step = s]
           \/ ea' = [ea EXCEPT !.step = "commit", !.eval = "late"]
    BY <1>1 DEF WriteResult, Goes, To, At
  <2>4. /\ ea' \in Request(Eval \cup {"late"}) /\ ea'.op = ea.op /\ ea'.id = ea.id
    BY <2>3 DEF Request, Steps
  <2> QED BY <1>1, <2>1, <2>2, <2>3, <2>4 DEF WriteResult
<1>2. ASSUME Book PROVE TypeOK'
  <2>1. ea.step = "book" /\ ea.id \in Id BY <1>2 DEF Book
  <2>2. rows' \in [Id -> Row]
    <3>1. [rows[ea.id] EXCEPT !.booked = TRUE] \in Row BY <2>1, RowTyped
    <3> QED BY <1>2, <2>1, <3>1 DEF Book
  <2>3. req' = req /\ ea' = [ea EXCEPT !.step = "commit"] BY <1>2 DEF Book, Goes, To, At
  <2>4. /\ ea' \in Request(Eval \cup {"late"}) /\ ea'.op = ea.op /\ ea'.id = ea.id
    BY <2>3 DEF Request, Steps
  <2> QED BY <1>2, <2>1, <2>2, <2>3, <2>4 DEF Book
<1>3. ASSUME NEW a \in Id, ClaimAndPlace(a) PROVE TypeOK'
  <2>1. [rows[a] EXCEPT !.status = "claimed"] \in Row BY RowTyped DEF Status
  <2>2. [NoOrder EXCEPT !.state = "live"] \in [state : {"none", "live", "filled", "gone"}, seq : Nat, lot : Lot]
    BY DEF NoOrder, Lot
  <2>3. claims[a] + 1 \in Nat OBVIOUS
  <2>4. unsent' \subseteq Id \X Status BY <1>3 DEF ClaimAndPlace, Status
  <2> HIDE DEF NoOrder
  <2> QED BY <1>3, <2>1, <2>2, <2>3, <2>4 DEF ClaimAndPlace
<1>4. ASSUME NEW a \in Id, Notice(a) PROVE TypeOK'
  <2>1. NoOrder \in [state : {"none", "live", "filled", "gone"}, seq : Nat, lot : Lot]
    BY DEF NoOrder, Lot
  <2>2. unsent' \subseteq Id \X Status BY <1>4 DEF Notice, Status
  <2>3. strays' \in [Id -> Nat] BY <1>4 DEF Notice
  <2> QED BY <1>4, <2>1, <2>2, <2>3 DEF Notice, Drop
<1>5. ASSUME NEW a \in Id, Poll(a) PROVE TypeOK'
  <2> DEFINE q == [NoRequest EXCEPT !.op = "poll", !.id = a, !.step = "act", !.seq = rows[a].seq,
                             !.status = rows[a].status, !.lot = rows[a].lot]
  <2>1. rows[a] \in Row OBVIOUS
  <2>2. q \in Request(Eval \cup {"late"}) /\ q.step = "act"
    BY <2>1 DEF NoRequest, Request, Row, Steps, Eval
  <2>3. ea' = q BY <1>5 DEF Poll
  <2> HIDE DEF q
  <2> QED BY <1>5, <2>2, <2>3 DEF Poll
<1>6. ASSUME NEW a \in Id, Replace(a) PROVE TypeOK'
  <2>1. NoOrder \in [state : {"none", "live", "filled", "gone"}, seq : Nat, lot : Lot]
    BY DEF NoOrder, Lot
  <2>2. ea.seq \in Nat /\ ea.lot \in Lot BY DEF Request
  <2>3. order' \in [Id -> [state : {"none", "live", "filled", "gone"}, seq : Nat, lot : Lot]]
    BY <1>6, <2>1, <2>2 DEF Replace, Drop
  <2>4. unsent' \subseteq Id \X Status BY <1>6 DEF Replace, Status
  <2>5. ea' \in Request(Eval \cup {"late"}) /\ ea'.step = "idle"
    BY <1>6, RequestTyped DEF Replace, Acts, NoRequest, Request, Lot, Status, Steps, Eval
  <2> QED BY <1>6, <2>3, <2>4, <2>5 DEF Replace
<1>7. ASSUME NEW a \in Id, Defer(a) PROVE TypeOK'
  <2>1. ea' \in Request(Eval \cup {"late"}) /\ ea'.step = "idle"
    BY <1>7 DEF Defer, Acts, NoRequest, Request, Lot, Status, Steps, Eval
  <2> QED BY <1>7, <2>1 DEF Defer
<1>8. ASSUME NEW a \in Id, Obey(a) PROVE TypeOK'
  <2>1. NoOrder \in [state : {"none", "live", "filled", "gone"}, seq : Nat, lot : Lot]
    BY DEF NoOrder, Lot
  <2>2. strays' \in [Id -> Nat] BY <1>8 DEF Obey
  <2>3. ea' \in Request(Eval \cup {"late"}) /\ ea'.step = "idle"
    BY <1>8 DEF Obey, Acts, NoRequest, Request, Lot, Status, Steps, Eval
  <2> QED BY <1>8, <2>1, <2>2, <2>3 DEF Obey, Drop
<1>9. ASSUME NEW a \in Id, NEW s \in {"watching", "executed", "failed", "rejected"}, Post(a, s) PROVE TypeOK'
  <2> DEFINE q == [NoRequest EXCEPT !.op = "result", !.id = a, !.step = "begin",
                                    !.status = s, !.eval = rows[a].eval]
  <2>1. rows[a].eval \in Eval BY DEF Row
  <2>2. q \in Request(Eval \cup {"late"}) /\ q.op = "result" /\ q.id \in Id
    BY <2>1 DEF NoRequest, Request, Steps, Status, Lot
  <2>3. ea' \in {ea, q} BY <1>9 DEF Post
  <2> HIDE DEF q
  <2> QED BY <1>9, <2>2, <2>3 DEF Post
<1> QED BY <1>1, <1>2, <1>3, <1>4, <1>5, <1>6, <1>7, <1>8, <1>9 DEF Ea

(* Every action keeps every variable in its domain. *)
THEOREM TypeCorrect == Spec => []TypeOK
<1>1. Init => TypeOK
  <2> SUFFICES ASSUME Init PROVE TypeOK OBVIOUS
  <2>1. Absent \in Row BY DEF Absent, Row, Status, Eval, Lot
  <2>2. NoRequest \in Request(Eval) /\ NoRequest \in Request(Eval \cup {"late"}) /\ NoRequest.step = "idle"
    BY RequestTyped DEF Eval, NoRequest, Request, Lot, Status, Steps
  <2>3. NoOrder \in [state : {"none", "live", "filled", "gone"}, seq : Nat, lot : Lot] BY DEF NoOrder, Lot
  <2> QED BY <2>1, <2>2, <2>3, DeskAssumption DEF Init, TypeOK
<1>2. TypeOK /\ [Next]_vars => TypeOK'
  <2> SUFFICES ASSUME TypeOK, [Next]_vars PROVE TypeOK' OBVIOUS
  <2>1. ASSUME NEW a \in Id, InsertSignal(a) PROVE TypeOK'
    <3>1. [Absent EXCEPT !.status = "sent", !.by = "signal"] \in Row BY NewRowTyped
    <3>2. Worker(a, "signal") \in [id : Id, src : {"signal", "fill"}, step : {"judge"}, read : {NULL}]
      BY DEF Worker
    <3> QED BY <2>1, <3>1, <3>2 DEF InsertSignal, TypeOK, trading
  <2>2. ASSUME NEW a \in Id, Broker(a) PROVE TypeOK'
    BY <2>2 DEF Broker, TypeOK
  <2>3. ASSUME CancelWatching PROVE TypeOK'
    <3>1. \A a \in Id : [rows[a] EXCEPT !.status = "rejected"] \in Row BY RowTyped DEF TypeOK, Status
    <3> QED BY <2>3, <3>1 DEF CancelWatching, TypeOK, trading
  <2>4. CASE UNCHANGED vars BY <2>4 DEF vars, TypeOK
  <2> QED BY <2>1, <2>2, <2>3, <2>4, OperatorType, TransactionType, EvaluatorType, EaType DEF Next
<1> QED BY <1>1, <1>2, PTL DEF Spec

-----------------------------------------------------------------------------
(* One order or position for each claim. *)

(* Only the EA and the broker change what a claim led to. *)
LEMMA ExposureKept == ASSUME ExposedOnce, UNCHANGED <<order, strays, claims>> PROVE ExposedOnce'
BY DEF ExposedOnce

(* Resizing never leaves a claimed action with two orders, or an order beside  *)
(* its position, whatever the fill, the resize and the answer of the broker    *)
(* do between the EA's poll and its action (PlacePendingLimit, resize).        *)
THEOREM OneOrderPerClaim == Spec => []ExposedOnce
<1>1. Init => ExposedOnce BY DEF Init, ExposedOnce, NoOrder
<1>2. TypeOK /\ ExposedOnce /\ [Next]_vars => ExposedOnce'
  <2> SUFFICES ASSUME TypeOK, ExposedOnce, [Next]_vars PROVE ExposedOnce' OBVIOUS
  <2> DEFINE Held(a) == IF order[a].state \in {"live", "filled"} THEN 1 ELSE 0
             Once(a) == strays[a] + Held(a) <= claims[a]
             Other(a) == \A b \in Id \ {a} : order'[b] = order[b] /\ strays'[b] = strays[b] /\ claims'[b] = claims[b]
  <2>0. \A a \in Id : strays[a] \in Nat /\ claims[a] \in Nat /\ Held(a) \in 0 .. 1 /\ Once(a)
    BY DEF TypeOK, ExposedOnce
  <2>A. ASSUME NEW a \in Id, Other(a), Once(a)' PROVE ExposedOnce'
    BY <2>0, <2>A DEF ExposedOnce
  <2>1. ASSUME NEW a \in Id, ClaimAndPlace(a) PROVE ExposedOnce'
    <3>1. /\ strays' = strays /\ claims'[a] = claims[a] + 1
          /\ order' = order \/ order' = [order EXCEPT ![a] = [NoOrder EXCEPT !.state = "live"]]
      BY <2>1 DEF ClaimAndPlace, TypeOK
    <3>2. Other(a) BY <2>1 DEF ClaimAndPlace, TypeOK
    <3>3. Held(a)' \in 0 .. 1 OBVIOUS
    <3> QED BY <2>0, <2>A, <3>1, <3>2, <3>3
  <2>2. ASSUME NEW a \in Id, Notice(a) PROVE ExposedOnce'
    <3>1. Other(a) BY <2>2 DEF Notice, Drop, TypeOK
    <3>2. order'[a].state = "none" BY <2>2 DEF Notice, Drop, NoOrder, TypeOK
    <3>3. /\ claims' = claims
          /\ strays'[a] = IF order[a].state = "filled" THEN strays[a] + 1 ELSE strays[a]
      BY <2>2 DEF Notice, TypeOK
    <3> QED BY <2>0, <2>A, <3>1, <3>2, <3>3
  <2>3. ASSUME NEW a \in Id, Replace(a) PROVE ExposedOnce'
    <3>1. Other(a) BY <2>3 DEF Replace, Drop, TypeOK
    <3>2. claims' = claims /\ strays' = strays BY <2>3 DEF Replace
    <3>3. order'[a].state = order[a].state \/ (order[a].state = "live" /\ order'[a].state \in {"live", "none"})
      BY <2>3 DEF Replace, Drop, NoOrder, TypeOK
    <3> QED BY <2>0, <2>A, <3>1, <3>2, <3>3
  <2>4. ASSUME NEW a \in Id, Obey(a) PROVE ExposedOnce'
    <3>1. Other(a) BY <2>4 DEF Obey, Drop, TypeOK
    <3>2. \/ UNCHANGED <<order, strays, claims>>
          \/ /\ order'[a].state = "none" /\ claims' = claims
             /\ strays'[a] = IF order[a].state = "filled" THEN strays[a] + 1 ELSE strays[a]
      BY <2>4 DEF Obey, Drop, NoOrder, TypeOK
    <3> QED BY <2>0, <2>A, <3>1, <3>2, ExposureKept
  <2>5. ASSUME NEW a \in Id, Broker(a) PROVE ExposedOnce'
    <3>1. Other(a) BY <2>5 DEF Broker, TypeOK
    <3>2. claims' = claims /\ strays' = strays /\ Held(a) = 1 BY <2>5 DEF Broker
    <3>3. Held(a)' \in 0 .. 1 OBVIOUS
    <3> QED BY <2>0, <2>A, <3>1, <3>2, <3>3
  <2>6. ASSUME \/ WriteResult \/ Book
               \/ \E a \in Id : Poll(a) \/ Defer(a)
               \/ \E a \in Id, s \in {"watching", "executed", "failed", "rejected"} : Post(a, s)
        PROVE  ExposedOnce'
    BY <2>6, ExposureKept DEF WriteResult, Book, Poll, Defer, Post, trading
  <2>7. ASSUME Operator \/ Evaluator \/ CancelWatching \/ UNCHANGED vars \/ \E a \in Id : InsertSignal(a)
        PROVE  ExposedOnce'
    BY <2>7, ExposureKept
    DEF Operator, AskManual, InsertManual, Resize, AskResize, Evaluator, Judge, GiveUp, Merge,
        CancelWatching, InsertSignal, vars, trading
  <2>8. ASSUME Transaction PROVE ExposedOnce'
    BY <2>8, ExposureKept DEF Transaction, Begin, Commit, Fail
  <2> HIDE DEF Held, Once, Other
  <2> QED BY <2>1, <2>2, <2>3, <2>4, <2>5, <2>6, <2>7, <2>8 DEF Next, Ea
<1> QED BY <1>1, <1>2, TypeCorrect, PTL DEF Spec

-----------------------------------------------------------------------------
(* Requests are atomic. *)

(* A thread moves alone. *)
LEMMA OneMoves ==
  ASSUME TypeOK, NEW r \in Threads, NEW s, Goes(r, s) \/ Answered(r, s)
  PROVE  /\ At(r).step' \in {s, "idle"} /\ (r # NULL => At(r).step' = s)
         /\ \A t \in Threads \ {r} : At(t)' = At(t)
<1> USE DEF TypeOK, Goes, Answered, To, At, Threads
<1>1. CASE r = NULL
  <2>1. req' = req /\ (ea' = [ea EXCEPT !.step = s] \/ ea' = NoRequest) BY <1>1
  <2>2. ea'.step \in {s, "idle"} BY <2>1 DEF Request, NoRequest
  <2> QED BY <1>1, <2>1, <2>2
<1>2. CASE r # NULL
  <2>1. /\ r \in Req /\ ea' = ea
        /\ \/ req' = [req EXCEPT ![r] = [req[r] EXCEPT !.step = s]]
           \/ req' = [req EXCEPT ![r] = [NoRequest EXCEPT !.op = req[r].op, !.id = req[r].id, !.step = s]]
    BY <1>2
  <2>2. req'[r].step = s
    <3>1. req[r] \in Request(Eval) BY <2>1
    <3>2. [req[r] EXCEPT !.step = s].step = s BY <3>1 DEF Request
    <3>3. [NoRequest EXCEPT !.op = req[r].op, !.id = req[r].id, !.step = s].step = s BY DEF NoRequest
    <3>4. PICK q : req' = [req EXCEPT ![r] = q] /\ q.step = s BY <2>1, <3>2, <3>3
    <3> QED BY <2>1, <3>4
  <2>3. \A t \in Req \ {r} : req'[t] = req[t] BY <2>1
  <2> QED BY <1>2, <2>1, <2>2, <2>3
<1> QED BY <1>1, <1>2

(* The same, for the requests of the operator. *)
LEMMA RequestMoves ==
  ASSUME TypeOK, NEW r \in Threads, NEW s, Goes(r, s) \/ Answered(r, s)
  PROVE  \A t \in Req : (t = r /\ req[t] = At(r) /\ req'[t].step = s) \/ req'[t] = req[t]
BY OneMoves, DeskAssumption DEF At, Threads

(* A BEGIN succeeds only when no transaction is open; a COMMIT and a ROLLBACK  *)
(* are those of the one thread that has it open.                               *)
LEMMA OneTransactionKept ==
  ASSUME TypeOK, TypeOK', OneTransaction, [Next]_vars
  PROVE  OneTransaction'
<1>A. ASSUME saved # NULL => saved' # NULL, \A r \in Threads : InTx(r)' => InTx(r)
      PROVE  OneTransaction'
  BY <1>A DEF OneTransaction
<1>1. ASSUME NEW r \in Threads, Begin(r) PROVE OneTransaction'
  <2>1. CASE saved = NULL
    <3>1. saved' # NULL BY <1>1, <2>1, NullAssumption DEF Begin, TypeOK
    <3>2. \A t \in Threads \ {r} : ~InTx(t)' BY <1>1, <2>1, OneMoves DEF Begin, OneTransaction, InTx
    <3> QED BY <3>1, <3>2 DEF OneTransaction
  <2>2. CASE saved # NULL
    <3>1. saved' # NULL /\ Answered(r, "error") BY <1>1, <2>2 DEF Begin
    <3>2. \A t \in Threads : InTx(t)' => InTx(t) BY <3>1, OneMoves DEF InTx
    <3> QED BY <1>A, <3>1, <3>2
  <2> QED BY <2>1, <2>2
<1>2. ASSUME NEW r \in Threads, Commit(r) \/ Fail(r) PROVE OneTransaction'
  <2>1. InTx(r) BY <1>2 DEF Commit, Fail, InTx
  <2>2. \E s \in {"error", "done"} : Answered(r, s) BY <1>2 DEF Commit, Fail
  <2>3. \A t \in Threads : ~InTx(t)' BY <2>1, <2>2, OneMoves DEF OneTransaction, InTx
  <2> QED BY <2>3 DEF OneTransaction
<1>3. ASSUME NEW r \in Req, AskManual(r) \/ (\E a \in Id : AskResize(r, a)) PROVE OneTransaction'
  <2>1. req'[r].step = "begin" /\ ea' = ea /\ \A t \in Req \ {r} : req'[t] = req[t]
    <3> DEFINE Q(q) == req' = [req EXCEPT ![r] = q] /\ q.step = "begin"
    <3>1. ASSUME AskManual(r) PROVE \E q : Q(q)
      <4> WITNESS [NoRequest EXCEPT !.op = "manual", !.step = "begin"]
      <4> QED BY <3>1 DEF AskManual, NoRequest
    <3>2. ASSUME NEW a \in Id, AskResize(r, a) PROVE \E q : Q(q)
      <4> WITNESS [NoRequest EXCEPT !.op = "resize", !.id = a, !.step = "begin",
                                    !.seq = rows[a].seq, !.eval = rows[a].eval]
      <4> QED BY <3>2 DEF AskResize, NoRequest
    <3>3. PICK q : Q(q) BY <1>3, <3>1, <3>2
    <3> QED BY <1>3, <3>3 DEF AskManual, AskResize, TypeOK
  <2>2. saved' = saved BY <1>3 DEF AskManual, AskResize
  <2> QED BY <1>A, <2>1, <2>2 DEF InTx, At, Threads
<1>4. ASSUME NEW r \in Req, InsertManual(r) \/ Resize(r) PROVE OneTransaction'
  <2>1. req[r].step = "write" /\ ea' = ea /\ \A t \in Req \ {r} : req'[t] = req[t]
    BY <1>4 DEF InsertManual, Resize, TypeOK
  <2>2. saved' = saved BY <1>4 DEF InsertManual, Resize
  <2> QED BY <1>A, <2>1, <2>2 DEF InTx, At, Threads
<1>5. ASSUME Evaluator PROVE OneTransaction'
  <2>1. UNCHANGED <<req, ea>> BY <1>5 DEF Evaluator, Judge, GiveUp, Merge
  <2>2. saved # NULL => saved' # NULL
    <3>1. ASSUME NEW w \in workers, Merge(w), saved # NULL PROVE saved' # NULL
      <4>1. saved \in [Id -> Row] BY <3>1 DEF TypeOK
      <4>2. \E t : saved' = [saved EXCEPT ![w.id] = t] \/ saved' = saved BY <3>1 DEF Merge
      <4>3. w.id \in Id BY DEF TypeOK
      <4>4. CASE saved' = saved BY <3>1, <4>4
      <4>5. CASE saved' # saved
        <5>1. PICK t : saved' = [saved EXCEPT ![w.id] = t] BY <4>2, <4>5
        <5>2. saved' = [saved EXCEPT ![w.id] = [saved[w.id] EXCEPT !.eval = w.src, !.seq = w.read[1], !.lot = w.read[2]]]
          BY <3>1, <4>5 DEF Merge
        <5>3. [saved[w.id] EXCEPT !.eval = w.src, !.seq = w.read[1], !.lot = w.read[2]] \in Row
          BY <3>1, <4>1, <4>3, RowTyped DEF Merge, TypeOK, Eval
        <5> QED BY <4>1, <4>3, <5>2, <5>3, NullAssumption
      <4> QED BY <4>4, <4>5
    <3> QED BY <1>5, <3>1 DEF Evaluator, Judge, GiveUp
  <2> QED BY <1>A, <2>1, <2>2 DEF InTx, At
<1>6. ASSUME WriteResult \/ Book PROVE OneTransaction'
  BY <1>A, <1>6 DEF WriteResult, Book, Goes, To, At, InTx, Threads
<1>7. ASSUME NEW a \in Id,
             \/ ClaimAndPlace(a) \/ Notice(a) \/ Poll(a) \/ Replace(a) \/ Defer(a) \/ Obey(a)
             \/ \E s \in {"watching", "executed", "failed", "rejected"} : Post(a, s)
      PROVE  OneTransaction'
  <2>1. UNCHANGED <<req, saved>> /\ (ea' = ea \/ ea'.step \notin {"write", "book", "commit"})
    <3>1. ASSUME ClaimAndPlace(a) \/ Notice(a) PROVE UNCHANGED <<req, saved, ea>>
      BY <3>1 DEF ClaimAndPlace, Notice
    <3>2. ASSUME Replace(a) \/ Defer(a) \/ Obey(a) PROVE UNCHANGED <<req, saved>> /\ ea' = NoRequest
      BY <3>2 DEF Replace, Defer, Obey, Acts, trading
    <3>3. ASSUME Poll(a) PROVE UNCHANGED <<req, saved>> /\ ea'.step = "act"
      BY <3>3 DEF Poll, NoRequest, trading
    <3>4. ASSUME NEW s \in {"watching", "executed", "failed", "rejected"}, Post(a, s)
          PROVE  UNCHANGED <<req, saved>> /\ (ea' = ea \/ ea'.step = "begin")
      BY <3>4 DEF Post, NoRequest
    <3>5. NoRequest.step = "idle" BY DEF NoRequest
    <3> QED BY <1>7, <3>1, <3>2, <3>3, <3>4, <3>5
  <2> QED BY <1>A, <2>1 DEF InTx, At, Threads
<1>8. ASSUME CancelWatching \/ UNCHANGED vars \/ \E a \in Id : InsertSignal(a) \/ Broker(a)
      PROVE  OneTransaction'
  BY <1>A, <1>8 DEF CancelWatching, InsertSignal, Broker, vars, InTx, At
<1> QED BY <1>1, <1>2, <1>3, <1>4, <1>5, <1>6, <1>7, <1>8 DEF Next, Operator, Transaction, Ea

(* The INSERT of the position follows in the transaction that wrote the status. *)
LEMMA BookingKept ==
  ASSUME TypeOK, OneTransaction, Booking, [Next]_vars
  PROVE  Booking'
<1>A. ASSUME saved' # NULL => saved # NULL /\ \A a \in Id : Whole(saved, a) => Whole(saved', a),
             \A a \in Id : Whole(rows, a) => Whole(rows', a),
             ea' = ea \/ ea.step # "book"
      PROVE  Booking'
  BY <1>A DEF Booking
<1>B. ea.step = "book" => saved # NULL /\ \A t \in Threads : InTx(t) => t = NULL
  BY DEF OneTransaction, InTx, At, Threads
<1>1. ASSUME NEW r \in Threads, Begin(r) PROVE Booking'
  <2>1. CASE saved = NULL
    <3>1. \A a \in Id : Whole(rows, a) BY <1>B, <2>1 DEF Booking
    <3> QED BY <1>1, <2>1, <3>1 DEF Begin, Booking
  <2>2. CASE saved # NULL
    <3>1. rows' = rows /\ saved' = saved BY <1>1, <2>2 DEF Begin
    <3>2. ea.step = "book" => r # NULL BY <1>1 DEF Begin, At
    <3>3. ea.step = "book" => ea' = ea BY <1>1, <2>2, <3>2 DEF Begin, Answered, To
    <3> QED BY <1>A, <3>1, <3>3
  <2> QED BY <2>1, <2>2
<1>2. ASSUME NEW r \in Threads, Commit(r) PROVE Booking'
  <2>1. ea.step # "book" BY <1>2, <1>B DEF Commit, InTx, At
  <2> QED BY <1>2, <2>1, <1>A DEF Commit
<1>3. ASSUME NEW r \in Threads, Fail(r) PROVE Booking'
  <2>1. saved # NULL BY <1>3 DEF Fail, OneTransaction, InTx
  <2>2. rows' = saved /\ saved' = NULL BY <1>3, <2>1 DEF Fail, Committed
  <2> QED BY <2>1, <2>2 DEF Booking
<1>4. ASSUME Operator PROVE Booking'
  <2>1. ea' = ea /\ saved' = saved
    BY <1>4 DEF Operator, AskManual, InsertManual, Resize, AskResize
  <2>2. \A a \in Id : Whole(rows, a) => Whole(rows', a)
    <3>1. ASSUME NEW r \in Req, InsertManual(r), NEW a \in Id, Whole(rows, a) PROVE Whole(rows', a)
      BY <3>1 DEF InsertManual, Whole, Absent, TypeOK
    <3>2. ASSUME NEW r \in Req, Resize(r), NEW a \in Id, Whole(rows, a) PROVE Whole(rows', a)
      <4>1. /\ rows \in [Id -> Row] /\ rows[a] \in Row
            /\ rows' = [rows EXCEPT ![req[r].id] =
                          [rows[req[r].id] EXCEPT !.eval = req[r].eval, !.seq = req[r].seq + 1, !.lot = r]]
        BY <3>2 DEF Resize, TypeOK
      <4>2. rows'[a].status = rows[a].status /\ rows'[a].booked = rows[a].booked BY <4>1 DEF Row
      <4> QED BY <3>2, <4>2 DEF Whole
    <3> QED BY <1>4, <3>1, <3>2 DEF Operator, AskManual, AskResize
  <2> QED BY <1>A, <2>1, <2>2
<1>5. ASSUME NEW w \in workers, Judge(w) \/ GiveUp(w) \/ Merge(w) PROVE Booking'
  <2> DEFINE Put(t) == IF t[w.id].status = "absent" THEN t
                       ELSE [t EXCEPT ![w.id] = [t[w.id] EXCEPT !.eval = w.src, !.seq = w.read[1], !.lot = w.read[2]]]
  <2>1. ASSUME NEW t \in [Id -> Row], NEW a \in Id PROVE Whole(t, a) => Whole(Put(t), a)
    <3>1. t[a] \in Row OBVIOUS
    <3>2. Put(t)[a].status = t[a].status /\ Put(t)[a].booked = t[a].booked BY <3>1 DEF Row
    <3> QED BY <3>2 DEF Whole
  <2>2. \/ rows' = rows /\ saved' = saved
        \/ rows' = Put(rows) /\ saved' = IF saved = NULL THEN NULL ELSE Put(saved)
    BY <1>5 DEF Judge, GiveUp, Merge
  <2>3. ea' = ea BY <1>5 DEF Judge, GiveUp, Merge
  <2>4. rows \in [Id -> Row] /\ (saved = NULL \/ saved \in [Id -> Row]) BY DEF TypeOK
  <2> HIDE DEF Put
  <2> QED BY <1>A, <2>1, <2>2, <2>3, <2>4
<1>6. ASSUME WriteResult PROVE Booking'
  <2>1. saved' = saved /\ ea.step = "write" /\ ea.id \in Id BY <1>6 DEF WriteResult, TypeOK
  <2>2. \A a \in Id : Whole(rows, a) BY <2>1 DEF Booking
  <2>3. \/ rows' = rows
        \/ /\ rows' = [rows EXCEPT ![ea.id].status = ea.status]
           /\ ea' = [ea EXCEPT !.step = IF ea.status = "executed" THEN "book" ELSE "commit"]
    BY <1>6 DEF WriteResult, Goes, To, At
  <2>4. ASSUME NEW a \in Id PROVE Whole(rows', a) \/ (ea'.step = "book" /\ ea'.id = a)
    BY <2>1, <2>2, <2>3 DEF Whole, TypeOK, Request, Row
  <2> QED BY <2>1, <2>4 DEF Booking
<1>7. ASSUME Book PROVE Booking'
  <2>1. saved' = saved /\ ea.step = "book" /\ rows' = [rows EXCEPT ![ea.id].booked = TRUE]
    BY <1>7 DEF Book
  <2>2. ASSUME NEW a \in Id PROVE Whole(rows', a) BY <2>1 DEF Booking, Whole, TypeOK, Row
  <2> QED BY <2>1, <2>2 DEF Booking
<1>8. ASSUME NEW a \in Id,
             \/ ClaimAndPlace(a) \/ Notice(a) \/ Poll(a) \/ Replace(a) \/ Defer(a) \/ Obey(a)
             \/ \E s \in {"watching", "executed", "failed", "rejected"} : Post(a, s)
      PROVE  Booking'
  <2>1. saved' = saved /\ ea.step # "book"
    BY <1>8 DEF ClaimAndPlace, Notice, Poll, Replace, Defer, Obey, Post, Acts, Free, trading
  <2>2. rows' = rows \/ rows' = [rows EXCEPT ![a].status = "claimed"]
    BY <1>8 DEF ClaimAndPlace, Notice, Poll, Replace, Defer, Obey, Post
  <2>3. \A b \in Id : Whole(rows, b) => Whole(rows', b) BY <2>2 DEF Whole, TypeOK, Row
  <2> QED BY <1>A, <2>1, <2>3
<1>9. ASSUME CancelWatching \/ UNCHANGED vars \/ \E a \in Id : InsertSignal(a) \/ Broker(a)
      PROVE  Booking'
  <2>1. ea' = ea /\ saved' = saved BY <1>9 DEF CancelWatching, InsertSignal, Broker, vars
  <2>2. \A b \in Id : Whole(rows, b) => Whole(rows', b)
    <3>1. ASSUME CancelWatching, NEW b \in Id PROVE Whole(rows, b) => Whole(rows', b)
      BY <3>1 DEF CancelWatching, Whole, TypeOK, Row
    <3>2. ASSUME NEW a \in Id, InsertSignal(a), NEW b \in Id PROVE Whole(rows, b) => Whole(rows', b)
      BY <3>2 DEF InsertSignal, Whole, Absent, TypeOK
    <3> QED BY <1>9, <3>1, <3>2 DEF Broker, vars
  <2> QED BY <1>A, <2>1, <2>2
<1> QED BY <1>1, <1>2, <1>3, <1>4, <1>5, <1>6, <1>7, <1>8, <1>9 DEF Next, Transaction, Evaluator, Ea

(* What the provers need to know of a step that no request takes: it marks no  *)
(* row for a request that is not done, and hands no evaluator such a lot.      *)
LEMMA OthersMarkNothing ==
  ASSUME Unseen, Unwritten, UNCHANGED req,
         \A r \in Req : req[r].step # "done" =>
           /\ Marks(Committed, r)' => Marks(Committed, r)
           /\ Marks(rows, r)' => Marks(rows, r)
           /\ \A w \in workers' : w.step = "merge" => w \in workers \/ w.read[2] # r
  PROVE  Unseen' /\ Unwritten'
BY DEF Unseen, Unwritten

(* A request that is not done has left nothing behind. *)
LEMMA TraceKept ==
  ASSUME TypeOK, TypeOK', OneTransaction, Unseen, Unwritten, [Next]_vars
  PROVE  Unseen' /\ Unwritten'
<1>1. ASSUME NEW r \in Threads, Begin(r) PROVE Unseen' /\ Unwritten'
  <2>1. Committed' = Committed /\ rows' = rows /\ workers' = workers
    <3>1. CASE saved = NULL
      <4>1. saved' = rows /\ saved' # NULL BY <1>1, <3>1, NullAssumption DEF Begin, TypeOK
      <4> QED BY <1>1, <3>1, <4>1 DEF Begin, Committed
    <3>2. CASE saved # NULL BY <1>1, <3>2 DEF Begin, Committed
    <3> QED BY <3>1, <3>2
  <2>2. \A t \in Req : req'[t].step \notin {"commit", "done"} => req[t].step \notin {"commit", "done"}
    <3>1. At(r).step = "begin" /\ \E s \in {"write", "error"} : Goes(r, s) \/ Answered(r, s) BY <1>1 DEF Begin
    <3> QED BY <3>1, RequestMoves
  <2>3. \A t \in Req : req'[t].step # "done" => req[t].step # "done"
    <3>1. At(r).step = "begin" /\ \E s \in {"write", "error"} : Goes(r, s) \/ Answered(r, s) BY <1>1 DEF Begin
    <3> QED BY <3>1, RequestMoves
  <2> QED BY <2>1, <2>2, <2>3 DEF Unseen, Unwritten, Marks
<1>2. ASSUME NEW r \in Threads, Commit(r) PROVE Unseen' /\ Unwritten'
  <2>1. saved # NULL /\ \A t \in Threads \ {r} : ~InTx(t) BY <1>2 DEF Commit, OneTransaction, InTx
  <2>2. Answered(r, "done") /\ rows' = rows /\ Committed' = rows /\ workers' = workers \cup Kicked(r)
    BY <1>2, <2>1 DEF Commit, Committed
  <2>3. \A t \in Req : req'[t].step # "done" => req[t].step \notin {"commit", "done"}
    <3>1. ASSUME NEW t \in Req, req'[t].step # "done" PROVE t # r
      BY <2>2, <3>1, OneMoves, DeskAssumption DEF At
    <3>2. \A t \in Req \ {r} : req'[t] = req[t] /\ req[t].step # "commit"
      BY <2>1, <2>2, OneMoves, DeskAssumption DEF At, InTx, Threads
    <3> QED BY <3>1, <3>2
  <2>4. \A w \in Kicked(r) : w.step = "judge" BY DEF Kicked, Worker
  <2> QED BY <2>2, <2>3, <2>4 DEF Unseen, Unwritten, Marks
<1>3. ASSUME NEW r \in Threads, Fail(r) PROVE Unseen' /\ Unwritten'
  <2>1. Committed' = Committed /\ rows' = Committed /\ workers' = workers
    BY <1>3 DEF Fail, Committed
  <2>2. \A t \in Req : req'[t].step # "done" => req[t].step # "done"
    <3>1. At(r).step # "done" /\ Answered(r, "error") BY <1>3 DEF Fail
    <3> QED BY <3>1, RequestMoves
  <2> QED BY <2>1, <2>2 DEF Unseen, Unwritten, Marks
<1>4. ASSUME NEW r \in Req, AskManual(r) \/ (\E a \in Id : AskResize(r, a))
      PROVE  Unseen' /\ Unwritten'
  <2>1. UNCHANGED <<rows, saved, workers>> BY <1>4 DEF AskManual, AskResize
  <2>2. req[r].step = "idle" /\ \A t \in Req \ {r} : req'[t] = req[t]
    BY <1>4 DEF AskManual, AskResize, TypeOK
  <2> QED BY <2>1, <2>2 DEF Unseen, Unwritten, Marks, Committed
<1>5. ASSUME NEW r \in Req, InsertManual(r) \/ Resize(r) PROVE Unseen' /\ Unwritten'
  <2>1. req[r].step = "write" /\ req'[r].step = "commit" /\ \A t \in Req \ {r} : req'[t] = req[t]
    <3>1. PICK q : req' = [req EXCEPT ![r] = q] /\ q.step = "commit"
      <4>1. ASSUME NEW a \in Id, req' = [req EXCEPT ![r].id = a, ![r].step = "commit"]
            PROVE  \E q : req' = [req EXCEPT ![r] = q] /\ q.step = "commit"
        <5> WITNESS [req[r] EXCEPT !.id = a, !.step = "commit"]
        <5>1. req[r] \in Request(Eval) BY DEF TypeOK
        <5>2. [req[r] EXCEPT !.id = a, !.step = "commit"].step = "commit" BY <5>1 DEF Request
        <5> QED BY <4>1, <5>2 DEF TypeOK
      <4>2. ASSUME Resize(r) PROVE \E q : req' = [req EXCEPT ![r] = q] /\ q.step = "commit"
        <5> WITNESS [req[r] EXCEPT !.step = "commit"]
        <5>1. req[r] \in Request(Eval) BY DEF TypeOK
        <5>2. [req[r] EXCEPT !.step = "commit"].step = "commit" BY <5>1 DEF Request
        <5> QED BY <4>2, <5>2 DEF Resize
      <4> QED BY <1>5, <4>1, <4>2 DEF InsertManual
    <3> QED BY <1>5, <3>1 DEF InsertManual, Resize, TypeOK
  <2>2. saved # NULL BY <2>1, DeskAssumption DEF OneTransaction, InTx, At, Threads
  <2>3. Committed' = Committed /\ workers' = workers
    BY <1>5, <2>2 DEF InsertManual, Resize, Committed
  <2>4. \A t \in Req \ {r} : Marks(rows, t)' => Marks(rows, t)
    <3>1. ASSUME InsertManual(r), NEW t \in Req \ {r}, NEW b \in Id, rows'[b].by = t \/ rows'[b].lot = t
          PROVE  rows[b].by = t \/ rows[b].lot = t
      BY <3>1, DeskAssumption DEF InsertManual, Absent, TypeOK
    <3>2. ASSUME Resize(r), NEW t \in Req \ {r}, NEW b \in Id, rows'[b].by = t \/ rows'[b].lot = t
          PROVE  rows[b].by = t \/ rows[b].lot = t
      <4>1. /\ rows \in [Id -> Row] /\ rows[b] \in Row
            /\ rows' = [rows EXCEPT ![req[r].id] =
                          [rows[req[r].id] EXCEPT !.eval = req[r].eval, !.seq = req[r].seq + 1, !.lot = r]]
        BY <3>2 DEF Resize, TypeOK
      <4>2. rows'[b].by = rows[b].by /\ rows'[b].lot \in {rows[b].lot, r} BY <4>1 DEF Row
      <4> QED BY <3>2, <4>2
    <3> QED BY <1>5, <3>1, <3>2 DEF Marks
  <2> QED BY <2>1, <2>3, <2>4 DEF Unseen, Unwritten, Marks
<1>6. ASSUME NEW w \in workers, Judge(w) \/ GiveUp(w) PROVE Unseen' /\ Unwritten'
  <2>1. UNCHANGED <<rows, saved, req>> BY <1>6 DEF Judge, GiveUp
  <2>2. \A v \in workers' : v \in workers \/ v.read[2] = Committed[w.id].lot
    <3> DEFINE v == [w EXCEPT !.step = "merge", !.read = <<Committed[w.id].seq, Committed[w.id].lot>>]
    <3>1. w \in [id : Id, src : {"signal", "fill"}, step : {"judge", "merge"}, read : (Nat \X Lot) \cup {NULL}]
      BY DEF TypeOK
    <3>2. v.read = <<Committed[w.id].seq, Committed[w.id].lot>> BY <3>1
    <3>3. v.read[2] = Committed[w.id].lot BY <3>2
    <3> HIDE DEF v
    <3>4. workers' \in {workers \ {w}, (workers \ {w}) \cup {v}} BY <1>6 DEF Judge, GiveUp, v
    <3> QED BY <3>3, <3>4
  <2>3. w.id \in Id BY DEF TypeOK
  <2>4. \A r \in Req : req[r].step # "done" => Committed[w.id].lot # r
    BY <2>3 DEF Unseen, Marks
  <2> QED BY <2>1, <2>2, <2>4, OthersMarkNothing DEF Marks, Committed
<1>7. ASSUME NEW w \in workers, Merge(w) PROVE Unseen' /\ Unwritten'
  <2> DEFINE Put(t) == IF t[w.id].status = "absent" THEN t
                       ELSE [t EXCEPT ![w.id] = [t[w.id] EXCEPT !.eval = w.src, !.seq = w.read[1], !.lot = w.read[2]]]
  <2>1. ASSUME NEW t \in [Id -> Row], NEW r \in Req, Marks(Put(t), r) PROVE Marks(t, r) \/ w.read[2] = r
    <3>1. PICK b \in Id : Put(t)[b].by = r \/ Put(t)[b].lot = r BY <2>1 DEF Marks
    <3>2. t[b] \in Row OBVIOUS
    <3>3. Put(t)[b].by = t[b].by /\ Put(t)[b].lot \in {t[b].lot, w.read[2]} BY <3>2 DEF Row
    <3> QED BY <3>1, <3>3 DEF Marks
  <2>2. rows' = Put(rows) /\ saved' = IF saved = NULL THEN NULL ELSE Put(saved) BY <1>7 DEF Merge
  <2>3. req' = req /\ workers' = workers \ {w} /\ w.step = "merge" BY <1>7 DEF Merge
  <2>4. rows \in [Id -> Row] /\ (saved # NULL => saved \in [Id -> Row]) BY DEF TypeOK
  <2>5. \A r \in Req : req[r].step # "done" => w.read[2] # r BY <2>3 DEF Unseen
  <2> HIDE DEF Put
  <2>8. ASSUME NEW r \in Req, req[r].step # "done", Marks(rows, r)' PROVE Marks(rows, r)
    <3>1. Marks(Put(rows), r) BY <2>2, <2>8 DEF Marks
    <3> QED BY <2>1, <2>4, <2>5, <2>8, <3>1
  <2>9. ASSUME NEW r \in Req, req[r].step # "done", Marks(Committed, r)' PROVE Marks(Committed, r)
    <3>1. Committed = rows \/ (saved # NULL /\ Committed = saved) BY DEF Committed
    <3>2. Committed' = Put(Committed)
      <4>1. saved \in {NULL, rows} BY <1>7 DEF Merge
      <4> QED BY <2>2, <4>1 DEF Committed
    <3>3. Marks(Put(Committed), r) BY <2>9, <3>2 DEF Marks
    <3> QED BY <2>1, <2>4, <2>5, <2>9, <3>1, <3>3
  <2> QED BY <2>3, <2>8, <2>9, OthersMarkNothing
<1>8. ASSUME NEW a \in Id, InsertSignal(a) PROVE Unseen' /\ Unwritten'
  <2>1. req' = req /\ saved' = saved BY <1>8 DEF InsertSignal
  <2>2. ASSUME NEW r \in Req, Marks(rows, r)' PROVE Marks(rows, r)
    BY <1>8, <2>2, DeskAssumption DEF InsertSignal, Marks, Absent, TypeOK
  <2>3. \A v \in workers' : v \in workers \/ v.step = "judge" BY <1>8 DEF InsertSignal, Worker
  <2>4. \A r \in Req : Marks(Committed, r)' => Marks(Committed, r)
    BY <2>1, <2>2 DEF Committed, Marks
  <2> QED BY <2>1, <2>2, <2>3, <2>4, OthersMarkNothing
<1>9. ASSUME UNCHANGED <<req, saved, workers>>,
             \A b \in Id : rows'[b].by = rows[b].by /\ rows'[b].lot = rows[b].lot
      PROVE  Unseen' /\ Unwritten'
  BY <1>9, OthersMarkNothing DEF Committed, Marks
<1>10. ASSUME Ea PROVE Unseen' /\ Unwritten'
  <2>1. UNCHANGED <<req, saved, workers>>
    BY <1>10 DEF Ea, WriteResult, Book, ClaimAndPlace, Notice, Poll, Replace, Defer, Obey, Post, Goes, To, trading
  <2>2. \/ rows' = rows
        \/ \E s : \E a \in Id : rows' = [rows EXCEPT ![a].status = s]
        \/ \E a \in Id : rows' = [rows EXCEPT ![a].booked = TRUE]
    <3>1. ASSUME WriteResult \/ Book PROVE ea.id \in Id BY <3>1 DEF WriteResult, Book, TypeOK
    <3> QED BY <1>10, <3>1 DEF Ea, WriteResult, Book, ClaimAndPlace, Notice, Poll, Replace, Defer, Obey, Post
  <2>3. \A b \in Id : rows'[b].by = rows[b].by /\ rows'[b].lot = rows[b].lot
    <3>1. rows \in [Id -> Row] BY DEF TypeOK
    <3>2. \A v : \A q \in Row : LET p == [q EXCEPT !.status = v]
                               o == [q EXCEPT !.booked = v]
                           IN  p.by = q.by /\ p.lot = q.lot /\ o.by = q.by /\ o.lot = q.lot
      BY DEF Row
    <3>3. CASE \E s : \E a \in Id : rows' = [rows EXCEPT ![a].status = s]
      <4>0. PICK s : \E a \in Id : rows' = [rows EXCEPT ![a].status = s] BY <3>3
      <4>1. PICK a \in Id : rows' = [rows EXCEPT ![a] = [rows[a] EXCEPT !.status = s]] BY <4>0
      <4> QED BY <3>1, <3>2, <4>1
    <3>4. CASE \E a \in Id : rows' = [rows EXCEPT ![a].booked = TRUE]
      <4>1. PICK a \in Id : rows' = [rows EXCEPT ![a] = [rows[a] EXCEPT !.booked = TRUE]] BY <3>4
      <4> QED BY <3>1, <3>2, <4>1
    <3> QED BY <2>2, <3>3, <3>4
  <2> QED BY <1>9, <2>1, <2>3
<1>11. ASSUME CancelWatching PROVE Unseen' /\ Unwritten'
  <2>1. \A b \in Id : rows'[b].by = rows[b].by /\ rows'[b].lot = rows[b].lot
    BY <1>11 DEF CancelWatching, TypeOK, Row
  <2> QED BY <1>9, <1>11, <2>1 DEF CancelWatching
<1>12. ASSUME UNCHANGED vars \/ \E a \in Id : Broker(a) PROVE Unseen' /\ Unwritten'
  BY <1>9, <1>12 DEF Broker, vars
<1> QED
  BY <1>1, <1>2, <1>3, <1>4, <1>5, <1>6, <1>7, <1>8, <1>10, <1>11, <1>12
  DEF Next, Operator, Transaction, Evaluator

(* An executed row comes with its position, and a request that was answered    *)
(* with an error has left nothing behind, for every connection that reads the  *)
(* tables and however the threads share the one connection of the API          *)
(* (result and manual-trade handlers, resize_pending).                         *)
THEOREM RequestsWhole == Spec => []RequestsAtomic
<1>1. Init => OneTransaction /\ Booking /\ Unseen /\ Unwritten
  <2> SUFFICES ASSUME Init PROVE OneTransaction /\ Booking /\ Unseen /\ Unwritten OBVIOUS
  <2>1. /\ \A a \in Id : rows[a].status = "absent" /\ rows[a].by = NULL /\ rows[a].lot = NULL
        /\ saved = NULL /\ workers = {}
    BY DEF Init, Absent
  <2>2. \A r \in Threads : At(r).step = "idle" BY DEF Init, NoRequest, At, Threads
  <2> QED
    BY <2>1, <2>2, DeskAssumption
    DEF OneTransaction, Booking, Unseen, Unwritten, InTx, Whole, Marks, Committed
<1>2. TypeOK /\ TypeOK' /\ OneTransaction /\ Booking /\ Unseen /\ Unwritten /\ [Next]_vars
        => OneTransaction' /\ Booking' /\ Unseen' /\ Unwritten'
  BY OneTransactionKept, BookingKept, TraceKept
<1>3. OneTransaction /\ Booking /\ Unseen => RequestsAtomic
  <2> SUFFICES ASSUME OneTransaction, Booking, Unseen PROVE RequestsAtomic OBVIOUS
  <2>1. ea.step = "book" => saved # NULL BY DEF OneTransaction, InTx, At, Threads
  <2>2. ResultWhole BY <2>1 DEF ResultWhole, Booking, Whole, Committed
  <2>3. RefusedLeavesNothing BY DEF RefusedLeavesNothing, Unseen, Marks
  <2> QED BY <2>2, <2>3 DEF RequestsAtomic
<1> QED BY <1>1, <1>2, <1>3, TypeCorrect, PTL DEF Spec
=============================================================================
