------------------------- MODULE SignalIntakeProofs -------------------------
(***************************************************************************)
(* What SignalIntake guarantees for any messages, any answers of the       *)
(* model, any routes and any number of edits, proved with TLAPS.           *)
(***************************************************************************)
EXTENDS SignalIntake, FiniteSetTheorems, TLAPS

-----------------------------------------------------------------------------
(* The invariant. *)

RowsOf(table, m) == {i \in DOMAIN table : table[i].msg = m}

IsRow(r) == r = [msg |-> r.msg, type |-> r.type, act |-> r.act, status |-> r.status, sig |-> r.sig]

Priced(a) ==
  /\ {a.entry_low, a.entry_high, a.sl} \subseteq Int
  /\ \A k \in DOMAIN a.tps : a.tps[k] \in Int

(* A row says what its action says; an OPEN on file is well formed, and a      *)
(* watching row is a limit order.                                              *)
Sound(r) ==
  /\ IsRow(r) /\ r.msg \in Messages /\ r.status \in Statuses
  /\ r.type = r.act.type
  /\ r.sig = IF r.type = "OPEN" THEN Fingerprint(r.act) ELSE <<>>
  /\ r.type = "OPEN" => WellFormed(r.act) /\ Priced(r.act)
  /\ r.status = "watching" => r.type = "OPEN" /\ r.act.pending

IsTask(t) ==
  /\ t = [msg |-> t.msg, backfill |-> t.backfill, step |-> t.step, acts |-> t.acts,
          nth |-> t.nth, verdict |-> t.verdict, tested |-> t.tested, clears |-> t.clears]
  /\ t.msg \in Messages /\ t.backfill \in BOOLEAN
  /\ t.step \in {"read", "ask", "test", "insert"}
  /\ t.verdict \in {"ok", "duplicate", "refused"}

Table == Sequential(rows) /\ \A i \in DOMAIN rows : Sound(rows[i])

(* A message has one task, and before it arrives nothing is decided on it.     *)
Single ==
  /\ \A t, u \in tasks : t.msg = u.msg => t = u
  /\ \A m \in Messages : arrived[m] = "no" => decided[m] = "none"

(* The actions of a task are those of one whole answer that a route permitted. *)
Options(m) == Readings[m].answers \cup Readings[m].images \cup Readings[m].matched

Answered(m, acts) ==
  \E answer \in Options(m), s \in Routes :
    /\ acts = PermittedBy(s, answer.acts)
    /\ \A i \in DOMAIN answer.acts : WellFormed(answer.acts[i])

(* On file are the actions that a task is past, one row each, in their order.  *)
Filed(table, t) ==
  LET mine == RowsOf(table, t.msg)
  IN  /\ Cardinality(mine) = t.nth - 1
      /\ \A k \in 1 .. t.nth - 1 : Kept(table, mine)[k].act = t.acts[k]

Progress(t) ==
  IF t.step \in {"read", "ask"}
  THEN RowsOf(rows, t.msg) = {} /\ decided[t.msg] = "none" /\ t.nth = 1
  ELSE t.nth \in 1 .. Len(t.acts) /\ Answered(t.msg, t.acts) /\ Filed(rows, t)

(* No row of this signal is on its way, or open from a market order.           *)
Apart(table, n, sig) ==
  \A i \in 1 .. n :
    table[i].type = "OPEN" /\ table[i].sig = sig =>
      /\ table[i].status # "pending"
      /\ table[i].status = "open" => table[i].act.pending

(* What the tests of an action established still holds at its INSERT.          *)
Tested(t) ==
  t.step = "insert" =>
    LET act == t.acts[t.nth] IN
    /\ act.type \in {"CLOSE_FULL", "MOVE_SL_BE"} => t.verdict = "ok"
    /\ act.type = "OPEN" /\ t.verdict = "ok" => Apart(rows, t.tested, Fingerprint(act))

Working(t) ==
  /\ IsTask(t) /\ arrived[t.msg] = (IF t.backfill THEN "replayed" ELSE "live")
  /\ t.tested \in 0 .. Len(rows)
  /\ Progress(t) /\ Tested(t)

IntakeInv ==
  /\ TypeOK /\ Table /\ Single
  /\ \A t \in tasks : Working(t)
  /\ ReplayLeavesPositions

-----------------------------------------------------------------------------
(* Sequences and their members. *)

(* The k-th of a finite set of numbers is the only one with k members up to    *)
(* it.                                                                         *)
LEMMA NthIs ==
  ASSUME NEW S \in SUBSET Nat, IsFiniteSet(S), NEW k \in 1 .. Cardinality(S)
  PROVE  /\ Nth(S, k) \in S /\ Rank(S, Nth(S, k)) = k
         /\ \A i \in S : Rank(S, i) = k => i = Nth(S, k)
<1> DEFINE Upto(i) == {j \in S : j <= i}
           rank == [i \in S |-> Rank(S, i)]
           n == Cardinality(S)
<1>1. n \in Nat BY FS_CardinalityType
<1>2. \A i \in S : IsFiniteSet(Upto(i)) /\ Rank(S, i) = Cardinality(Upto(i)) /\ Rank(S, i) \in 1 .. n
  <2> TAKE i \in S
  <2>1. Upto(i) \subseteq S /\ i \in Upto(i) OBVIOUS
  <2>2. IsFiniteSet(Upto(i)) /\ Cardinality(Upto(i)) <= n BY <2>1, FS_Subset
  <2>3. Cardinality(Upto(i)) \in Nat BY <2>2, FS_CardinalityType
  <2>4. Cardinality(Upto(i)) # 0 BY <2>1, <2>2, FS_EmptySet
  <2> QED BY <2>2, <2>3, <2>4, <1>1 DEF Rank
<1>3. \A i, j \in S : i < j => Rank(S, i) # Rank(S, j)
  <2> SUFFICES ASSUME NEW i \in S, NEW j \in S, i < j, Rank(S, i) = Rank(S, j)
               PROVE  FALSE
    OBVIOUS
  <2>1. i \in Nat /\ j \in Nat /\ S \subseteq Nat OBVIOUS
  <2>2. j \in Upto(j) /\ j \notin Upto(i) BY <2>1
  <2>3. Upto(i) \subseteq Upto(j)
    <3> SUFFICES ASSUME NEW l \in S, l <= i PROVE l <= j OBVIOUS
    <3> QED BY <2>1
  <2>4. Upto(i) = Upto(j) BY <1>2, <2>3, FS_Subset
  <2> QED BY <2>2, <2>4
<1> HIDE DEF Upto, n
<1>4. IsFiniteSet(1 .. n) /\ Cardinality(1 .. n) = n BY <1>1, FS_Interval
<1>5. k \in 1 .. n BY DEF n
<1>6. IsFiniteSet((1 .. n) \ {k}) /\ Cardinality((1 .. n) \ {k}) < n
  <2> DEFINE I == 1 .. n
  <2>1. IsFiniteSet(I) /\ Cardinality(I) = n /\ k \in I BY <1>4, <1>5
  <2> HIDE DEF I
  <2>2. IsFiniteSet(I \ {k}) /\ Cardinality(I \ {k}) = Cardinality(I) - 1 BY <2>1, FS_RemoveElement
  <2>3. Cardinality(I \ {k}) < n BY <1>1, <2>1, <2>2
  <2> QED BY <2>2, <2>3 DEF I
<1>7. PICK i \in S : Rank(S, i) = k
  <2> SUFFICES ASSUME \A i \in S : Rank(S, i) # k PROVE FALSE OBVIOUS
  <2> DEFINE D == (1 .. n) \ {k}
  <2>1. rank \in [S -> D] BY <1>2
  <2>2. IsFiniteSet(D) /\ Cardinality(D) < Cardinality(S) BY <1>6 DEF n
  <2> HIDE DEF D, rank
  <2>3. \E i, j \in S : i # j /\ rank[i] = rank[j] BY <2>1, <2>2, FS_PigeonHole
  <2>4. PICK i \in S, j \in S : i # j /\ rank[i] = rank[j] BY <2>3
  <2>5. Rank(S, i) = Rank(S, j) BY <2>4 DEF rank
  <2>6. i < j \/ j < i BY <2>4
  <2> QED BY <1>3, <2>5, <2>6
<1>8. \A j \in S : Rank(S, j) = k => j = i
  <2> SUFFICES ASSUME NEW j \in S, Rank(S, j) = k, j # i PROVE FALSE OBVIOUS
  <2>1. i < j \/ j < i OBVIOUS
  <2> QED BY <1>3, <1>7, <2>1
<1>9. Nth(S, k) \in S /\ Rank(S, Nth(S, k)) = k BY <1>7 DEF Nth
<1> QED BY <1>8, <1>9

(* A number past all of a set becomes its last, and moves no other.            *)
LEMMA NthGrown ==
  ASSUME NEW S \in SUBSET Nat, IsFiniteSet(S), NEW x \in Nat, \A i \in S : i < x
  PROVE  /\ IsFiniteSet(S \cup {x}) /\ Cardinality(S \cup {x}) = Cardinality(S) + 1
         /\ \A k \in 1 .. Cardinality(S) : Nth(S \cup {x}, k) = Nth(S, k)
         /\ Nth(S \cup {x}, Cardinality(S) + 1) = x
<1> DEFINE T == S \cup {x}
           n == Cardinality(S)
<1>1. T \in SUBSET Nat /\ IsFiniteSet(T) /\ Cardinality(T) = n + 1 /\ n \in Nat
  <2>1. n \in Nat BY FS_CardinalityType
  <2>2. x \notin S OBVIOUS
  <2>3. IsFiniteSet(T) /\ Cardinality(T) = n + 1 BY <2>2, FS_AddElement
  <2> QED BY <2>1, <2>3
<1>2. \A i \in S : Rank(T, i) = Rank(S, i)
  <2> TAKE i \in S
  <2>1. {j \in T : j <= i} = {j \in S : j <= i} OBVIOUS
  <2> QED BY <2>1 DEF Rank
<1>3. Rank(T, x) = Cardinality(T)
  <2>1. \A j \in T : j <= x OBVIOUS
  <2>2. {j \in T : j <= x} = T BY <2>1
  <2> QED BY <2>2 DEF Rank
<1>4. x \in T /\ S \subseteq T OBVIOUS
<1> HIDE DEF T
<1>5. ASSUME NEW k \in 1 .. n PROVE Nth(T, k) = Nth(S, k)
  <2>1. Nth(S, k) \in S /\ Rank(S, Nth(S, k)) = k BY NthIs
  <2>2. Rank(T, Nth(S, k)) = k BY <1>2, <2>1
  <2>3. k \in 1 .. Cardinality(T) BY <1>1
  <2>4. Nth(S, k) \in T BY <1>4, <2>1
  <2>5. \A i \in T : Rank(T, i) = k => i = Nth(T, k) BY <1>1, <2>3, NthIs
  <2> QED BY <2>2, <2>4, <2>5
<1>6. Nth(T, n + 1) = x
  <2>1. n + 1 \in 1 .. Cardinality(T) BY <1>1
  <2> QED BY <1>1, <1>3, <1>4, <2>1, NthIs
<1> QED BY <1>1, <1>5, <1>6 DEF T

(* A sequence has its members, also after one more.                            *)
LEMMA SequentialIs ==
  ASSUME NEW s, Sequential(s)
  PROVE  Len(s) \in Nat /\ DOMAIN s = 1 .. Len(s) /\ s \in Seq({s[i] : i \in 1 .. Len(s)})
<1>1. Len(s) \in Nat /\ s = [i \in 1 .. Len(s) |-> s[i]] BY DEF Sequential
<1>2. DOMAIN s = 1 .. Len(s) BY <1>1
<1>3. s \in [1 .. Len(s) -> {s[i] : i \in 1 .. Len(s)}] BY <1>1
<1> QED BY <1>1, <1>2, <1>3

LEMMA Appended ==
  ASSUME NEW s, Sequential(s), NEW e
  PROVE  /\ Sequential(Append(s, e)) /\ DOMAIN Append(s, e) = 1 .. Len(s) + 1
         /\ \A i \in 1 .. Len(s) : Append(s, e)[i] = s[i]
         /\ Append(s, e)[Len(s) + 1] = e
         /\ Len(Append(s, e)) = Len(s) + 1
<1> DEFINE E == {s[i] : i \in 1 .. Len(s)} \cup {e}
<1>1. Len(s) \in Nat /\ s \in Seq(E)
  <2>1. Len(s) \in Nat /\ s = [i \in 1 .. Len(s) |-> s[i]] BY DEF Sequential
  <2>2. s \in [1 .. Len(s) -> E] BY <2>1
  <2> HIDE DEF E
  <2> QED BY <2>1, <2>2
<1>2. e \in E OBVIOUS
<1> HIDE DEF E
<1>3. Append(s, e) \in Seq(E) /\ Len(Append(s, e)) = Len(s) + 1 BY <1>1, <1>2
<1>4. /\ \A i \in 1 .. Len(s) : Append(s, e)[i] = s[i]
      /\ Append(s, e)[Len(s) + 1] = e
  BY <1>1, <1>2
<1> DEFINE a == Append(s, e)
<1>5. a \in Seq(E) /\ Len(a) \in Nat BY <1>1, <1>3
<1> HIDE DEF a
<1>6. Sequential(a) /\ DOMAIN a = 1 .. Len(a) BY <1>5 DEF Sequential
<1> QED BY <1>1, <1>3, <1>4, <1>6 DEF a

(* What a route lets through of an answer are members of it.                   *)
LEMMA PermittedIs ==
  ASSUME NEW s, NEW acts, Sequential(acts)
  PROVE  /\ Sequential(PermittedBy(s, acts))
         /\ \A k \in DOMAIN PermittedBy(s, acts) : \E i \in DOMAIN acts : PermittedBy(s, acts)[k] = acts[i]
<1> DEFINE keep == {i \in DOMAIN acts : acts[i].type \in s.allowed}
           kept == Kept(acts, keep)
<1>1. Len(acts) \in Nat /\ DOMAIN acts = 1 .. Len(acts) BY SequentialIs
<1>2. IsFiniteSet(1 .. Len(acts)) BY <1>1, FS_Interval
<1>3. keep \in SUBSET Nat /\ IsFiniteSet(keep) BY <1>1, <1>2, FS_Subset
<1>4. Cardinality(keep) \in Nat BY <1>3, FS_CardinalityType
<1>5. \A k \in 1 .. Cardinality(keep) : Nth(keep, k) \in keep BY <1>3, NthIs
<1>6. kept = [k \in 1 .. Cardinality(keep) |-> acts[Nth(keep, k)]] BY DEF Kept
<1>7. Sequential(kept)
  <2> DEFINE E == {acts[i] : i \in DOMAIN acts}
  <2>1. kept \in [1 .. Cardinality(keep) -> E] BY <1>5, <1>6
  <2> HIDE DEF E, kept, keep
  <2>2. kept \in Seq(E) BY <1>4, <2>1
  <2> QED BY <2>2 DEF Sequential
<1>8. \A k \in DOMAIN kept : \E i \in DOMAIN acts : kept[k] = acts[i] BY <1>5, <1>6
<1> QED BY <1>7, <1>8 DEF PermittedBy
(* What a route lets through of a well-formed answer is well formed.           *)
LEMMA AnsweredIs ==
  ASSUME NEW m \in Messages, NEW acts, Answered(m, acts)
  PROVE  /\ Sequential(acts) /\ Len(acts) \in Nat /\ DOMAIN acts = 1 .. Len(acts)
         /\ \A k \in DOMAIN acts : WellFormed(acts[k]) /\ (acts[k].type = "OPEN" => Priced(acts[k]))
<1>1. PICK answer \in Options(m), s \in Routes :
        acts = PermittedBy(s, answer.acts) /\ \A i \in DOMAIN answer.acts : WellFormed(answer.acts[i])
  BY DEF Answered
<1>2. /\ Sequential(answer.acts)
      /\ \A i \in DOMAIN answer.acts :
           WellFormed(answer.acts[i]) /\ answer.acts[i].type = "OPEN" => Priced(answer.acts[i])
  BY IntakeAssumption DEF Options, Priced
<1>3. Sequential(acts) /\ \A k \in DOMAIN acts : \E i \in DOMAIN answer.acts : acts[k] = answer.acts[i]
  BY <1>1, <1>2, PermittedIs
<1>4. Len(acts) \in Nat /\ DOMAIN acts = 1 .. Len(acts) BY <1>3, SequentialIs
<1> QED BY <1>1, <1>2, <1>3, <1>4

-----------------------------------------------------------------------------
(* What a step may do to the table. *)

(* A row s is r with a status that the pipeline may move it to.                *)
Changed(r, s) ==
  /\ IsRow(s) /\ s.msg = r.msg /\ s.type = r.type /\ s.act = r.act /\ s.sig = r.sig
  /\ \/ s.status = r.status
     \/ /\ r.status \in {"pending", "watching", "open"}
        /\ s.status \in {"watching", "open", "closed", "failed", "executed", "rejected"}
        /\ s.status = "watching" => r.type = "OPEN" /\ r.act.pending
        /\ s.status = "open" => r.status # "open"

Revised(old, new) ==
  /\ Sequential(new) /\ Len(new) = Len(old)
  /\ \A i \in 1 .. Len(old) : Changed(old[i], new[i])

LEMMA WithStatus ==
  ASSUME NEW r, IsRow(r), NEW v
  PROVE  LET s == [r EXCEPT !.status = v]
         IN  /\ IsRow(s) /\ s.msg = r.msg /\ s.type = r.type /\ s.act = r.act /\ s.sig = r.sig
             /\ s.status = v
<1>1. [r EXCEPT !.status = v] =
        [msg |-> r.msg, type |-> r.type, act |-> r.act, status |-> v, sig |-> r.sig]
  BY DEF IsRow
<1> QED BY <1>1 DEF IsRow

(* The rows of a message are some of the positions of the table.               *)
LEMMA RowsOfIs ==
  ASSUME NEW table, Sequential(table), NEW m
  PROVE  /\ RowsOf(table, m) \in SUBSET Nat /\ RowsOf(table, m) \subseteq 1 .. Len(table)
         /\ IsFiniteSet(RowsOf(table, m)) /\ Cardinality(RowsOf(table, m)) \in Nat
<1>1. Len(table) \in Nat /\ DOMAIN table = 1 .. Len(table) BY SequentialIs
<1>2. RowsOf(table, m) \subseteq 1 .. Len(table) BY <1>1 DEF RowsOf
<1>3. IsFiniteSet(1 .. Len(table)) BY <1>1, FS_Interval
<1>4. IsFiniteSet(RowsOf(table, m)) BY <1>2, <1>3, FS_Subset
<1>5. Cardinality(RowsOf(table, m)) \in Nat BY <1>4, FS_CardinalityType
<1> QED BY <1>2, <1>4, <1>5

LEMMA RevisedKeeps ==
  ASSUME NEW old, Sequential(old), \A i \in DOMAIN old : Sound(old[i]), NEW new, Revised(old, new)
  PROVE  /\ DOMAIN new = DOMAIN old
         /\ \A i \in DOMAIN new : Sound(new[i])
         /\ \A m : RowsOf(new, m) = RowsOf(old, m)
         /\ \A t : Filed(old, t) => Filed(new, t)
         /\ \A sig : \A n \in 0 .. Len(old) : Apart(old, n, sig) => Apart(new, n, sig)
<1>1. /\ Len(old) \in Nat /\ DOMAIN old = 1 .. Len(old)
      /\ DOMAIN new = 1 .. Len(old) /\ Sequential(new)
      /\ \A i \in 1 .. Len(old) : Changed(old[i], new[i])
  BY SequentialIs DEF Revised
<1>2. \A i \in DOMAIN new : Sound(new[i])
  <2> SUFFICES ASSUME NEW i \in 1 .. Len(old) PROVE Sound(new[i]) BY <1>1
  <2>1. Sound(old[i]) /\ Changed(old[i], new[i]) BY <1>1
  <2> QED BY <2>1 DEF Sound, Changed, Statuses
<1>3. \A m : RowsOf(new, m) = RowsOf(old, m) BY <1>1 DEF RowsOf, Changed
<1>4. ASSUME NEW t, Filed(old, t) PROVE Filed(new, t)
  <2> DEFINE mine == RowsOf(old, t.msg)
  <2>1. mine \in SUBSET Nat /\ mine \subseteq 1 .. Len(old) /\ IsFiniteSet(mine) BY RowsOfIs
  <2>2. Cardinality(mine) = t.nth - 1 /\ \A k \in 1 .. t.nth - 1 : Kept(old, mine)[k].act = t.acts[k]
    BY <1>4 DEF Filed
  <2>3. RowsOf(new, t.msg) = mine BY <1>3
  <2> HIDE DEF mine
  <2>4. ASSUME NEW k \in 1 .. Cardinality(mine) PROVE Kept(new, mine)[k].act = Kept(old, mine)[k].act
    <3>1. Nth(mine, k) \in 1 .. Len(old) BY <2>1, NthIs
    <3>2. new[Nth(mine, k)].act = old[Nth(mine, k)].act BY <1>1, <3>1 DEF Changed
    <3> QED BY <3>2 DEF Kept
  <2> QED BY <2>2, <2>3, <2>4 DEF Filed
<1>5. ASSUME NEW n \in 0 .. Len(old), NEW sig, Apart(old, n, sig) PROVE Apart(new, n, sig)
  <2> SUFFICES ASSUME NEW i \in 1 .. n, new[i].type = "OPEN", new[i].sig = sig
               PROVE  new[i].status # "pending" /\ (new[i].status = "open" => new[i].act.pending)
    BY DEF Apart
  <2>1. i \in 1 .. Len(old) BY <1>1
  <2>2. Sound(old[i]) /\ Changed(old[i], new[i]) BY <1>1, <2>1
  <2>3. old[i].status # "pending" /\ (old[i].status = "open" => old[i].act.pending)
    BY <1>5, <2>2 DEF Apart, Changed
  <2> QED BY <2>2, <2>3 DEF Sound, Changed
<1> QED BY <1>1, <1>2, <1>3, <1>4, <1>5

LEMMA AppendKeeps ==
  ASSUME NEW old, Sequential(old), \A i \in DOMAIN old : Sound(old[i]), NEW r, Sound(r)
  PROVE  LET new == Append(old, r) IN
         /\ Sequential(new) /\ DOMAIN new = 1 .. Len(old) + 1 /\ Len(new) = Len(old) + 1
         /\ \A i \in DOMAIN new : Sound(new[i])
         /\ \A m : m # r.msg => RowsOf(new, m) = RowsOf(old, m)
         /\ \A t : t.msg # r.msg /\ Filed(old, t) => Filed(new, t)
         /\ \A sig : \A n \in 0 .. Len(old) : Apart(old, n, sig) => Apart(new, n, sig)
<1> DEFINE new == Append(old, r)
<1>1. /\ Len(old) \in Nat /\ DOMAIN old = 1 .. Len(old)
      /\ Sequential(new) /\ DOMAIN new = 1 .. Len(old) + 1 /\ Len(new) = Len(old) + 1
      /\ \A i \in 1 .. Len(old) : new[i] = old[i]
      /\ new[Len(old) + 1] = r
  BY SequentialIs, Appended
<1> HIDE DEF new
<1>2. \A i \in 1 .. Len(old) + 1 : i \in 1 .. Len(old) \/ i = Len(old) + 1 BY <1>1
<1>3. \A i \in DOMAIN new : Sound(new[i]) BY <1>1, <1>2
<1>4. \A m : m # r.msg => RowsOf(new, m) = RowsOf(old, m)
  <2> SUFFICES ASSUME NEW m, m # r.msg PROVE RowsOf(new, m) = RowsOf(old, m) OBVIOUS
  <2>1. \A i \in DOMAIN new : new[i].msg = m => i \in DOMAIN old /\ old[i].msg = m BY <1>1, <1>2
  <2>2. \A i \in DOMAIN old : i \in DOMAIN new /\ new[i] = old[i] BY <1>1
  <2> QED BY <2>1, <2>2 DEF RowsOf
<1>5. ASSUME NEW t, t.msg # r.msg, Filed(old, t) PROVE Filed(new, t)
  <2> DEFINE mine == RowsOf(old, t.msg)
  <2>1. mine \in SUBSET Nat /\ mine \subseteq 1 .. Len(old) /\ IsFiniteSet(mine) BY RowsOfIs
  <2>2. Cardinality(mine) = t.nth - 1 /\ \A k \in 1 .. t.nth - 1 : Kept(old, mine)[k].act = t.acts[k]
    BY <1>5 DEF Filed
  <2>3. RowsOf(new, t.msg) = mine BY <1>4, <1>5
  <2> HIDE DEF mine
  <2>4. ASSUME NEW k \in 1 .. Cardinality(mine) PROVE Kept(new, mine)[k] = Kept(old, mine)[k]
    <3>1. Nth(mine, k) \in 1 .. Len(old) BY <2>1, NthIs
    <3> QED BY <1>1, <3>1 DEF Kept
  <2> QED BY <2>2, <2>3, <2>4 DEF Filed
<1>6. ASSUME NEW n \in 0 .. Len(old), NEW sig, Apart(old, n, sig) PROVE Apart(new, n, sig)
  <2>1. \A i \in 1 .. n : new[i] = old[i] BY <1>1
  <2> QED BY <1>6, <2>1 DEF Apart
<1> QED BY <1>1, <1>3, <1>4, <1>5, <1>6 DEF new

(* A row of the task's message continues what is on file of it.                *)
LEMMA AppendFiles ==
  ASSUME NEW old, Sequential(old), NEW r, NEW t, t.nth \in Nat, Filed(old, t),
         r.msg = t.msg, r.act = t.acts[t.nth]
  PROVE  LET told == Kept(Append(old, r), RowsOf(Append(old, r), t.msg)) IN
         /\ Cardinality(RowsOf(Append(old, r), t.msg)) = t.nth
         /\ \A k \in 1 .. t.nth : told[k].act = t.acts[k]
<1> DEFINE new == Append(old, r)
           S == RowsOf(old, t.msg)
           x == Len(old) + 1
<1>1. /\ Len(old) \in Nat /\ DOMAIN old = 1 .. Len(old) /\ DOMAIN new = 1 .. x
      /\ \A i \in 1 .. Len(old) : new[i] = old[i]
      /\ new[x] = r
  BY SequentialIs, Appended
<1>2. /\ S \in SUBSET Nat /\ S \subseteq 1 .. Len(old) /\ IsFiniteSet(S)
      /\ Cardinality(S) \in Nat
  BY RowsOfIs
<1>3. /\ Cardinality(S) = t.nth - 1
      /\ \A k \in 1 .. t.nth - 1 : Kept(old, S)[k].act = t.acts[k]
  BY DEF Filed
<1> HIDE DEF new
<1>4. RowsOf(new, t.msg) = S \cup {x} BY <1>1 DEF RowsOf
<1>5. x \in Nat /\ \A i \in S : i < x BY <1>1, <1>2
<1> HIDE DEF S, x
<1>6. /\ Cardinality(S \cup {x}) = Cardinality(S) + 1
      /\ \A k \in 1 .. Cardinality(S) : Nth(S \cup {x}, k) = Nth(S, k)
      /\ Nth(S \cup {x}, Cardinality(S) + 1) = x
  BY <1>2, <1>5, NthGrown
<1>7. Cardinality(S \cup {x}) = t.nth BY <1>3, <1>6
<1>8. ASSUME NEW k \in 1 .. t.nth PROVE Kept(new, S \cup {x})[k].act = t.acts[k]
  <2>1. Kept(new, S \cup {x})[k] = new[Nth(S \cup {x}, k)] BY <1>7 DEF Kept
  <2>2. CASE k = t.nth BY <1>1, <1>3, <1>6, <2>1, <2>2
  <2>3. CASE k # t.nth
    <3>1. k \in 1 .. Cardinality(S) BY <1>3, <2>3
    <3>2. Nth(S, k) \in 1 .. Len(old) BY <1>2, <3>1, NthIs
    <3>3. Kept(old, S)[k] = old[Nth(S, k)] BY <3>1 DEF Kept
    <3>4. Kept(new, S \cup {x})[k] = new[Nth(S, k)] BY <1>6, <2>1, <3>1
    <3>5. new[Nth(S, k)] = old[Nth(S, k)] BY <1>1, <3>2
    <3>6. Kept(old, S)[k].act = t.acts[k] BY <1>3, <3>1
    <3> QED BY <3>3, <3>4, <3>5, <3>6
  <2> QED BY <2>2, <2>3
<1> QED BY <1>4, <1>7, <1>8 DEF new
(* What the rest of the program does to the table.                             *)
LEMMA TradeRevises ==
  ASSUME Table, NEW i \in DOMAIN rows, Trade(i)
  PROVE  Revised(rows, rows')
<1>1. /\ Len(rows) \in Nat /\ DOMAIN rows = 1 .. Len(rows)
      /\ rows \in Seq({rows[k] : k \in 1 .. Len(rows)})
  BY SequentialIs DEF Table
<1>2. \A k \in DOMAIN rows : Sound(rows[k]) /\ IsRow(rows[k]) BY DEF Table, Sound
<1>3. \A k \in DOMAIN rows : Changed(rows[k], rows[k]) BY <1>2 DEF Changed
<1> DEFINE To(k, v) == [rows[k] EXCEPT !.status = v]
<1>4. \A v : \A k \in DOMAIN rows :
        /\ IsRow(To(k, v)) /\ To(k, v).msg = rows[k].msg /\ To(k, v).type = rows[k].type
        /\ To(k, v).act = rows[k].act /\ To(k, v).sig = rows[k].sig /\ To(k, v).status = v
  BY <1>2, WithStatus
<1> HIDE DEF To
<1>5. \E f : /\ rows' = [k \in DOMAIN rows |-> f[k]]
             /\ \A k \in DOMAIN rows : Changed(rows[k], f[k])
  <2>1. ASSUME NEW v, rows' = [rows EXCEPT ![i].status = v], Changed(rows[i], To(i, v))
        PROVE  \E f : /\ rows' = [k \in DOMAIN rows |-> f[k]]
                      /\ \A k \in DOMAIN rows : Changed(rows[k], f[k])
    <3> DEFINE f == [k \in DOMAIN rows |-> IF k = i THEN To(i, v) ELSE rows[k]]
    <3>1. \A k \in DOMAIN rows : Changed(rows[k], f[k]) BY <1>3, <2>1
    <3>2. rows' = [k \in DOMAIN rows |-> f[k]] BY <1>1, <2>1 DEF To
    <3> QED BY <3>1, <3>2
  <2>2. ASSUME NEW D \in SUBSET DOMAIN rows, rows[i].status = "pending",
               \A k \in D : rows[k].status = "open",
               rows' = [k \in DOMAIN rows |->
                          IF k = i THEN [rows[k] EXCEPT !.status = "executed"]
                          ELSE IF k \in D THEN [rows[k] EXCEPT !.status = "closed"]
                          ELSE rows[k]]
        PROVE  \E f : /\ rows' = [k \in DOMAIN rows |-> f[k]]
                      /\ \A k \in DOMAIN rows : Changed(rows[k], f[k])
    <3> DEFINE f == [k \in DOMAIN rows |->
                       IF k = i THEN To(k, "executed") ELSE IF k \in D THEN To(k, "closed") ELSE rows[k]]
    <3>1. Changed(rows[i], To(i, "executed")) BY <1>4, <2>2 DEF Changed
    <3>2. \A k \in D : Changed(rows[k], To(k, "closed")) BY <1>4, <2>2 DEF Changed
    <3>3. \A k \in DOMAIN rows : Changed(rows[k], f[k]) BY <1>3, <3>1, <3>2
    <3>4. rows' = [k \in DOMAIN rows |-> f[k]] BY <2>2 DEF To
    <3> QED BY <3>3, <3>4
  <2>3. CASE rows[i].status = "pending" /\ rows[i].type = "OPEN" /\ rows[i].act.pending /\
             rows' = [rows EXCEPT ![i].status = "watching"]
    <3>1. Changed(rows[i], To(i, "watching")) BY <1>4, <2>3 DEF Changed
    <3> QED BY <2>1, <2>3, <3>1
  <2>4. CASE rows[i].status = "pending" /\ rows[i].type = "OPEN" /\ ~rows[i].act.pending /\
             \E v \in {"open", "failed"} : rows' = [rows EXCEPT ![i].status = v]
    <3>1. Changed(rows[i], To(i, "open")) /\ Changed(rows[i], To(i, "failed"))
      BY <1>4, <2>4 DEF Changed
    <3> QED BY <2>1, <2>4, <3>1
  <2>5. CASE rows[i].status = "watching" /\ rows' = [rows EXCEPT ![i].status = "open"]
    BY <1>4, <2>1, <2>5 DEF Changed
  <2>6. CASE rows[i].status = "open" /\ rows' = [rows EXCEPT ![i].status = "closed"]
    <3>1. Changed(rows[i], To(i, "closed")) BY <1>4, <2>6 DEF Changed
    <3> QED BY <2>1, <2>6, <3>1
  <2>7. CASE rows[i].status = "pending" /\ rows[i].type = "CLOSE" /\
             rows' = [k \in DOMAIN rows |->
                        IF k = i THEN [rows[k] EXCEPT !.status = "executed"]
                        ELSE IF k \in OnMarket /\ k = rows[i].act.mt5_ticket
                        THEN [rows[k] EXCEPT !.status = "closed"]
                        ELSE rows[k]]
    <3> DEFINE D == {k \in OnMarket : k = rows[i].act.mt5_ticket}
    <3>1. D \in SUBSET DOMAIN rows /\ \A k \in D : rows[k].status = "open" BY DEF OnMarket
    <3>2. rows' = [k \in DOMAIN rows |->
                     IF k = i THEN [rows[k] EXCEPT !.status = "executed"]
                     ELSE IF k \in D THEN [rows[k] EXCEPT !.status = "closed"]
                     ELSE rows[k]]
      BY <2>7
    <3> HIDE DEF D
    <3> QED BY <2>2, <2>7, <3>1, <3>2
  <2>8. CASE rows[i].status = "pending" /\ rows[i].type = "CLOSE_FULL" /\
             rows' = [k \in DOMAIN rows |->
                        IF k = i THEN [rows[k] EXCEPT !.status = "executed"]
                        ELSE IF k \in OnMarket THEN [rows[k] EXCEPT !.status = "closed"]
                        ELSE rows[k]]
    <3>1. OnMarket \in SUBSET DOMAIN rows /\ \A k \in OnMarket : rows[k].status = "open" BY DEF OnMarket
    <3> QED BY <2>2, <2>8, <3>1
  <2>9. QED BY <2>3, <2>4, <2>5, <2>6, <2>7, <2>8 DEF Trade
<1>6. PICK f : /\ rows' = [k \in DOMAIN rows |-> f[k]]
               /\ \A k \in DOMAIN rows : Changed(rows[k], f[k])
  BY <1>5
<1>7. rows' \in [1 .. Len(rows) -> {f[k] : k \in 1 .. Len(rows)}] BY <1>1, <1>6
<1>8. rows' \in Seq({f[k] : k \in 1 .. Len(rows)}) /\ Len(rows') = Len(rows)
  <2> DEFINE F == {f[k] : k \in 1 .. Len(rows)}
  <2>1. rows' \in [1 .. Len(rows) -> F] BY <1>7
  <2> HIDE DEF F
  <2>2. rows' \in Seq(F) /\ Len(rows') = Len(rows) BY <1>1, <2>1
  <2> QED BY <2>2 DEF F
<1>9. Sequential(rows') BY <1>1, <1>6, <1>8 DEF Sequential
<1> QED BY <1>1, <1>6, <1>8, <1>9 DEF Revised

LEMMA CancelRevises ==
  ASSUME NEW table, Sequential(table), \A i \in DOMAIN table : Sound(table[i])
  PROVE  Revised(table, Cancelled(table)) /\ Revised(table, table)
<1>1. Len(table) \in Nat /\ DOMAIN table = 1 .. Len(table) BY SequentialIs
<1>2. \A i \in DOMAIN table : IsRow(table[i]) BY DEF Sound
<1> DEFINE new == Cancelled(table)
<1>3. DOMAIN new = 1 .. Len(table) BY <1>1 DEF Cancelled
<1>4. ASSUME NEW i \in 1 .. Len(table) PROVE Changed(table[i], new[i])
  <2> DEFINE s == [table[i] EXCEPT !.status = "rejected"]
  <2>1. /\ IsRow(s) /\ s.msg = table[i].msg /\ s.type = table[i].type /\ s.act = table[i].act
        /\ s.sig = table[i].sig /\ s.status = "rejected"
    BY <1>1, <1>2, WithStatus
  <2>2. new[i] = IF table[i].type = "OPEN" /\ table[i].status = "watching" THEN s ELSE table[i]
    BY <1>1 DEF Cancelled
  <2> HIDE DEF s, new
  <2> QED BY <1>1, <1>2, <2>1, <2>2 DEF Changed
<1>5. new \in Seq({new[i] : i \in 1 .. Len(table)}) /\ Len(new) = Len(table)
  <2>1. new \in [1 .. Len(table) -> {new[i] : i \in 1 .. Len(table)}] BY <1>3 DEF Cancelled
  <2> HIDE DEF new
  <2> QED BY <1>1, <2>1
<1> HIDE DEF new
<1>6. Sequential(new) BY <1>1, <1>5 DEF Sequential
<1>7. Revised(table, new) BY <1>4, <1>5, <1>6 DEF Revised
<1>8. Revised(table, table) BY <1>1, <1>2 DEF Revised, Changed
<1> QED BY <1>7, <1>8 DEF new
-----------------------------------------------------------------------------
(* The steps. *)

(* An instruction of a replayed message is parked.                             *)
Parked(r) ==
  arrived[r.msg] = "replayed" /\ r.type \in {"CLOSE_FULL", "MOVE_SL_BE"} => r.status = "parked"

LEMMA TableRevised ==
  ASSUME IntakeInv, Revised(rows, rows'), UNCHANGED <<arrived, tasks, decided, memory>>,
         route' \in Routes, edits' \in 0 .. MaxEdits
  PROVE  IntakeInv'
<1>1. Sequential(rows) /\ \A i \in DOMAIN rows : Sound(rows[i]) BY DEF IntakeInv, Table
<1>2. /\ DOMAIN rows' = DOMAIN rows /\ Len(rows') = Len(rows) /\ Sequential(rows')
      /\ \A i \in DOMAIN rows' : Sound(rows'[i])
      /\ \A m : RowsOf(rows', m) = RowsOf(rows, m)
      /\ \A t : Filed(rows, t) => Filed(rows', t)
      /\ \A sig : \A n \in 0 .. Len(rows) : Apart(rows, n, sig) => Apart(rows', n, sig)
  BY <1>1, RevisedKeeps DEF Revised
<1>3. \A i \in DOMAIN rows : Changed(rows[i], rows'[i]) BY <1>1, SequentialIs DEF Revised
<1>4. ASSUME NEW t \in tasks PROVE Working(t)'
  <2>1. Working(t) BY DEF IntakeInv
  <2>2. Progress(t)' BY <1>2, <2>1 DEF Working, Progress, Answered, Options
  <2>3. Tested(t)' BY <1>2, <2>1 DEF Working, Tested
  <2> QED BY <1>2, <2>1, <2>2, <2>3 DEF Working
<1>5. TypeOK' BY <1>2, <1>3 DEF IntakeInv, TypeOK, Sound, Changed
<1>6. ReplayLeavesPositions' BY <1>2, <1>3 DEF IntakeInv, ReplayLeavesPositions, Changed
<1>7. Table' /\ Single' BY <1>2 DEF IntakeInv, Table, Single
<1> QED BY <1>4, <1>5, <1>6, <1>7 DEF IntakeInv

(* What a task of message m may do to the table.                               *)
Moved(m) ==
  /\ Sequential(rows') /\ Len(rows) <= Len(rows') /\ \A i \in DOMAIN rows' : Sound(rows'[i])
  /\ \A k : k # m => RowsOf(rows', k) = RowsOf(rows, k)
  /\ \A v : v.msg # m /\ Filed(rows, v) => Filed(rows', v)
  /\ \A sig : \A n \in 0 .. Len(rows) : Apart(rows, n, sig) => Apart(rows', n, sig)
  /\ \A i \in DOMAIN rows' : arrived[rows'[i].msg] # "no" /\ Parked(rows'[i])

LEMMA MovedNot ==
  ASSUME IntakeInv, UNCHANGED rows, NEW m
  PROVE  Moved(m)
<1>1. Len(rows) \in Nat BY SequentialIs DEF IntakeInv, Table
<1> QED BY <1>1 DEF IntakeInv, Table, TypeOK, ReplayLeavesPositions, Moved, Parked

LEMMA MovedOn ==
  ASSUME IntakeInv, NEW base, Revised(rows, base), NEW r, Sound(r), Parked(r),
         arrived[r.msg] # "no", rows' = Append(base, r)
  PROVE  Moved(r.msg)
<1>1. Sequential(rows) /\ \A i \in DOMAIN rows : Sound(rows[i]) BY DEF IntakeInv, Table
<1>2. /\ Sequential(base) /\ Len(base) = Len(rows) /\ DOMAIN base = DOMAIN rows
      /\ \A i \in DOMAIN base : Sound(base[i])
      /\ \A m : RowsOf(base, m) = RowsOf(rows, m)
      /\ \A t : Filed(rows, t) => Filed(base, t)
      /\ \A sig : \A n \in 0 .. Len(rows) : Apart(rows, n, sig) => Apart(base, n, sig)
  BY <1>1, RevisedKeeps DEF Revised
<1>3. /\ Sequential(rows') /\ DOMAIN rows' = 1 .. Len(base) + 1 /\ Len(rows') = Len(base) + 1
      /\ \A i \in DOMAIN rows' : Sound(rows'[i])
      /\ \A m : m # r.msg => RowsOf(rows', m) = RowsOf(base, m)
      /\ \A t : t.msg # r.msg /\ Filed(base, t) => Filed(rows', t)
      /\ \A sig : \A n \in 0 .. Len(base) : Apart(base, n, sig) => Apart(rows', n, sig)
  BY <1>2, AppendKeeps
<1>4. Len(rows) \in Nat /\ DOMAIN rows = 1 .. Len(rows) BY <1>1, SequentialIs
<1>5. \A i \in DOMAIN rows' : arrived[rows'[i].msg] # "no" /\ Parked(rows'[i])
  <2>1. \A i \in 1 .. Len(base) : rows'[i] = base[i] BY <1>2, Appended
  <2>2. rows'[Len(base) + 1] = r BY <1>2, Appended
  <2>3. \A i \in 1 .. Len(rows) : Changed(rows[i], base[i]) BY DEF Revised
  <2>4. \A i \in 1 .. Len(rows) : arrived[rows[i].msg] # "no" /\ Parked(rows[i])
    BY <1>4 DEF IntakeInv, TypeOK, ReplayLeavesPositions, Parked
  <2>5. \A i \in 1 .. Len(rows) : arrived[base[i].msg] # "no" /\ Parked(base[i])
    BY <2>3, <2>4 DEF Changed, Parked
  <2> QED BY <1>2, <1>3, <1>4, <2>1, <2>2, <2>5
<1> QED BY <1>2, <1>3, <1>4, <1>5 DEF Moved

(* And to what is noted of the messages.                                       *)
Settled(m) ==
  /\ decided' \in [Messages -> Stages]
  /\ \A k \in Messages : k # m => decided'[k] = decided[k]
  /\ memory' \subseteq {k \in Messages : decided'[k] = "interpreted"}

(* A task goes on, or ends. *)
LEMMA TaskMoves ==
  ASSUME IntakeInv, NEW t \in tasks, NEW U, tasks' = (tasks \ {t}) \cup U,
         \A u, v \in U : u = v,
         \A u \in U : u.msg = t.msg /\ Working(u)',
         Moved(t.msg), UNCHANGED <<arrived, route, edits>>,
         Settled(t.msg)
  PROVE  IntakeInv'
<1>1. \A u \in tasks \ {t} : u.msg # t.msg BY DEF IntakeInv, Single
<1>2. ASSUME NEW u \in tasks \ {t} PROVE Working(u)'
  <2>1. Working(u) /\ u.msg # t.msg /\ u.msg \in Messages BY <1>1 DEF IntakeInv, Working, IsTask
  <2>2. Progress(u)' BY <2>1 DEF Working, Progress, Answered, Options, Moved, Settled
  <2>3. Tested(u)' BY <2>1 DEF Working, Tested, Moved
  <2>4. u.tested \in 0 .. Len(rows') /\ IsTask(u)
    <3>1. Len(rows) \in Nat /\ Len(rows') \in Nat BY SequentialIs DEF IntakeInv, Table, Moved
    <3> QED BY <2>1, <3>1 DEF Working, Moved
  <2> QED BY <2>1, <2>2, <2>3, <2>4 DEF Working
<1>3. \A u \in tasks' : Working(u)' BY <1>2
<1>4. Single'
  <2>1. t.msg \in Messages /\ arrived[t.msg] # "no" BY DEF IntakeInv, Working, IsTask
  <2>2. \A u, v \in tasks' : u.msg = v.msg => u = v BY <1>1 DEF IntakeInv, Single
  <2>3. \A m \in Messages : arrived'[m] = "no" => decided'[m] = "none"
    BY <2>1 DEF IntakeInv, Single, Settled
  <2> QED BY <2>2, <2>3 DEF Single
<1>5. Table' /\ ReplayLeavesPositions' BY DEF Table, ReplayLeavesPositions, Moved, Parked
<1>6. TypeOK'
  <2>1. ASSUME NEW u \in tasks'
        PROVE  /\ arrived'[u.msg] = IF u.backfill THEN "replayed" ELSE "live"
               /\ u.step \in {"read", "ask", "test", "insert"}
               /\ u.step \in {"test", "insert"} => u.nth \in DOMAIN u.acts
               /\ u.tested \in 0 .. Len(rows')
    <3>1. Working(u)' BY <1>3
    <3>2. ASSUME u.step \in {"test", "insert"} PROVE u.nth \in DOMAIN u.acts
      <4>1. u.nth \in 1 .. Len(u.acts) /\ Answered(u.msg, u.acts) /\ u.msg \in Messages
        BY <3>1, <3>2 DEF Working, Progress, IsTask, Answered, Options
      <4> QED BY <4>1, AnsweredIs
    <3> QED BY <3>1, <3>2 DEF Working, IsTask
  <2>2. \A i \in DOMAIN rows' : arrived'[rows'[i].msg] # "no" /\ rows'[i].status \in Statuses
    BY DEF Moved, Sound
  <2> QED BY <2>1, <2>2 DEF IntakeInv, TypeOK, Settled
<1> QED BY <1>3, <1>4, <1>5, <1>6 DEF IntakeInv
LEMMA TaskGoesOn ==
  ASSUME IntakeInv, NEW t \in tasks, NEW u, tasks' = (tasks \ {t}) \cup {u},
         u.msg = t.msg, Working(u)',
         Moved(t.msg), UNCHANGED <<arrived, route, edits>>, Settled(t.msg)
  PROVE  IntakeInv'
<1>1. PICK U : U = {u} OBVIOUS
<1>2. /\ tasks' = (tasks \ {t}) \cup U /\ \A v, w \in U : v = w
      /\ \A v \in U : v.msg = t.msg /\ Working(v)'
  BY <1>1
<1> QED BY <1>2, TaskMoves

LEMMA TaskEnds ==
  ASSUME IntakeInv, NEW t \in tasks, tasks' = tasks \ {t},
         Moved(t.msg), UNCHANGED <<arrived, route, edits>>, Settled(t.msg)
  PROVE  IntakeInv'
<1>1. PICK U : U = {} OBVIOUS
<1>2. /\ tasks' = (tasks \ {t}) \cup U /\ \A v, w \in U : v = w
      /\ \A v \in U : v.msg = t.msg /\ Working(v)'
  BY <1>1
<1> QED BY <1>2, TaskMoves

LEMMA TaskWith ==
  ASSUME NEW t, IsTask(t), NEW step \in {"read", "ask", "test", "insert"}, NEW acts, NEW nth,
         NEW verdict \in {"ok", "duplicate", "refused"}, NEW tested, NEW clears,
         NEW u, u = [msg |-> t.msg, backfill |-> t.backfill, step |-> step, acts |-> acts,
                     nth |-> nth, verdict |-> verdict, tested |-> tested, clears |-> clears]
  PROVE  /\ IsTask(u) /\ u.msg = t.msg /\ u.backfill = t.backfill /\ u.step = step
         /\ u.acts = acts /\ u.nth = nth /\ u.verdict = verdict /\ u.tested = tested
BY DEF IsTask

LEMMA BeginKeeps ==
  ASSUME IntakeInv, NEW m \in Messages, NEW backfill \in BOOLEAN, Begin(m, backfill)
  PROVE  IntakeInv'
<1> DEFINE u == [msg |-> m, backfill |-> backfill, step |-> "read", acts |-> <<>>,
                 nth |-> 1, verdict |-> "ok", tested |-> 0, clears |-> FALSE]
<1>1. /\ arrived[m] = "no" /\ tasks' = tasks \cup {u}
      /\ arrived' = [arrived EXCEPT ![m] = IF backfill THEN "replayed" ELSE "live"]
      /\ UNCHANGED <<decided, memory, rows, route, edits>>
  BY DEF Begin
<1>2. arrived \in [Messages -> {"no", "live", "replayed"}] BY DEF IntakeInv, TypeOK
<1>3. \A k \in Messages : k # m => arrived'[k] = arrived[k] BY <1>1, <1>2
<1>4. /\ arrived' \in [Messages -> {"no", "live", "replayed"}]
      /\ arrived'[m] = IF backfill THEN "replayed" ELSE "live"
  BY <1>1, <1>2
<1>5. \A i \in DOMAIN rows : arrived[rows[i].msg] # "no" BY DEF IntakeInv, TypeOK
<1> HIDE DEF u
<1>6. \A t \in tasks : t.msg \in Messages /\ t.msg # m BY <1>1 DEF IntakeInv, Working, IsTask
<1>7. \A i \in DOMAIN rows : rows[i].msg \in Messages /\ rows[i].msg # m
  BY <1>1, <1>5 DEF IntakeInv, Table, Sound
<1>8. ASSUME NEW t \in tasks PROVE Working(t)'
  <2>1. Working(t) BY DEF IntakeInv
  <2>2. arrived'[t.msg] = arrived[t.msg] BY <1>3, <1>6
  <2>3. Progress(t)' /\ Tested(t)' BY <1>1, <2>1 DEF Working, Progress, Answered, Options, Tested
  <2> QED BY <1>1, <2>1, <2>2, <2>3 DEF Working
<1>9. Working(u)'
  <2>1. /\ IsTask(u) /\ u.msg = m /\ u.backfill = backfill /\ u.step = "read" /\ u.nth = 1
        /\ u.tested = 0
    BY DEF IsTask, u
  <2>2. RowsOf(rows, m) = {} BY <1>7 DEF RowsOf
  <2>3. decided[m] = "none" BY <1>1 DEF IntakeInv, Single
  <2>4. Len(rows) \in Nat BY SequentialIs DEF IntakeInv, Table
  <2> QED BY <1>1, <1>4, <2>1, <2>2, <2>3, <2>4 DEF Working, Progress, Tested
<1>10. \A t \in tasks' : Working(t)' BY <1>1, <1>8, <1>9
<1>11. Single'
  <2>1. u.msg = m BY DEF u
  <2>2. \A t, v \in tasks' : t.msg = v.msg => t = v BY <1>1, <1>6, <2>1 DEF IntakeInv, Single
  <2>3. \A k \in Messages : arrived'[k] = "no" => decided'[k] = "none"
    BY <1>1, <1>3, <1>4 DEF IntakeInv, Single
  <2> QED BY <2>2, <2>3 DEF Single
<1>12. Table' BY <1>1 DEF IntakeInv, Table
<1>13. ReplayLeavesPositions' BY <1>1, <1>3, <1>7 DEF IntakeInv, ReplayLeavesPositions
<1>14. TypeOK'
  <2>1. \A i \in DOMAIN rows' : arrived'[rows'[i].msg] # "no" /\ rows'[i].status \in Statuses
    BY <1>1, <1>3, <1>5, <1>7 DEF IntakeInv, TypeOK
  <2>2. ASSUME NEW t \in tasks'
        PROVE  /\ arrived'[t.msg] = IF t.backfill THEN "replayed" ELSE "live"
               /\ t.step \in {"read", "ask", "test", "insert"}
               /\ t.step \in {"test", "insert"} => t.nth \in DOMAIN t.acts
               /\ t.tested \in 0 .. Len(rows')
    <3>1. CASE t \in tasks BY <1>1, <1>3, <1>6, <3>1 DEF IntakeInv, TypeOK
    <3>2. CASE t = u
      <4>1. u.step = "read" BY DEF u
      <4> QED BY <1>9, <3>2, <4>1 DEF Working
    <3> QED BY <1>1, <3>1, <3>2
  <2> QED BY <1>1, <1>4, <2>1, <2>2 DEF IntakeInv, TypeOK
<1> QED BY <1>10, <1>11, <1>12, <1>13, <1>14 DEF IntakeInv

LEMMA HaltKeeps ==
  ASSUME IntakeInv, NEW t \in tasks, Halt(t)
  PROVE  IntakeInv'
<1>1. tasks' = tasks \ {t} /\ UNCHANGED <<arrived, decided, memory, rows, route, edits>>
  BY DEF Halt
<1>2. Moved(t.msg) BY <1>1, MovedNot
<1>3. Settled(t.msg) BY <1>1 DEF Settled, IntakeInv, TypeOK
<1> QED BY <1>1, <1>2, <1>3, TaskEnds

(* A task takes up what the route permits of a whole answer. *)
LEMMA PersistKeeps ==
  ASSUME IntakeInv, NEW t \in tasks, t.step \in {"read", "ask"},
         NEW answer \in Options(t.msg), \A i \in DOMAIN answer.acts : WellFormed(answer.acts[i]),
         NEW clears, NEW noted, Persist(t, Permitted(answer.acts), clears, noted),
         UNCHANGED <<arrived, rows, route, edits>>,
         NEW stage \in Stages, Decide(t, stage),
         noted \subseteq {m \in Messages : decided'[m] = "interpreted"}
  PROVE  IntakeInv'
<1>0. PICK acts : acts = Permitted(answer.acts) OBVIOUS
<1>1. IsTask(t) /\ t.msg \in Messages /\ Working(t) BY DEF IntakeInv, Working, IsTask
<1>2. Answered(t.msg, acts) BY <1>0 DEF Answered, Permitted, IntakeInv, TypeOK
<1>3. Sequential(acts) /\ Len(acts) \in Nat BY <1>1, <1>2, AnsweredIs
<1>4. Moved(t.msg) BY MovedNot
<1>5. /\ decided' \in [Messages -> Stages]
      /\ \A m \in Messages : m # t.msg => decided'[m] = decided[m]
  BY <1>1 DEF Decide, IntakeInv, TypeOK
<1>6. CASE acts = <<>>
  <2>1. tasks' = tasks \ {t} /\ memory' \in {{}, noted} BY <1>0, <1>6 DEF Persist
  <2>2. Settled(t.msg) BY <1>5, <2>1 DEF Settled
  <2> QED BY <1>4, <2>1, <2>2, TaskEnds
<1>7. CASE acts # <<>>
  <2>0. PICK u : u = [t EXCEPT !.step = "test", !.acts = acts, !.clears = clears] OBVIOUS
  <2>1. tasks' = (tasks \ {t}) \cup {u} /\ memory' = noted BY <1>0, <1>7, <2>0 DEF Persist, Step
  <2>2. u = [msg |-> t.msg, backfill |-> t.backfill, step |-> "test", acts |-> acts, nth |-> t.nth,
             verdict |-> t.verdict, tested |-> t.tested, clears |-> clears]
    BY <1>1, <2>0 DEF IsTask
  <2>3. /\ IsTask(u) /\ u.msg = t.msg /\ u.backfill = t.backfill /\ u.step = "test"
        /\ u.acts = acts /\ u.nth = t.nth /\ u.tested = t.tested
    BY <1>1, <2>2, TaskWith DEF IsTask
  <2>4. t.nth = 1 /\ RowsOf(rows, t.msg) = {} BY <1>1 DEF Working, Progress
  <2>5. 1 \in 1 .. Len(acts)
    <3>1. SUFFICES ASSUME Len(acts) = 0 PROVE FALSE BY <1>3
    <3>2. acts = [i \in 1 .. 0 |-> acts[i]] BY <1>3, <3>1 DEF Sequential
    <3>3. acts = <<>> BY <3>2
    <3> QED BY <1>7, <3>3
  <2>6. Filed(rows, u) BY <2>3, <2>4, FS_EmptySet DEF Filed
  <2>7. Progress(u)' BY <1>2, <2>3, <2>4, <2>5, <2>6 DEF Progress, Answered, Options
  <2>8. Working(u)' BY <1>1, <2>3, <2>7 DEF Working, Tested
  <2>9. Settled(t.msg) BY <1>5, <2>1 DEF Settled
  <2> QED BY <1>4, <2>1, <2>3, <2>8, <2>9, TaskGoesOn
<1> QED BY <1>6, <1>7

LEMMA MatchTriggersKeeps ==
  ASSUME IntakeInv, NEW t \in tasks, MatchTriggers(t)
  PROVE  IntakeInv'
<1>1. PICK r \in Readings[t.msg].matched :
        Decide(t, r.stage) /\ Persist(t, Permitted(r.acts), FALSE, memory)
  BY DEF MatchTriggers
<1>2. t.step = "read" /\ UNCHANGED <<arrived, rows, route, edits>> BY DEF MatchTriggers
<1>3. t.msg \in Messages /\ decided[t.msg] = "none"
  BY <1>2 DEF IntakeInv, Working, IsTask, Progress
<1>4. /\ r \in Options(t.msg) /\ r.stage \in Stages
      /\ \A i \in DOMAIN r.acts : WellFormed(r.acts[i])
  BY <1>3, IntakeAssumption DEF Options, Stages
<1>5. memory \subseteq {m \in Messages : decided'[m] = "interpreted"}
  BY <1>1, <1>3 DEF Decide, IntakeInv, TypeOK
<1> QED BY <1>1, <1>2, <1>4, <1>5, PersistKeeps

LEMMA TriageKeeps ==
  ASSUME IntakeInv, NEW t \in tasks, Triage(t)
  PROVE  IntakeInv'
<1>1. t.step = "read" /\ UNCHANGED <<arrived, memory, rows, route, edits>> BY DEF Triage
<1>2. IsTask(t) /\ t.msg \in Messages /\ decided[t.msg] = "none" /\ Working(t)
  BY <1>1 DEF IntakeInv, Working, IsTask, Progress
<1>3. Moved(t.msg) BY <1>1, MovedNot
<1>4. CASE Decide(t, "triage_ignored") /\ tasks' = tasks \ {t}
  <2>1. Settled(t.msg) BY <1>1, <1>2, <1>4 DEF Decide, Settled, Stages, IntakeInv, TypeOK
  <2> QED BY <1>1, <1>3, <1>4, <2>1, TaskEnds
<1>5. CASE Step(t, [t EXCEPT !.step = "ask"]) /\ UNCHANGED decided
  <2>1. PICK u : u = [t EXCEPT !.step = "ask"] OBVIOUS
  <2>2. u = [msg |-> t.msg, backfill |-> t.backfill, step |-> "ask", acts |-> t.acts, nth |-> t.nth,
             verdict |-> t.verdict, tested |-> t.tested, clears |-> t.clears]
    BY <1>2, <2>1 DEF IsTask
  <2>3. tasks' = (tasks \ {t}) \cup {u} BY <1>5, <2>1 DEF Step
  <2>4. /\ IsTask(u) /\ u.msg = t.msg /\ u.backfill = t.backfill /\ u.step = "ask"
        /\ u.nth = t.nth /\ u.tested = t.tested
    BY <1>2, <2>2, TaskWith DEF IsTask
  <2>5. Working(u)' BY <1>1, <1>2, <1>5, <2>4 DEF Working, Progress, Tested
  <2>6. Settled(t.msg) BY <1>1, <1>5 DEF Settled, IntakeInv, TypeOK
  <2> QED BY <1>1, <1>3, <2>3, <2>4, <2>5, <2>6, TaskGoesOn
<1> QED BY <1>4, <1>5 DEF Triage
(* The last of the tries is one of the answers. *)
LEMMA InterpretedIs ==
  ASSUME NEW answers, NEW answer \in Interpreted(answers)
  PROVE  answer \in answers
<1>1. PICK tries \in UNION {[1 .. n -> answers] : n \in 1 .. MaxRetries} : answer = tries[Len(tries)]
  BY DEF Interpreted
<1>2. PICK n \in 1 .. MaxRetries : tries \in [1 .. n -> answers] BY <1>1
<1>3. n \in Nat /\ n \in 1 .. n BY <1>2 DEF MaxRetries
<1>4. Len(tries) = n BY <1>2, <1>3
<1> QED BY <1>1, <1>2, <1>3, <1>4

LEMMA AskKeeps ==
  ASSUME IntakeInv, NEW t \in tasks, Ask(t)
  PROVE  IntakeInv'
<1>1. PICK answer \in Interpreted(Readings[t.msg].answers) :
        IF Parsable(answer)
        THEN \E image \in Readings[t.msg].images :
               LET corrected == Corrects(answer, image)
               IN  /\ Decide(t, "interpreted")
                   /\ Persist(t, Permitted(IF corrected THEN image.acts ELSE answer.acts),
                              corrected \/ Has(answer.acts, Openings), Noted(t.msg, answer))
                   /\ UNCHANGED rows
        ELSE /\ rows' = Append(rows, Row(t.msg, [type |-> "ALERT"], "executed"))
             /\ tasks' = tasks \ {t}
             /\ UNCHANGED <<decided, memory>>
  BY DEF Ask
<1>2. t.step = "ask" /\ UNCHANGED <<arrived, route, edits>> BY DEF Ask
<1>3. /\ t.msg \in Messages /\ decided[t.msg] = "none" /\ arrived[t.msg] # "no"
  BY <1>2 DEF IntakeInv, Working, IsTask, Progress
<1>4. answer \in Readings[t.msg].answers BY <1>1, InterpretedIs
<1>5. CASE Parsable(answer)
  <2>1. PICK image \in Readings[t.msg].images :
          /\ Decide(t, "interpreted")
          /\ Persist(t, Permitted(IF Corrects(answer, image) THEN image.acts ELSE answer.acts),
                     Corrects(answer, image) \/ Has(answer.acts, Openings), Noted(t.msg, answer))
          /\ UNCHANGED rows
    BY <1>1, <1>5
  <2>2. PICK chosen : chosen = IF Corrects(answer, image) THEN image ELSE answer OBVIOUS
  <2>3. chosen \in Options(t.msg) /\ \A i \in DOMAIN chosen.acts : WellFormed(chosen.acts[i])
    BY <1>4, <1>5, <2>2 DEF Corrects, Parsable, Options
  <2>4. PICK clears : clears = (Corrects(answer, image) \/ Has(answer.acts, Openings)) OBVIOUS
  <2>5. PICK noted : noted = Noted(t.msg, answer) OBVIOUS
  <2>6. Persist(t, Permitted(chosen.acts), clears, noted) BY <2>1, <2>2, <2>4, <2>5
  <2>7. noted \subseteq {m \in Messages : decided'[m] = "interpreted"}
    BY <1>3, <2>1, <2>5 DEF Noted, Decide, IntakeInv, TypeOK
  <2>8. "interpreted" \in Stages BY DEF Stages
  <2> QED BY <1>2, <2>1, <2>3, <2>6, <2>7, <2>8, PersistKeeps
<1>6. CASE ~Parsable(answer)
  <2>1. PICK r : r = Row(t.msg, [type |-> "ALERT"], "executed") OBVIOUS
  <2>2. Sound(r) /\ Parked(r) /\ r.msg = t.msg
    BY <1>3, <2>1 DEF Row, Sound, IsRow, Parked, Statuses
  <2>3. Revised(rows, rows) BY CancelRevises DEF IntakeInv, Table
  <2>4. Moved(t.msg) BY <1>1, <1>3, <1>6, <2>1, <2>2, <2>3, MovedOn
  <2>5. Settled(t.msg) BY <1>1, <1>6 DEF Settled, IntakeInv, TypeOK
  <2> QED BY <1>1, <1>2, <1>6, <2>4, <2>5, TaskEnds
<1> QED BY <1>5, <1>6

LEMMA TestKeeps ==
  ASSUME IntakeInv, NEW t \in tasks, Test(t)
  PROVE  IntakeInv'
<1> DEFINE act == t.acts[t.nth]
<1>1. PICK verdict :
        /\ verdict = IF act.type = "OPEN" /\ Duplicate(Fingerprint(act)) THEN "duplicate"
                     ELSE IF Admissible(t) THEN "ok" ELSE "refused"
        /\ Step(t, [t EXCEPT !.step = "insert", !.tested = Len(rows), !.verdict = verdict])
  BY DEF Test
<1>2. PICK n : n = Len(rows) OBVIOUS
<1>3. PICK u : u = [t EXCEPT !.step = "insert", !.tested = n, !.verdict = verdict] OBVIOUS
<1>4. /\ tasks' = (tasks \ {t}) \cup {u} /\ t.step = "test"
      /\ UNCHANGED <<arrived, decided, memory, rows, route, edits>>
  BY <1>1, <1>2, <1>3 DEF Step, Test
<1>5. IsTask(t) /\ Working(t) BY DEF IntakeInv, Working
<1>6. u = [msg |-> t.msg, backfill |-> t.backfill, step |-> "insert", acts |-> t.acts, nth |-> t.nth,
           verdict |-> verdict, tested |-> n, clears |-> t.clears]
  BY <1>3, <1>5 DEF IsTask
<1>7. /\ IsTask(u) /\ u.msg = t.msg /\ u.backfill = t.backfill /\ u.step = "insert"
      /\ u.acts = t.acts /\ u.nth = t.nth /\ u.tested = n /\ u.verdict = verdict
  <2>1. verdict \in {"ok", "duplicate", "refused"} BY <1>1
  <2> QED BY <1>5, <1>6, <2>1, TaskWith
<1>8. n \in 0 .. Len(rows) /\ DOMAIN rows = 1 .. n BY <1>2, SequentialIs DEF IntakeInv, Table
<1>9. Progress(u)
  <2>1. Filed(rows, t) /\ t.nth \in 1 .. Len(t.acts) /\ Answered(t.msg, t.acts)
    BY <1>4, <1>5 DEF Working, Progress
  <2>2. Filed(rows, u) BY <1>7, <2>1 DEF Filed
  <2> QED BY <1>7, <2>1, <2>2 DEF Progress
<1>10. Tested(u)
  <2>1. act.type \in {"CLOSE_FULL", "MOVE_SL_BE"} => verdict = "ok" BY <1>1 DEF Admissible
  <2>2. act.type = "OPEN" /\ verdict = "ok" => Apart(rows, n, Fingerprint(act))
    BY <1>1, <1>8 DEF Duplicate, Pipeline, Apart
  <2> QED BY <1>7, <2>1, <2>2 DEF Tested
<1>11. Working(u)' BY <1>4, <1>5, <1>7, <1>8, <1>9, <1>10 DEF Working, Progress, Tested, Answered, Options
<1>12. Moved(t.msg) BY <1>4, MovedNot
<1>13. Settled(t.msg) BY <1>4 DEF Settled, IntakeInv, TypeOK
<1> QED BY <1>4, <1>7, <1>11, <1>12, <1>13, TaskGoesOn

(* The row of an action, and what is on file when it is the last one. *)
LEMMA InsertAdds ==
  ASSUME IntakeInv, NEW t \in tasks, Insert(t)
  PROVE  \E base, r :
           /\ Revised(rows, base) /\ rows' = Append(base, r)
           /\ r = Row(t.msg, t.acts[t.nth], Status(t.acts[t.nth].type, t))
           /\ Sound(r) /\ Parked(r) /\ r.msg = t.msg /\ r.act = t.acts[t.nth]
           /\ Cardinality(RowsOf(rows', t.msg)) = t.nth
           /\ \A k \in 1 .. t.nth : Kept(rows', RowsOf(rows', t.msg))[k].act = t.acts[k]
<1> DEFINE act == t.acts[t.nth]
<1>1. PICK base, r :
        /\ base = IF act.type = "CANCEL_PENDING" /\ t.verdict = "ok" THEN Cancelled(rows) ELSE rows
        /\ r = Row(t.msg, act, Status(act.type, t))
        /\ rows' = Append(base, r)
  BY DEF Insert
<1>2. /\ t.step = "insert" /\ IsTask(t) /\ t.msg \in Messages /\ Working(t)
      /\ arrived[t.msg] = IF t.backfill THEN "replayed" ELSE "live"
  BY DEF Insert, IntakeInv, Working, IsTask
<1>3. t.nth \in 1 .. Len(t.acts) /\ Answered(t.msg, t.acts) /\ Filed(rows, t)
  BY <1>2 DEF Working, Progress
<1>4. WellFormed(act) /\ (act.type = "OPEN" => Priced(act)) BY <1>2, <1>3, AnsweredIs
<1>5. Sequential(rows) /\ \A i \in DOMAIN rows : Sound(rows[i]) BY DEF IntakeInv, Table
<1>6. Revised(rows, base) BY <1>1, <1>5, CancelRevises
<1>7. Sequential(base) /\ Filed(base, t) BY <1>3, <1>5, <1>6, RevisedKeeps DEF Revised
<1> HIDE DEF act
<1>8. /\ r.msg = t.msg /\ r.type = act.type /\ r.act = act /\ r.status = Status(act.type, t)
      /\ r.sig = IF act.type = "OPEN" THEN Fingerprint(act) ELSE <<>>
      /\ IsRow(r)
  BY <1>1 DEF Row, IsRow
<1>9. Status(act.type, t) \in {"rejected", "executed", "parked", "pending"} BY DEF Status
<1>10. Sound(r) BY <1>2, <1>4, <1>8, <1>9 DEF Sound, Statuses
<1>11. Parked(r)
  <2>1. act.type \in {"CLOSE_FULL", "MOVE_SL_BE"} => t.verdict = "ok"
    BY <1>2 DEF Working, Tested, act
  <2> QED BY <1>2, <1>8, <2>1 DEF Parked, Status
<1>12. t.nth \in Nat /\ r.act = t.acts[t.nth]
  <2>1. t.nth \in Nat BY <1>3
  <2> QED BY <1>8, <2>1 DEF act
<1>13. /\ Cardinality(RowsOf(rows', t.msg)) = t.nth
       /\ \A k \in 1 .. t.nth : Kept(rows', RowsOf(rows', t.msg))[k].act = t.acts[k]
  <2>1. /\ Cardinality(RowsOf(Append(base, r), t.msg)) = t.nth
        /\ \A k \in 1 .. t.nth :
             Kept(Append(base, r), RowsOf(Append(base, r), t.msg))[k].act = t.acts[k]
    BY <1>7, <1>8, <1>12, AppendFiles
  <2> QED BY <1>1, <2>1
<1> QED BY <1>1, <1>6, <1>8, <1>10, <1>11, <1>12, <1>13 DEF act

LEMMA InsertKeeps ==
  ASSUME IntakeInv, NEW t \in tasks, Insert(t)
  PROVE  IntakeInv'
<1>1. PICK base, r :
        /\ Revised(rows, base) /\ rows' = Append(base, r)
        /\ Sound(r) /\ Parked(r) /\ r.msg = t.msg
        /\ Cardinality(RowsOf(rows', t.msg)) = t.nth
        /\ \A k \in 1 .. t.nth : Kept(rows', RowsOf(rows', t.msg))[k].act = t.acts[k]
  BY InsertAdds
<1>2. /\ IsTask(t) /\ Working(t) /\ t.msg \in Messages /\ arrived[t.msg] # "no"
      /\ t.step = "insert" /\ UNCHANGED <<arrived, decided, route, edits>>
  BY DEF IntakeInv, Working, IsTask, Insert
<1>3. Moved(t.msg) BY <1>1, <1>2, MovedOn
<1>4. t.nth \in 1 .. Len(t.acts) /\ Answered(t.msg, t.acts) BY <1>2 DEF Working, Progress
<1>5. CASE t.nth = Len(t.acts)
  <2>1. tasks' = tasks \ {t} /\ memory' \in {{}, memory} BY <1>5 DEF Insert
  <2>2. Settled(t.msg) BY <1>2, <2>1 DEF Settled, IntakeInv, TypeOK
  <2> QED BY <1>2, <1>3, <2>1, <2>2, TaskEnds
<1>6. CASE t.nth # Len(t.acts)
  <2>1. PICK u : u = [t EXCEPT !.step = "test", !.nth = @ + 1, !.verdict = "ok", !.tested = 0] OBVIOUS
  <2>2. tasks' = (tasks \ {t}) \cup {u} /\ memory' = memory BY <1>6, <2>1 DEF Insert, Step
  <2>3. u = [msg |-> t.msg, backfill |-> t.backfill, step |-> "test", acts |-> t.acts,
             nth |-> t.nth + 1, verdict |-> "ok", tested |-> 0, clears |-> t.clears]
    BY <1>2, <2>1 DEF IsTask
  <2>4. /\ IsTask(u) /\ u.msg = t.msg /\ u.backfill = t.backfill /\ u.step = "test"
        /\ u.acts = t.acts /\ u.nth = t.nth + 1 /\ u.tested = 0
    BY <1>2, <2>3, TaskWith
  <2>5. Len(t.acts) \in Nat BY <1>2, <1>4, AnsweredIs
  <2>6. u.nth \in 1 .. Len(u.acts) /\ u.nth - 1 = t.nth BY <1>4, <1>6, <2>4, <2>5
  <2>7. Filed(rows', u) BY <1>1, <2>4, <2>6 DEF Filed
  <2>8. Progress(u)' BY <1>4, <2>4, <2>6, <2>7 DEF Progress, Answered, Options
  <2>9. Len(rows') \in Nat BY <1>3, SequentialIs DEF Moved
  <2>10. Working(u)' BY <1>2, <2>4, <2>8, <2>9 DEF Working, Tested
  <2>11. Settled(t.msg) BY <1>2, <2>2 DEF Settled, IntakeInv, TypeOK
  <2> QED BY <1>2, <1>3, <2>2, <2>4, <2>10, <2>11, TaskGoesOn
<1> QED BY <1>5, <1>6

LEMMA InvInit == Init => IntakeInv
<1> SUFFICES ASSUME Init PROVE IntakeInv OBVIOUS
<1>1. Sequential(rows) /\ Len(rows) = 0 /\ DOMAIN rows = {} BY DEF Init, Sequential
<1>2. 0 \in 0 .. MaxEdits BY IntakeAssumption
<1> QED BY <1>1, <1>2
    DEF Init, IntakeInv, TypeOK, Table, Single, ReplayLeavesPositions, Stages

LEMMA InvStep == IntakeInv /\ [Next]_vars => IntakeInv'
<1> SUFFICES ASSUME IntakeInv, [Next]_vars PROVE IntakeInv' OBVIOUS
<1>1. Revised(rows, rows) BY CancelRevises DEF IntakeInv, Table
<1>2. CASE UNCHANGED vars
  BY <1>1, <1>2, TableRevised DEF vars, IntakeInv, TypeOK
<1>3. ASSUME NEW m \in Messages, NEW backfill \in BOOLEAN, Begin(m, backfill) PROVE IntakeInv'
  BY <1>3, BeginKeeps
<1>4. CASE Orchestrator
  BY <1>4, HaltKeeps, MatchTriggersKeeps, TriageKeeps, AskKeeps, TestKeeps, InsertKeeps DEF Orchestrator
<1>5. CASE EditRoute
  <2>1. edits' \in 0 .. MaxEdits BY <1>5, IntakeAssumption DEF EditRoute, IntakeInv, TypeOK
  <2> QED BY <1>1, <1>5, <2>1, TableRevised DEF EditRoute
<1>6. ASSUME NEW i \in DOMAIN rows, Trade(i) PROVE IntakeInv'
  <2>1. Revised(rows, rows') BY <1>6, TradeRevises DEF IntakeInv
  <2>2. UNCHANGED <<arrived, tasks, decided, memory, route, edits>> BY <1>6 DEF Trade
  <2> QED BY <2>1, <2>2, TableRevised DEF IntakeInv, TypeOK
<1> QED BY <1>2, <1>3, <1>4, <1>5, <1>6 DEF Next

LEMMA InvAlways == Spec => []IntakeInv
BY InvInit, InvStep, PTL DEF Spec
(* Only its last INSERT ends a task that has come so far. *)
LEMMA OnlyInsertEnds ==
  ASSUME IntakeInv, [Next]_vars, NEW t \in tasks, t.step = "insert", t \notin tasks'
  PROVE  Insert(t)
<1>1. CASE UNCHANGED vars BY <1>1 DEF vars
<1>2. ASSUME NEW m \in Messages, NEW backfill \in BOOLEAN, Begin(m, backfill) PROVE FALSE
  BY <1>2 DEF Begin
<1>3. ASSUME NEW u \in tasks, u # t, \/ Halt(u) \/ MatchTriggers(u) \/ Triage(u) \/ Ask(u)
                                    \/ Test(u) \/ Insert(u)
      PROVE  FALSE
  <2>1. \A v : Step(u, v) => t \in tasks' BY <1>3 DEF Step
  <2>2. tasks' # tasks \ {u} BY <1>3
  <2>3. \A acts, clears, noted : Persist(u, acts, clears, noted) => FALSE BY <2>1, <2>2 DEF Persist
  <2>4. ~Halt(u) BY <2>2 DEF Halt
  <2>5. ~MatchTriggers(u) BY <2>3 DEF MatchTriggers
  <2>6. ~Triage(u) BY <2>1, <2>2 DEF Triage
  <2>7. ~Ask(u) BY <2>2, <2>3 DEF Ask
  <2>8. ~Test(u) BY <2>1 DEF Test
  <2>9. ~Insert(u) BY <2>1, <2>2 DEF Insert
  <2> QED BY <1>3, <2>4, <2>5, <2>6, <2>7, <2>8, <2>9
<1>4. ~ (Halt(t) \/ MatchTriggers(t) \/ Triage(t) \/ Ask(t) \/ Test(t))
  BY DEF Halt, MatchTriggers, Triage, Ask, Test
<1>5. CASE Orchestrator BY <1>3, <1>4, <1>5 DEF Orchestrator
<1>6. CASE EditRoute BY <1>6 DEF EditRoute
<1>7. ASSUME NEW i \in DOMAIN rows, Trade(i) PROVE FALSE BY <1>7 DEF Trade
<1> QED BY <1>1, <1>2, <1>5, <1>6, <1>7 DEF Next

-----------------------------------------------------------------------------
(* Results. *)

(* Every variable keeps its type. *)
THEOREM TypeCorrect == Spec => []TypeOK
<1>1. IntakeInv => TypeOK BY DEF IntakeInv
<1> QED BY <1>1, InvAlways, PTL

(* No instruction of a replayed message runs without the operator              *)
(* (orchestrator.py:1002-1014).                                                *)
THEOREM ReplaysParked == Spec => []ReplayLeavesPositions
<1>1. IntakeInv => ReplayLeavesPositions BY DEF IntakeInv
<1> QED BY <1>1, InvAlways, PTL

(* Every OPEN on file is protected, whichever way it came                      *)
(* (validators.py:55-107).                                                     *)
THEOREM Protected == Spec => []OpensProtected
<1>1. IntakeInv => OpensProtected
  <2> SUFFICES ASSUME IntakeInv, NEW i \in DOMAIN rows, rows[i].type = "OPEN",
                      0 < rows[i].act.entry_low, rows[i].act.entry_low <= rows[i].act.entry_high
               PROVE  LET a == rows[i].act
                          worst == IF a.side = "BUY" THEN a.entry_high ELSE a.entry_low
                          Loses(p) == IF a.side = "BUY" THEN p < a.entry_low ELSE p > a.entry_high
                          Gains(p) == IF a.side = "BUY" THEN p > worst ELSE p < worst
                      IN  /\ Loses(a.sl)
                          /\ (50 * (IF a.side = "BUY" THEN worst - a.sl ELSE a.sl - worst)) <= worst
                          /\ \E k \in DOMAIN a.tps : Gains(a.tps[k])
    BY DEF OpensProtected
  <2>1. PICK a : a = rows[i].act OBVIOUS
  <2>2. a.type = "OPEN" /\ WellFormed(a) /\ Priced(a) BY <2>1 DEF IntakeInv, Table, Sound
  <2>3. SlGeometry(a) BY <2>2 DEF WellFormed
  <2>4. a.entry_low \in Int /\ a.entry_high \in Int /\ a.sl \in Int /\ \A k \in DOMAIN a.tps : a.tps[k] \in Int
    BY <2>2 DEF Priced
  <2>5. 0 < a.entry_low /\ a.entry_low <= a.entry_high BY <2>1
  <2>6. CASE a.side = "BUY"
    <3>1. a.sl < a.entry_low /\ 50 * (a.entry_high - a.sl) <= a.entry_high
      BY <2>3, <2>4, <2>5, <2>6 DEF SlGeometry, EntryRef, Ahead
    <3>2. \E k \in DOMAIN a.tps : a.tps[k] > a.entry_high
      BY <2>3, <2>4, <2>6 DEF SlGeometry, EntryRef, Ahead
    <3> QED BY <2>1, <2>6, <3>1, <3>2
  <2>7. CASE a.side # "BUY"
    <3>1. a.sl > a.entry_high /\ 50 * (a.sl - a.entry_low) <= a.entry_low
      BY <2>3, <2>4, <2>5, <2>7 DEF SlGeometry, EntryRef, Ahead
    <3>2. \E k \in DOMAIN a.tps : a.tps[k] < a.entry_low
      BY <2>3, <2>4, <2>7 DEF SlGeometry, EntryRef, Ahead
    <3> QED BY <2>1, <2>7, <3>1, <3>2
  <2> QED BY <2>6, <2>7
<1> QED BY <1>1, InvAlways, PTL

(* No signal is let in beside a live one of its fingerprint, but for one       *)
(* inserted since the test or once a limit order (orchestrator.py:193-216).    *)
THEOREM OncePerSignal == Spec => SignalOnce
<1>1. IntakeInv /\ [Next]_vars =>
        [\A t \in tasks :
           LET n == Len(rows) + 1
           IN  /\ t \notin tasks' /\ t.step = "insert"
               /\ n \in DOMAIN rows' /\ rows'[n].status = "pending" /\ rows'[n].msg = t.msg
               => \A i \in 1 .. t.tested :
                    ~ /\ rows[i].type = "OPEN" /\ rows[i].sig = rows'[n].sig
                      /\ \/ rows[i].status \in Pipeline
                         \/ rows[i].status = "open" /\ ~rows[i].act.pending]_vars
  <2> SUFFICES ASSUME IntakeInv, [Next]_vars, NEW t \in tasks, t \notin tasks', t.step = "insert",
                      rows'[Len(rows) + 1].status = "pending",
                      NEW i \in 1 .. t.tested, rows[i].type = "OPEN",
                      rows[i].sig = rows'[Len(rows) + 1].sig,
                      \/ rows[i].status \in Pipeline
                      \/ rows[i].status = "open" /\ ~rows[i].act.pending
               PROVE  FALSE
    OBVIOUS
  <2> DEFINE act == t.acts[t.nth]
  <2>1. Insert(t) BY OnlyInsertEnds
  <2>2. PICK base, r : /\ Revised(rows, base) /\ rows' = Append(base, r)
                       /\ r = Row(t.msg, act, Status(act.type, t))
    BY <2>1, InsertAdds
  <2>3. rows'[Len(rows) + 1] = r BY <2>2, Appended DEF Revised
  <2>4. Working(t) /\ t.tested \in 0 .. Len(rows) BY DEF IntakeInv, Working
  <2>5. Len(rows) \in Nat /\ DOMAIN rows = 1 .. Len(rows) BY SequentialIs DEF IntakeInv, Table
  <2>6. i \in DOMAIN rows BY <2>4, <2>5
  <2>7. rows[i].sig = Fingerprint(rows[i].act) BY <2>6 DEF IntakeInv, Table, Sound
  <2>8. rows[i].sig # <<>> BY <2>7 DEF Fingerprint
  <2> HIDE DEF act
  <2>9. act.type = "OPEN" /\ rows[i].sig = Fingerprint(act) /\ t.verdict = "ok"
    <3>1. /\ r.sig = IF act.type = "OPEN" THEN Fingerprint(act) ELSE <<>>
          /\ r.status = Status(act.type, t)
      BY <2>2 DEF Row
    <3>2. act.type = "OPEN" /\ rows[i].sig = Fingerprint(act) BY <2>3, <2>8, <3>1
    <3>3. t.verdict = "ok" BY <2>3, <3>1 DEF Status
    <3> QED BY <3>2, <3>3
  <2>10. Apart(rows, t.tested, Fingerprint(act)) BY <2>4, <2>9 DEF Working, Tested, act
  <2> QED BY <2>9, <2>10 DEF Apart, Pipeline
<1> QED BY <1>1, InvAlways, PTL DEF Spec, SignalOnce

(* An answer is on file whole or not at all (validators.py:357-374,            *)
(* orchestrator.py:868-).                                                      *)
THEOREM WholeAnswers == Spec => AnswerWhole
<1>1. IntakeInv /\ [Next]_vars =>
        [\A t \in tasks :
           t.step = "insert" /\ (\A u \in tasks' : u.msg # t.msg) =>
             LET told == Kept(rows', {i \in DOMAIN rows' : rows'[i].msg = t.msg})
                 options == Readings[t.msg].answers \cup Readings[t.msg].images
                              \cup Readings[t.msg].matched
             IN  /\ [i \in DOMAIN told |-> told[i].act] = t.acts
                 /\ \E answer \in options, s \in Routes :
                      /\ t.acts = PermittedBy(s, answer.acts)
                      /\ \A i \in DOMAIN answer.acts : WellFormed(answer.acts[i])]_vars
  <2> SUFFICES ASSUME IntakeInv, [Next]_vars, NEW t \in tasks, t.step = "insert",
                      \A u \in tasks' : u.msg # t.msg
               PROVE  LET told == Kept(rows', RowsOf(rows', t.msg))
                      IN  /\ [i \in DOMAIN told |-> told[i].act] = t.acts
                          /\ Answered(t.msg, t.acts)
    BY DEF RowsOf, Answered, Options
  <2>1. t \notin tasks' OBVIOUS
  <2>2. Insert(t) BY <2>1, OnlyInsertEnds
  <2>3. /\ Cardinality(RowsOf(rows', t.msg)) = t.nth
        /\ \A k \in 1 .. t.nth : Kept(rows', RowsOf(rows', t.msg))[k].act = t.acts[k]
    BY <2>2, InsertAdds
  <2>4. IsTask(t) /\ t.msg \in Messages /\ Answered(t.msg, t.acts)
    BY DEF IntakeInv, Working, IsTask, Progress
  <2>5. t.nth = Len(t.acts)
    <3> SUFFICES ASSUME t.nth # Len(t.acts) PROVE FALSE OBVIOUS
    <3>1. PICK u : u = [t EXCEPT !.step = "test", !.nth = @ + 1, !.verdict = "ok", !.tested = 0] OBVIOUS
    <3>2. u \in tasks' BY <2>2, <3>1 DEF Insert, Step
    <3>3. u.msg = t.msg BY <2>4, <3>1 DEF IsTask
    <3> QED BY <3>2, <3>3
  <2>6. Sequential(t.acts) BY <2>4, AnsweredIs
  <2> DEFINE mine == RowsOf(rows', t.msg)
             told == Kept(rows', mine)
  <2>7. DOMAIN told = 1 .. Len(t.acts) BY <2>3, <2>5 DEF Kept
  <2>8. \A k \in 1 .. Len(t.acts) : told[k].act = t.acts[k] BY <2>3, <2>5
  <2> HIDE DEF told
  <2>9. [i \in DOMAIN told |-> told[i].act] = t.acts BY <2>6, <2>7, <2>8 DEF Sequential
  <2> QED BY <2>4, <2>9 DEF told
<1> QED BY <1>1, InvAlways, PTL DEF Spec, AnswerWhole
=============================================================================
