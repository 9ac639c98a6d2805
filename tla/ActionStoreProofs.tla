-------------------------- MODULE ActionStoreProofs --------------------------
(***************************************************************************)
(* What ActionStore guarantees for every set of rows, every delay and      *)
(* every age limit, proved with TLAPS.                                     *)
(***************************************************************************)
EXTENDS ActionStore, TLAPS

-----------------------------------------------------------------------------
(* Types. *)

(* An insert of any kind keeps the types; stated once for the four of them. *)
LEMMA InsertRowType ==
  ASSUME TypeOK, NEW a \in Id, NEW k \in Kind, NEW s \in Status,
         NEW d \in DueAge \cup {NULL}, InsertRow(a, k, s, d)
  PROVE  /\ status' \in [Id -> Status]
         /\ kind' \in [Id -> Kind]
         /\ due' \in [Id -> DueAge \cup {NULL}]
         /\ UNCHANGED <<claimAge, process, sentAge, claims, approved>>
BY DEF TypeOK, InsertRow

(* A grace delay is a legal age, and so is an age of zero. *)
LEMMA DelayIsAge ==
  /\ \A d \in 0 .. MaxDelay : -d \in DueAge
  /\ 0 \in DueAge
BY DelayAssumption, AgeAssumption DEF DueAge

(* A saturating count stays within its cap. *)
LEMMA OlderRange ==
  ASSUME NEW lo \in Int, NEW cap \in Int, NEW x \in lo .. cap
  PROVE  Older(x, cap) \in lo .. cap
BY DEF Older

(* Ageing keeps every counter in its range. *)
LEMMA TickType == ASSUME TypeOK, Tick PROVE TypeOK'
<1>1. due' \in [Id -> DueAge \cup {NULL}]
  <2>1. ASSUME NEW a \in Id, due[a] # NULL PROVE Older(due[a], DueCap(a)) \in DueAge
    BY <2>1, DelayAssumption, AgeAssumption DEF TypeOK, Older, DueCap, DueAge
  <2> QED BY <2>1 DEF TypeOK, Tick
<1>2. claimAge' \in [Id -> ClaimAge]
  <2>1. ASSUME NEW a \in Id PROVE Older(claimAge[a], ClaimMaxAge + 1) \in ClaimAge
    BY AgeAssumption DEF TypeOK, Older, ClaimAge
  <2> QED BY <2>1 DEF TypeOK, Tick
<1>3. sentAge' \in [Id -> SentAge]
  <2>1. ASSUME NEW a \in Id PROVE Older(sentAge[a], ExposureBound + 1) \in SentAge
    BY DelayAssumption, AgeAssumption DEF TypeOK, Older, SentAge, ExposureBound
  <2> QED BY <2>1 DEF TypeOK, Tick
<1> QED BY <1>1, <1>2, <1>3 DEF TypeOK, Tick

(* A pending operator command names a real row. *)
LEMMA CommandType ==
  ASSUME TypeOK, botCmd # NULL
  PROVE  botCmd.op \in BotOp /\ botCmd.id \in Id
BY DEF TypeOK

(* The operator's UPDATE, whichever command it belongs to. *)
LEMMA BotWriteType == ASSUME TypeOK, BotWrite PROVE TypeOK'
<1>1. botCmd.id \in Id BY CommandType DEF BotWrite, DoCancel, DoExecute,
        DoRelaunchExecute, DoRelaunchSkip, Completes
<1>2. 0 \in DueAge /\ 0 \in SentAge
  BY DelayAssumption, AgeAssumption DEF DueAge, SentAge, ExposureBound
<1>3. CASE DoCancel
  BY <1>3, <1>1 DEF TypeOK, DoCancel, Completes, Status, Terminal
<1>4. CASE DoExecute
  BY <1>4, <1>1, <1>2 DEF TypeOK, DoExecute, Completes, Status
<1>5. CASE DoRelaunchExecute
  BY <1>5, <1>1, <1>2 DEF TypeOK, DoRelaunchExecute, Completes
<1>6. CASE DoRelaunchSkip
  BY <1>6, <1>1 DEF TypeOK, DoRelaunchSkip, Completes, Status, Terminal
<1> QED BY <1>3, <1>4, <1>5, <1>6 DEF BotWrite

(* What each remaining step does to the types. *)
LEMMA TypeStep == TypeOK /\ [Next]_vars => TypeOK'
<1> SUFFICES ASSUME TypeOK, [Next]_vars PROVE TypeOK'
  OBVIOUS
<1> USE DEF process, rows, history
<1>1. ASSUME NEW a \in Id, NEW k \in Executable, NEW d \in 0 .. MaxDelay, InsertLive(a, k, d)
      PROVE  TypeOK'
  <2>1. PICK s \in {"sent", "pending"} : InsertRow(a, k, s, -d)
    BY <1>1 DEF InsertLive
  <2>2. -d \in DueAge BY DelayIsAge
  <2> QED BY <1>1, <2>1, <2>2, InsertRowType
          DEF TypeOK, InsertLive, Status, Kind, Executable
<1>2. ASSUME NEW a \in Id, NEW k \in Executable, NEW d \in 0 .. MaxDelay, InsertBackfill(a, k, d)
      PROVE  TypeOK'
  <2>1. CASE k = "OPEN" BY <2>1, <1>1, <1>2 DEF InsertBackfill
  <2>2. CASE k # "OPEN"
    BY <2>2, <1>2, InsertRowType DEF TypeOK, InsertBackfill, Status, Kind, Executable
  <2> QED BY <2>1, <2>2
<1>3. ASSUME NEW a \in Id, NEW s \in {"executed", "rejected"}, InsertNote(a, s)
      PROVE  TypeOK'
  BY <1>3, InsertRowType DEF TypeOK, InsertNote, Status, Terminal, Kind
<1>4. ASSUME NEW a \in Id, InsertCloseAll(a) PROVE TypeOK'
  BY <1>4, InsertRowType, DelayIsAge DEF TypeOK, InsertCloseAll, Status, Kind
<1>5. ASSUME NEW a \in Id, InsertManual(a) PROVE TypeOK'
  BY <1>5, InsertRowType, DelayIsAge DEF TypeOK, InsertManual, Status, Kind
<1>6. ASSUME NEW a \in Id, NEW sym \in Symbol, CancelPending(a, sym) PROVE TypeOK'
  BY <1>6 DEF TypeOK, CancelPending, Status, Terminal
<1>7. ASSUME NEW a \in Id, Claim(a) PROVE TypeOK'
  <2>1. 0 \in ClaimAge BY AgeAssumption DEF ClaimAge
  <2>2. claims' \in [Id -> 0 .. 2] BY <1>7 DEF TypeOK, Claim, Older
  <2> QED BY <1>7, <2>1, <2>2 DEF TypeOK, Claim, Status
<1>8. ASSUME NEW a \in Id, NEW s \in {"executed", "failed", "rejected", "watching"}, Result(a, s)
      PROVE  TypeOK'
  <2>1. 0 \in ClaimAge BY AgeAssumption DEF ClaimAge
  <2> QED BY <1>8, <2>1 DEF TypeOK, Result, Status, Terminal
<1>9. ASSUME NEW a \in Id, NEW op \in BotOp, BotRead(op, a) PROVE TypeOK'
  BY <1>9 DEF TypeOK, BotRead
<1>10. CASE BotWrite BY <1>10, BotWriteType
<1>11. ASSUME NEW a \in Id, GuiPromote(a) PROVE TypeOK'
  BY <1>11 DEF TypeOK, GuiPromote, Status
<1>12. ASSUME NEW a \in Id, GuiCancel(a) PROVE TypeOK'
  BY <1>12 DEF TypeOK, GuiCancel, Status, Terminal
<1>13. CASE SetKillSwitch BY <1>13 DEF TypeOK, SetKillSwitch
<1>14. CASE Promote BY <1>14 DEF TypeOK, Promote, Status
<1>15. CASE Sweep
  <2>1. 0 \in ClaimAge BY AgeAssumption DEF ClaimAge
  <2> QED BY <1>15, <2>1 DEF TypeOK, Sweep, Released, Status, Terminal
<1>16. CASE BotCrash BY <1>16 DEF TypeOK, BotCrash
<1>17. CASE BotStart BY <1>17 DEF TypeOK, BotStart
<1>18. CASE Tick BY <1>18, TickType
<1>19. CASE UNCHANGED vars BY <1>19 DEF TypeOK, vars
<1> QED BY <1>1, <1>2, <1>3, <1>4, <1>5, <1>6, <1>7, <1>8, <1>9, <1>10, <1>11, <1>12,
           <1>13, <1>14, <1>15, <1>16, <1>17, <1>18, <1>19
        DEF Next, Operator, Orchestrator, Ea, Bot

(* Every column keeps its domain, for any number of rows. *)
THEOREM TypeCorrect == Spec => []TypeOK
<1>1. Init => TypeOK
  BY DelayAssumption, AgeAssumption
  DEF Init, TypeOK, Status, Kind, ClaimAge, SentAge, ExposureBound
<1> QED BY <1>1, TypeStep, PTL DEF Spec

-----------------------------------------------------------------------------
(* Nobody but the bot touches a pending row the panel leaves alone. *)

(* The row a half-done command read as pending still is. *)
CommandFresh ==
  botCmd # NULL => botCmd.id \in PanelRows \/ status[botCmd.id] = "pending"

LEMMA CommandFreshStep ==
  ASSUME TypeOK, CommandFresh, [Next]_vars
  PROVE  CommandFresh'
<1> USE DEF process, rows, history
<1>1. ASSUME NEW a \in Id, NEW k \in Executable, NEW d \in 0 .. MaxDelay, InsertLive(a, k, d)
      PROVE  CommandFresh'
  BY <1>1, CommandType DEF TypeOK, CommandFresh, InsertLive, InsertRow
<1>2. ASSUME NEW a \in Id, NEW k \in Executable, NEW d \in 0 .. MaxDelay, InsertBackfill(a, k, d)
      PROVE  CommandFresh'
  BY <1>2, <1>1, CommandType DEF TypeOK, CommandFresh, InsertBackfill, InsertRow
<1>3. ASSUME NEW a \in Id, NEW s \in {"executed", "rejected"}, InsertNote(a, s)
      PROVE  CommandFresh'
  BY <1>3, CommandType DEF TypeOK, CommandFresh, InsertNote, InsertRow
<1>4. ASSUME NEW a \in Id, InsertCloseAll(a) \/ InsertManual(a) PROVE CommandFresh'
  BY <1>4, CommandType DEF TypeOK, CommandFresh, InsertCloseAll, InsertManual, InsertRow
<1>5. ASSUME NEW a \in Id, NEW sym \in Symbol, CancelPending(a, sym) PROVE CommandFresh'
  BY <1>5, CommandType DEF TypeOK, CommandFresh, CancelPending
<1>6. ASSUME NEW a \in Id, Claim(a) PROVE CommandFresh'
  BY <1>6, CommandType DEF TypeOK, CommandFresh, Claim
<1>7. ASSUME NEW a \in Id, NEW s \in {"executed", "failed", "rejected", "watching"}, Result(a, s)
      PROVE  CommandFresh'
  BY <1>7, CommandType DEF TypeOK, CommandFresh, Result
<1>8. ASSUME NEW a \in Id, NEW op \in BotOp, BotRead(op, a) PROVE CommandFresh'
  BY <1>8 DEF TypeOK, CommandFresh, BotRead
<1>9. CASE BotWrite
  BY <1>9 DEF CommandFresh, BotWrite, DoCancel, DoExecute, DoRelaunchExecute,
              DoRelaunchSkip, Completes
<1>10. ASSUME NEW a \in Id, GuiPromote(a) \/ GuiCancel(a) PROVE CommandFresh'
  BY <1>10, CommandType DEF TypeOK, CommandFresh, GuiPromote, GuiCancel
<1>11. CASE SetKillSwitch BY <1>11 DEF CommandFresh, SetKillSwitch
<1>12. CASE Bot
  BY <1>12 DEF CommandFresh, Bot, Promote, Sweep, BotCrash, BotStart
<1>13. CASE Tick BY <1>13 DEF CommandFresh, Tick
<1>14. CASE UNCHANGED vars BY <1>14 DEF CommandFresh, vars
<1> QED BY <1>1, <1>2, <1>3, <1>4, <1>5, <1>6, <1>7, <1>8, <1>9, <1>10, <1>11, <1>12,
           <1>13, <1>14
        DEF Next, Operator, Orchestrator, Ea

LEMMA FreshInvariant == Spec => [](TypeOK /\ CommandFresh)
<1>1. Init => CommandFresh BY DEF Init, CommandFresh
<1>2. TypeOK /\ CommandFresh /\ [Next]_vars => CommandFresh' BY CommandFreshStep
<1> QED BY <1>1, <1>2, TypeCorrect, PTL DEF Spec

(* A decided action is never revived, as long as the operator decides about it *)
(* in the bot alone.                                                           *)
THEOREM TerminalStays == Spec => TerminalAbsorbing
<1> USE DEF process, rows, history
<1> DEFINE Stays == \A a \in Id \ PanelRows : status[a] \in Terminal => status'[a] = status[a]
<1>1. TypeOK /\ CommandFresh /\ [Next]_vars => Stays
  <2> SUFFICES ASSUME TypeOK, CommandFresh, [Next]_vars PROVE Stays
    OBVIOUS
  <2>1. CASE Orchestrator
    BY <2>1 DEF TypeOK, Terminal, Orchestrator, InsertLive, InsertBackfill, InsertNote,
                InsertRow, CancelPending
  <2>2. CASE Ea BY <2>2 DEF TypeOK, Terminal, Ea, Claim, Result
  <2>3. CASE Bot
    BY <2>3 DEF TypeOK, Terminal, Bot, Promote, Sweep, Released, StaleClaim, Expired,
                BotCrash, BotStart
  <2>4. CASE BotWrite
    <3>1. botCmd.id \in Id /\ (botCmd.id \in PanelRows \/ status[botCmd.id] = "pending")
      BY <2>4, CommandType
         DEF CommandFresh, BotWrite, DoCancel, DoExecute, DoRelaunchExecute,
             DoRelaunchSkip, Completes
    <3> QED BY <2>4, <3>1
            DEF TypeOK, Terminal, BotWrite, DoCancel, DoExecute, DoRelaunchExecute,
                DoRelaunchSkip, Completes
  <2>5. CASE Operator /\ ~BotWrite
    BY <2>5 DEF TypeOK, Terminal, Operator, BotRead, GuiPromote, GuiCancel,
                InsertCloseAll, InsertManual, InsertRow, SetKillSwitch
  <2>6. CASE Tick \/ UNCHANGED vars BY <2>6 DEF Tick, vars
  <2> QED BY <2>1, <2>2, <2>3, <2>4, <2>5, <2>6 DEF Next
<1> QED BY <1>1, FreshInvariant, PTL DEF Spec, TerminalAbsorbing

-----------------------------------------------------------------------------
(* A management row is claimed before it leaves 'sent', and never comes back   *)
(* to 'sent' once claimed: so it has no claim to its name while it could still *)
(* be claimed.                                                                 *)
ClaimsCounted ==
  \A a \in Id \ PanelRows :
    /\ status[a] = "absent" => kind[a] = "NOTE" /\ claims[a] = 0
    /\ kind[a] = "MGMT" /\ status[a] \in {"pending", "sent"} => claims[a] = 0
    /\ kind[a] = "MGMT" => claims[a] <= 1

LEMMA ClaimsCountedStep ==
  ASSUME TypeOK, CommandFresh, ClaimsCounted, [Next]_vars
  PROVE  ClaimsCounted'
<1> USE DEF process, rows, history
<1>1. CASE Orchestrator
  BY <1>1 DEF TypeOK, Terminal, ClaimsCounted, Orchestrator, InsertLive, InsertBackfill,
              InsertNote, InsertRow, CancelPending
<1>2. ASSUME NEW a \in Id, Claim(a) PROVE ClaimsCounted'
  BY <1>2 DEF TypeOK, ClaimsCounted, Claim, Older
<1>3. ASSUME NEW a \in Id, NEW s \in {"executed", "failed", "rejected", "watching"}, Result(a, s)
      PROVE  ClaimsCounted'
  BY <1>3 DEF TypeOK, ClaimsCounted, Result
<1>4. CASE Promote \/ BotCrash \/ BotStart
  BY <1>4 DEF TypeOK, ClaimsCounted, Promote, BotCrash, BotStart
<1>5. CASE Sweep
  BY <1>5 DEF TypeOK, ClaimsCounted, Sweep, Released, StaleClaim, Expired
<1>6. CASE BotWrite
  <2>1. botCmd.id \in Id /\ (botCmd.id \in PanelRows \/ status[botCmd.id] = "pending")
    BY <1>6, CommandType
       DEF CommandFresh, BotWrite, DoCancel, DoExecute, DoRelaunchExecute,
           DoRelaunchSkip, Completes
  <2> QED BY <1>6, <2>1
          DEF TypeOK, ClaimsCounted, BotWrite, DoCancel, DoExecute, DoRelaunchExecute,
              DoRelaunchSkip, Completes
<1>7. CASE Operator /\ ~BotWrite
  BY <1>7 DEF TypeOK, ClaimsCounted, Operator, BotRead, GuiPromote, GuiCancel,
              InsertCloseAll, InsertManual, InsertRow, SetKillSwitch
<1>8. CASE Tick \/ UNCHANGED vars BY <1>8 DEF ClaimsCounted, Tick, vars
<1> QED BY <1>1, <1>2, <1>3, <1>4, <1>5, <1>6, <1>7, <1>8 DEF Next, Ea, Bot

(* A ticketless management action reaches the EA at most once, whatever the    *)
(* EA, the sweeper and the bot's restarts do.                                  *)
THEOREM ClaimedOnce == Spec => []ManagementClaimedOnce
<1>1. Init => ClaimsCounted BY DEF Init, ClaimsCounted
<1>2. TypeOK /\ CommandFresh /\ ClaimsCounted /\ [Next]_vars => ClaimsCounted'
  BY ClaimsCountedStep
<1>3. ClaimsCounted => ManagementClaimedOnce BY DEF ClaimsCounted, ManagementClaimedOnce
<1> QED BY <1>1, <1>2, <1>3, FreshInvariant, PTL DEF Spec

-----------------------------------------------------------------------------
(* What keeps a parked row where it is: no date for the promoter to read. *)
ParkedUndated ==
  \A a \in parked \ approved :
    \/ status[a] = "pending" /\ due[a] = NULL
    \/ status[a] \in {"cancelled", "rejected"}

LEMMA ParkedStep ==
  ASSUME TypeOK, ParkedUndated, [Next]_vars
  PROVE  ParkedUndated'
<1> USE DEF process, rows, history
<1>1. ASSUME NEW a \in Id, NEW k \in Executable, NEW d \in 0 .. MaxDelay, InsertLive(a, k, d)
      PROVE  ParkedUndated'
  BY <1>1 DEF TypeOK, ParkedUndated, InsertLive, InsertRow
<1>2. ASSUME NEW a \in Id, NEW k \in Executable, NEW d \in 0 .. MaxDelay, InsertBackfill(a, k, d)
      PROVE  ParkedUndated'
  BY <1>2, <1>1 DEF TypeOK, ParkedUndated, InsertBackfill, InsertRow
<1>3. ASSUME NEW a \in Id, NEW s \in {"executed", "rejected"}, InsertNote(a, s)
      PROVE  ParkedUndated'
  BY <1>3 DEF TypeOK, ParkedUndated, InsertNote, InsertRow
<1>4. ASSUME NEW a \in Id, InsertCloseAll(a) \/ InsertManual(a) PROVE ParkedUndated'
  BY <1>4 DEF TypeOK, ParkedUndated, InsertCloseAll, InsertManual, InsertRow
<1>5. ASSUME NEW a \in Id, NEW sym \in Symbol, CancelPending(a, sym) PROVE ParkedUndated'
  BY <1>5 DEF TypeOK, ParkedUndated, CancelPending
<1>6. CASE Ea BY <1>6 DEF TypeOK, ParkedUndated, Ea, Claim, Result
<1>7. CASE Promote
  BY <1>7 DEF TypeOK, ParkedUndated, Promote, IsDue
<1>8. CASE Sweep
  BY <1>8 DEF TypeOK, ParkedUndated, Sweep, Released, StaleClaim, Expired
<1>9. CASE BotStart
  BY <1>9 DEF TypeOK, ParkedUndated, BotStart, Orphan
<1>10. CASE BotWrite
  <2>1. botCmd.id \in Id BY <1>10, CommandType
        DEF BotWrite, DoCancel, DoExecute, DoRelaunchExecute, DoRelaunchSkip, Completes
  <2> QED BY <1>10, <2>1
          DEF TypeOK, ParkedUndated, BotWrite, DoCancel, DoExecute, DoRelaunchExecute,
              DoRelaunchSkip, Completes
<1>11. ASSUME NEW a \in Id, GuiPromote(a) \/ GuiCancel(a) PROVE ParkedUndated'
  BY <1>11 DEF TypeOK, ParkedUndated, GuiPromote, GuiCancel
<1>12. CASE Tick BY <1>12 DEF TypeOK, ParkedUndated, Tick
<1>13. CASE BotCrash \/ SetKillSwitch \/ (\E op \in BotOp, a \in Id : BotRead(op, a))
            \/ UNCHANGED vars
  BY <1>13 DEF ParkedUndated, BotCrash, SetKillSwitch, BotRead, vars
<1> QED BY <1>1, <1>2, <1>3, <1>4, <1>5, <1>6, <1>7, <1>8, <1>9, <1>10, <1>11, <1>12, <1>13
        DEF Next, Operator, Orchestrator, Bot

(* A row parked for review waits for the operator, for any number of restarts, *)
(* replays and operators at the bot and at the panel.                          *)
THEOREM ParkedRowsWait == Spec => []ParkedWaits
<1>1. Init => ParkedUndated BY DEF Init, ParkedUndated
<1>2. TypeOK /\ ParkedUndated /\ [Next]_vars => ParkedUndated' BY ParkedStep
<1>3. ParkedUndated => ParkedWaits BY DEF ParkedUndated, ParkedWaits
<1> QED BY <1>1, <1>2, <1>3, TypeCorrect, PTL DEF Spec

-----------------------------------------------------------------------------
(* Two clocks run on a 'sent' management row: the age of execute_after, which  *)
(* the sweeper reads, and the exposure.  The first is never more than the      *)
(* grace delay behind the second, and a round of the sweeper leaves no row     *)
(* past the limit that has been exposed at all.                                *)
AgesBounded(a) ==
  kind[a] = "MGMT" /\ status[a] = "sent" /\ due[a] # NULL
    => /\ sentAge[a] <= due[a] + MaxDelay
       /\ swept /\ due[a] > MgmtMaxAge => sentAge[a] = 0

Unexposed(a) == status[a] \in {"absent", "pending"} => sentAge[a] = 0

ExposureInv == \A a \in Id : Unexposed(a) /\ AgesBounded(a)

LEMMA ExposureTick ==
  ASSUME TypeOK, ExposureInv, Tick
  PROVE  ExposureInv'
<1> SUFFICES ASSUME NEW a \in Id PROVE (Unexposed(a) /\ AgesBounded(a))'
  BY DEF ExposureInv
<1> USE DelayAssumption, AgeAssumption, NullAssumption
<1>1. Unexposed(a) /\ AgesBounded(a) BY DEF ExposureInv
<1>2. status' = status /\ kind' = kind /\ swept' = FALSE BY DEF Tick
<1>3. Unexposed(a)' BY <1>1, <1>2 DEF TypeOK, Unexposed, Tick
<1>4. ASSUME kind[a] = "MGMT", status[a] = "sent", due'[a] # NULL
      PROVE  sentAge'[a] <= due'[a] + MaxDelay
  <2>1. due[a] # NULL /\ due'[a] = Older(due[a], MgmtMaxAge + 1)
    BY <1>4 DEF TypeOK, Tick, DueCap
  <2>2. due[a] \in DueAge /\ sentAge[a] \in SentAge BY <2>1 DEF TypeOK
  <2>3. sentAge[a] <= due[a] + MaxDelay /\ (swept /\ due[a] > MgmtMaxAge => sentAge[a] = 0)
    BY <1>1, <1>4, <2>1 DEF AgesBounded
  <2>4. CASE ~botUp
    <3>1. sentAge'[a] = sentAge[a] BY <2>4 DEF TypeOK, Tick
    <3> QED BY <2>1, <2>2, <2>3, <3>1 DEF Older, DueAge, SentAge, ExposureBound
  <2>5. CASE botUp
    <3>1. swept BY <2>5 DEF Tick
    <3>2. sentAge'[a] = Older(sentAge[a], ExposureBound + 1)
      BY <2>5, <1>4 DEF TypeOK, Tick
    <3> QED BY <2>1, <2>2, <2>3, <3>1, <3>2 DEF Older, DueAge, SentAge, ExposureBound
  <2> QED BY <2>4, <2>5
<1> QED BY <1>2, <1>3, <1>4 DEF AgesBounded

LEMMA ExposureStep ==
  ASSUME TypeOK, ExposureInv, [Next]_vars
  PROVE  ExposureInv'
<1> USE DelayAssumption, AgeAssumption, NullAssumption DEF process, rows, history
<1>1. ASSUME NEW a \in Id, NEW k \in Executable, NEW d \in 0 .. MaxDelay, InsertLive(a, k, d)
      PROVE  ExposureInv'
  BY <1>1 DEF TypeOK, ExposureInv, Unexposed, AgesBounded, InsertLive, InsertRow
<1>2. ASSUME NEW a \in Id, NEW k \in Executable, NEW d \in 0 .. MaxDelay, InsertBackfill(a, k, d)
      PROVE  ExposureInv'
  BY <1>2, <1>1 DEF TypeOK, ExposureInv, Unexposed, AgesBounded, InsertBackfill, InsertRow
<1>3. ASSUME NEW a \in Id, NEW s \in {"executed", "rejected"}, InsertNote(a, s)
      PROVE  ExposureInv'
  BY <1>3 DEF TypeOK, ExposureInv, Unexposed, AgesBounded, InsertNote, InsertRow
<1>4. ASSUME NEW a \in Id, InsertCloseAll(a) \/ InsertManual(a) PROVE ExposureInv'
  BY <1>4 DEF TypeOK, ExposureInv, Unexposed, AgesBounded, InsertCloseAll, InsertManual, InsertRow
<1>5. ASSUME NEW a \in Id, NEW sym \in Symbol, CancelPending(a, sym) PROVE ExposureInv'
  BY <1>5 DEF TypeOK, ExposureInv, Unexposed, AgesBounded, CancelPending
<1>6. CASE Ea BY <1>6 DEF TypeOK, ExposureInv, Unexposed, AgesBounded, Ea, Claim, Result
<1>7. CASE Promote
  BY <1>7 DEF TypeOK, ExposureInv, Unexposed, AgesBounded, Promote, DueAge
<1>8. CASE Sweep
  <2> SUFFICES ASSUME NEW a \in Id PROVE (Unexposed(a) /\ AgesBounded(a))'
    BY DEF ExposureInv
  <2>1. Unexposed(a) /\ AgesBounded(a) BY DEF ExposureInv
  <2>2. UNCHANGED <<kind, due, sentAge>> BY <1>8 DEF Sweep
  <2>3. status'[a] \in {"absent", "pending"} => status'[a] = status[a]
    BY <1>8 DEF TypeOK, Sweep, Released
  <2>4. kind[a] = "MGMT" /\ status'[a] = "sent" => status[a] = "sent" /\ ~Expired(Released, a)
    BY <1>8 DEF TypeOK, Sweep, Released
  <2>5. kind[a] = "MGMT" /\ status'[a] = "sent" => Released[a] = "sent"
    BY <1>8 DEF TypeOK, Sweep, Released
  <2>6. kind[a] = "MGMT" /\ status'[a] = "sent" /\ due[a] # NULL => ~(due[a] > MgmtMaxAge)
    BY <2>4, <2>5 DEF Expired
  <2> QED BY <2>1, <2>2, <2>3, <2>4, <2>6 DEF Unexposed, AgesBounded
<1>9. CASE BotStart
  BY <1>9 DEF TypeOK, ExposureInv, Unexposed, AgesBounded, BotStart, Orphan
<1>10. CASE BotWrite
  <2>1. botCmd.id \in Id BY <1>10, CommandType
        DEF BotWrite, DoCancel, DoExecute, DoRelaunchExecute, DoRelaunchSkip, Completes
  <2>2. CASE DoExecute
    BY <2>1, <2>2 DEF TypeOK, ExposureInv, Unexposed, AgesBounded, DoExecute, Completes, DueAge
  <2> QED BY <1>10, <2>1, <2>2
          DEF TypeOK, ExposureInv, Unexposed, AgesBounded, BotWrite, DoCancel,
              DoRelaunchExecute, DoRelaunchSkip, Completes
<1>11. ASSUME NEW a \in Id, GuiPromote(a) \/ GuiCancel(a) PROVE ExposureInv'
  BY <1>11 DEF TypeOK, ExposureInv, Unexposed, AgesBounded, GuiPromote, GuiCancel, DueAge
<1>12. CASE Tick BY <1>12, ExposureTick
<1>13. CASE BotCrash \/ SetKillSwitch \/ (\E op \in BotOp, a \in Id : BotRead(op, a))
            \/ UNCHANGED vars
  BY <1>13 DEF ExposureInv, Unexposed, AgesBounded, BotCrash, SetKillSwitch, BotRead, vars
<1> QED BY <1>1, <1>2, <1>3, <1>4, <1>5, <1>6, <1>7, <1>8, <1>9, <1>10, <1>11, <1>12, <1>13
        DEF Next, Operator, Orchestrator, Bot

(* No management action is on offer for longer than its maximum age, a sweep   *)
(* and the grace delay, whatever the halts, restarts and early releases.       *)
THEOREM ExposureBounded == Spec => []ManagementExposure
<1> USE DelayAssumption, AgeAssumption, NullAssumption
<1>1. Init => ExposureInv BY DEF Init, ExposureInv, Unexposed, AgesBounded
<1>2. TypeOK /\ ExposureInv /\ [Next]_vars => ExposureInv' BY ExposureStep
<1>3. TypeOK /\ ExposureInv => ManagementExposure
  BY DEF TypeOK, ExposureInv, AgesBounded, ManagementExposure, ExposureBound, DueAge, SentAge
<1> QED BY <1>1, <1>2, <1>3, TypeCorrect, PTL DEF Spec

-----------------------------------------------------------------------------
(* Under the kill switch a pending row reaches 'sent' only by the operator's   *)
(* own hand: the promoter is the one writer that could, and it looks first.    *)
THEOREM HaltHolds == Spec => HaltHoldsPending
<1> USE DEF process, rows, history
<1> DEFINE Holds == \A a \in Id : ks = "on" /\ status[a] = "pending" /\ status'[a] = "sent"
                                   => a \in approved'
<1>1. TypeOK /\ [Next]_vars => Holds
  <2> SUFFICES ASSUME TypeOK, [Next]_vars, NEW b \in Id, ks = "on",
                      status[b] = "pending", status'[b] = "sent"
               PROVE  b \in approved'
    OBVIOUS
  <2>1. CASE Orchestrator
    BY <2>1 DEF TypeOK, Orchestrator, InsertLive, InsertBackfill, InsertNote,
                InsertRow, CancelPending
  <2>2. CASE Ea BY <2>2 DEF TypeOK, Ea, Claim, Result
  <2>3. CASE Bot
    BY <2>3 DEF TypeOK, Bot, Promote, Sweep, Released, StaleClaim, Expired, BotCrash, BotStart
  <2>4. CASE BotWrite
    <3>1. botCmd.id \in Id BY <2>4, CommandType
          DEF BotWrite, DoCancel, DoExecute, DoRelaunchExecute, DoRelaunchSkip, Completes
    <3> QED BY <2>4, <3>1
            DEF TypeOK, BotWrite, DoCancel, DoExecute, DoRelaunchExecute, DoRelaunchSkip,
                Completes
  <2>5. CASE Operator /\ ~BotWrite
    BY <2>5 DEF TypeOK, Operator, BotRead, GuiPromote, GuiCancel, InsertCloseAll,
                InsertManual, InsertRow, SetKillSwitch
  <2>6. CASE Tick \/ UNCHANGED vars BY <2>6 DEF Tick, vars
  <2> QED BY <2>1, <2>2, <2>3, <2>4, <2>5, <2>6 DEF Next
<1> QED BY <1>1, TypeCorrect, PTL DEF Spec, HaltHoldsPending
=============================================================================
