------------------------------ MODULE StackStart ------------------------------
(***************************************************************************)
(* A stack's services over its database: the API and the bot bring the     *)
(* schema up to date before they serve; then the bot's commands and cost   *)
(* guard, and the panel, write the two settings rows of a halt.            *)
(***************************************************************************)
EXTENDS KillSwitch, DbUpgrade

(* Two bounds.  The switch is used while all services serve, and a serving     *)
(* service ends while the switch's rows hold what they were seeded with.  A    *)
(* bot that dies halfway through them is BotCrash: what its restart does to    *)
(* the database on the way back is shown to be nothing (RestartKeeps).         *)
SwitchInUse == settled /\ AllServe(at)
Seeded ==
  /\ ks = "off" /\ reason = "none" /\ spend = "under" /\ breach = NoBreach /\ last = NoBreach
  /\ botStep = "idle" /\ panel = "idle"

Services ==
  \/ \E p \in Service : Start(p) \/ Upgrade(p) \/ Crash(p)
  \/ \E p \in Service : Seeded /\ Stop(p)
  \/ OrderMoves

StackNext ==
  \/ Services /\ UNCHANGED vars
  \/ SwitchInUse /\ Next /\ UNCHANGED dbvars

StackInit == Init /\ spend = "under" /\ DbInit

StackSpec == StackInit /\ [][StackNext]_<<vars, dbvars>>

(* The fairness of both parts, under those bounds. *)
Used(does) == SwitchInUse /\ does /\ UNCHANGED dbvars

StackFairness ==
  /\ \A p \in Service : /\ WF_<<vars, dbvars>>(Start(p) /\ UNCHANGED vars)
                        /\ WF_<<vars, dbvars>>(Upgrade(p) /\ UNCHANGED vars)
  /\ WF_<<vars, dbvars>>(Used(HaltReason)) /\ WF_<<vars, dbvars>>(Used(ResumeReason))
  /\ SF_<<vars, dbvars>>(Used(GuardRead)) /\ SF_<<vars, dbvars>>(Used(GuardWrite))

FairStack == StackSpec /\ StackFairness
=============================================================================
