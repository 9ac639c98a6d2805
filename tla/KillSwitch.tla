------------------------------ MODULE KillSwitch ------------------------------
(***************************************************************************)
(* The two settings rows behind a trading halt, kill_switch and            *)
(* kill_switch_reason, and the four parties that write them: the bot's     *)
(* /halt and /resume, its cost guard, the panel's halt button and the      *)
(* panel's risk monitor.                                                   *)
(*                                                                         *)
(* The bot writes in autocommit mode, one action per statement; its        *)
(* commands and its guard share one event loop and await nothing between   *)
(* their statements, so at most one of them is half done.  The panel is    *)
(* another process with one thread.                                        *)
(***************************************************************************)
EXTENDS FiniteSets

CONSTANTS
  Breach,   \* texts check_breaches can return; a text carries its figures
  NoBreach

ASSUME BreachAssumption == NoBreach \notin Breach

VARIABLES
  ks,       \* settings.kill_switch
  reason,   \* settings.kill_switch_reason; "none": no row
  spend,    \* today's AI spend against the cap; "uncapped": no budget set
  breach,   \* what check_breaches would return now
  last,     \* RiskMonitor._last_breach
  botStep,  \* the bot statement to come next, or "idle"
  panel,    \* what HaltController.toggle is about to write, or "idle"
  halts     \* history: who holds a halt that nobody has lifted since

vars == <<ks, reason, spend, breach, last, botStep, panel, halts>>
world == <<spend, breach>>

BotStep == {"idle", "haltReason", "resumeReason", "capHalt", "capHaltReason",
            "capResume", "capResumeReason"}
Reason == {"none", "operator", "cost_cap", "risk_budget"}

Init ==
  /\ ks = "off" /\ reason = "none"
  /\ spend \in {"under", "uncapped"} /\ breach = NoBreach /\ last = NoBreach
  /\ botStep = "idle" /\ panel = "idle"
  /\ halts = {}

Lift == ks' = "off" /\ halts' = {}

-----------------------------------------------------------------------------
(* The bot. *)

(* /halt writing a value nobody compares with. *)
HaltTrue ==
  /\ botStep = "idle"
  /\ ks' = "true"
  /\ botStep' = "haltReason"
  /\ UNCHANGED <<reason, world, last, panel, halts>>

(* /halt: kill_switch, then the reason and the reply.  The halt counts from    *)
(* the reply on, if the panel has not lifted it already.                       *)
Halt ==
  /\ botStep = "idle"
  /\ ks' = "on"
  /\ botStep' = "haltReason"
  /\ UNCHANGED <<reason, world, last, panel, halts>>

(* /halt without its second statement. *)
HaltUntagged ==
  /\ botStep = "haltReason"
  /\ botStep' = "idle"
  /\ halts' = IF ks = "on" THEN halts \cup {"operator"} ELSE halts
  /\ UNCHANGED <<ks, reason, world, last, panel>>

HaltReason ==
  /\ botStep = "haltReason"
  /\ reason' = "operator"
  /\ botStep' = "idle"
  /\ halts' = IF ks = "on" THEN halts \cup {"operator"} ELSE halts
  /\ UNCHANGED <<ks, world, last, panel>>

(* /resume *)
Resume ==
  /\ botStep = "idle"
  /\ Lift
  /\ botStep' = "resumeReason"
  /\ UNCHANGED <<reason, world, last, panel>>

ResumeReason ==
  /\ botStep = "resumeReason"
  /\ reason' = "none"
  /\ botStep' = "idle"
  /\ UNCHANGED <<ks, world, last, panel, halts>>

(* check_and_enforce halting only when a breach is new, as the panel does. *)
GuardReadOnce ==
  /\ botStep = "idle"
  /\ \/ spend = "over" /\ ks = "off" /\ reason # "cost_cap" /\ botStep' = "capHalt"
     \/ spend = "under" /\ ks = "on" /\ reason = "cost_cap" /\ botStep' = "capResume"
  /\ UNCHANGED <<ks, reason, world, last, panel, halts>>

(* check_and_enforce that takes any halt for its own. *)
GuardReadAnyReason ==
  /\ botStep = "idle"
  /\ \/ spend = "over" /\ ks = "off" /\ botStep' = "capHalt"
     \/ spend = "under" /\ ks = "on" /\ botStep' = "capResume"
  /\ UNCHANGED <<ks, reason, world, last, panel, halts>>

(* check_and_enforce comparing with the wrong tag. *)
GuardReadWrongTag ==
  /\ botStep = "idle"
  /\ \/ spend = "over" /\ ks = "off" /\ botStep' = "capHalt"
     \/ spend = "under" /\ ks = "on" /\ reason = "none" /\ botStep' = "capResume"
  /\ UNCHANGED <<ks, reason, world, last, panel, halts>>

(* check_and_enforce: both settings and the log are read, and a decision taken *)
(* that the following statements carry out whatever has changed since.         *)
GuardRead ==
  /\ botStep = "idle"
  /\ \/ spend = "over" /\ ks = "off" /\ botStep' = "capHalt"
     \/ spend = "under" /\ ks = "on" /\ reason = "cost_cap" /\ botStep' = "capResume"
  /\ UNCHANGED <<ks, reason, world, last, panel, halts>>

GuardWrite ==
  \/ /\ botStep = "capHalt"
     /\ ks' = "on" /\ botStep' = "capHaltReason"
     /\ halts' = halts \cup {"cap"}
     /\ UNCHANGED <<reason, world, last, panel>>
  \/ /\ botStep = "capHaltReason"
     /\ reason' = "cost_cap" /\ botStep' = "idle"
     /\ UNCHANGED <<ks, world, last, panel, halts>>
  \/ /\ botStep = "capResume"
     /\ Lift /\ botStep' = "capResumeReason"
     /\ UNCHANGED <<reason, world, last, panel>>
  \/ /\ botStep = "capResumeReason"
     /\ reason' = "none" /\ botStep' = "idle"
     /\ UNCHANGED <<ks, world, last, panel, halts>>

(* The process dies between two statements; nothing on start-up repairs the    *)
(* settings.                                                                   *)
BotCrash ==
  /\ botStep # "idle"
  /\ botStep' = "idle"
  /\ UNCHANGED <<ks, reason, world, last, panel, halts>>

-----------------------------------------------------------------------------
(* The panel. *)

(* HaltController.toggle: is_halted, then _write, which leaves the reason alone. *)
PanelRead ==
  /\ panel = "idle"
  /\ panel' = IF ks = "on" THEN "off" ELSE "on"
  /\ UNCHANGED <<ks, reason, world, last, botStep, halts>>

PanelWrite ==
  /\ panel # "idle"
  /\ panel' = "idle"
  /\ IF panel = "off" THEN Lift
     ELSE ks' = "on" /\ halts' = halts \cup {"panel"}
  /\ UNCHANGED <<reason, world, last, botStep>>

(* RiskMonitor._tick: halts when the breach texts differ from the last tick's, *)
(* both rows in one transaction.                                               *)
RiskTick ==
  /\ panel = "idle"
  /\ last' = breach
  /\ IF breach # NoBreach /\ breach # last
     THEN ks' = "on" /\ reason' = "risk_budget" /\ halts' = halts \cup {"risk"}
     ELSE UNCHANGED <<ks, reason, halts>>
  /\ UNCHANGED <<world, botStep, panel>>

-----------------------------------------------------------------------------
(* Trading moves the figures; midnight or a new budget clears them. *)
World ==
  /\ \/ spend' \in {"under", "over", "uncapped"} /\ UNCHANGED breach
     \/ breach' \in Breach \cup {NoBreach} /\ UNCHANGED spend
  /\ UNCHANGED <<ks, reason, last, botStep, panel, halts>>

Bot == Halt \/ HaltReason \/ Resume \/ ResumeReason \/ GuardRead \/ GuardWrite \/ BotCrash
Panel == PanelRead \/ PanelWrite \/ RiskTick
Next == Bot \/ Panel \/ World

Spec == Init /\ [][Next]_vars

(* The guard runs once a minute for as long as the bot is restarted; a bot     *)
(* that died in every round would break the strong part.                       *)
Fairness ==
  /\ WF_vars(HaltReason) /\ WF_vars(ResumeReason)
  /\ SF_vars(GuardRead) /\ SF_vars(GuardWrite)

FairSpec == Spec /\ Fairness

-----------------------------------------------------------------------------
(* Properties. *)

TypeOK ==
  /\ ks \in {"on", "off"}
  /\ reason \in Reason
  /\ spend \in {"under", "over", "uncapped"}
  /\ {breach, last} \subseteq Breach \cup {NoBreach}
  /\ botStep \in BotStep
  /\ panel \in {"idle", "on", "off"}
  /\ halts \subseteq {"operator", "panel", "risk", "cap"}

(* /resume, or the panel's button. *)
OperatorLifts ==
  \/ botStep = "idle" /\ botStep' = "resumeReason"
  \/ panel = "off" /\ panel' = "idle"

(* A halt that /halt has confirmed is lifted by the operator alone             *)
(* (cost_guard.py:170), even when the guard and the risk monitor halt on top   *)
(* of it and the bot crashes between statements.                               *)
OperatorHaltStays ==
  [][ks = "on" /\ ks' = "off" /\ "operator" \in halts => OperatorLifts]_vars

(* The same of a halt the operator makes at the panel's button.                *)
PanelHaltStays ==
  [][ks = "on" /\ ks' = "off" /\ "panel" \in halts => OperatorLifts]_vars

(* As long as the spend is over the cap, trading is halted again and again,    *)
(* whoever keeps resuming it (cost_guard.py:5).                                *)
CapEnforced == []<>(spend # "over" \/ ks = "on")

(* A halt carrying the guard's tag does not outlive the breach: it is lifted,  *)
(* or tagged anew, once the spend is back under the cap (cost_guard.py:168).   *)
CapHaltLifted ==
  (ks = "on" /\ reason = "cost_cap" /\ spend = "under")
    ~> (ks = "off" \/ reason # "cost_cap" \/ spend # "under")
=============================================================================
