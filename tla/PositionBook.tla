----------------------------- MODULE PositionBook -----------------------------
(***************************************************************************)
(* What the positions table promises of the broker's account: a ticket is  *)
(* entered only for a position that exists or existed, struck off only     *)
(* when the position is gone, never entered twice; and as long as the two  *)
(* disagree somebody works on it.  EaBridge implements it.                 *)
(***************************************************************************)
CONSTANT Ticket

VARIABLES
  live,  \* the broker's side: "never", "open" or "gone"
  book   \* the table's side: "none", "open" or "closed"

vars == <<live, book>>

Init ==
  /\ live = [t \in Ticket |-> "never"]
  /\ book = [t \in Ticket |-> "none"]

Open(t) ==
  /\ live[t] = "never"
  /\ live' = [live EXCEPT ![t] = "open"]
  /\ UNCHANGED book

Close(t) ==
  /\ live[t] = "open"
  /\ live' = [live EXCEPT ![t] = "gone"]
  /\ UNCHANGED book

(* A position closed and struck off in one go. *)
CloseAndStrike(t) ==
  /\ live[t] = "open" /\ book[t] = "open"
  /\ live' = [live EXCEPT ![t] = "gone"]
  /\ book' = [book EXCEPT ![t] = "closed"]

Enter(t) ==
  /\ live[t] = "open" /\ book[t] = "none"
  /\ book' = [book EXCEPT ![t] = "open"]
  /\ UNCHANGED live

(* A result delivered after the position has closed. *)
EnterLate(t) ==
  /\ live[t] = "gone" /\ book[t] = "none"
  /\ book' = [book EXCEPT ![t] = "open"]
  /\ UNCHANGED live

Strike(t) ==
  /\ live[t] = "gone" /\ book[t] = "open"
  /\ book' = [book EXCEPT ![t] = "closed"]
  /\ UNCHANGED live

Next == \E t \in Ticket :
  Open(t) \/ Close(t) \/ CloseAndStrike(t) \/ Enter(t) \/ EnterLate(t) \/ Strike(t)

Spec == Init /\ [][Next]_vars

FairSpec == Spec /\ \A t \in Ticket : WF_vars(Enter(t)) /\ WF_vars(Strike(t))
=============================================================================
