------------------------------- MODULE MCPanel -------------------------------
(* Two names, two chats: a stack n1 whose channel is mirrored to a second       *)
(* destination n2, with bindings of two scopes; two version 1 stacks of one    *)
(* phone; or no file at all.                                                   *)
EXTENDS Panel, TLC

CONSTANTS n1, n2, k1, k2

MCInitialFile ==
    {Absent,
     [accounts |-> {n1}, profiles |-> {n1}, destinations |-> {n1, n2}, bots |-> {n1},
      channels |-> {NewChannel(n1, n1, n1, CHOOSE k \in Chat : TRUE)},
      routes |-> {NewRoute(<<n1>>, n1, n1), NewRoute(<<n1, n2>>, n1, n2)},
      bindings |-> {NewBinding(<<n1>>, n1, "destination", n1),
                    NewBinding(<<n1, "route", <<n1, n2>>>>, n1, "route", <<n1, n2>>)}]}

MCV1Files == {{[name |-> n1, phone |-> n1, chat |-> k1], [name |-> n2, phone |-> n1, chat |-> k2]}}
=============================================================================
