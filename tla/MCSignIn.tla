------------------------------ MODULE MCSignIn ------------------------------
(* Two phones and an account of each: with files of their own, with the second  *)
(* account's session in a database only, or with none for it.                   *)
EXTENDS SignIn

CONSTANTS p1, p2

MCPhoneOf == [a \in {"a1", "a2"} |-> IF a = "a1" THEN p1 ELSE p2]
MCMaxClicks == [account |-> 4, picker |-> 3, wizard |-> 3]
Db(serves, phone, session) == [serves |-> serves, phone |-> phone, session |-> session]

MCInitialFiles ==
    {[phone |-> MCPhoneOf, sidecar |-> [a \in {"a1", "a2"} |-> MCPhoneOf[a]], dbs |-> {}],
     [phone |-> MCPhoneOf, sidecar |-> [a \in {"a1", "a2"} |-> IF a = "a1" THEN p1 ELSE None],
      dbs |-> {Db("a1", p1, p1), Db(None, p2, p2)}],
     [phone |-> MCPhoneOf, sidecar |-> [a \in {"a1", "a2"} |-> IF a = "a1" THEN p1 ELSE None], dbs |-> {}]}
=============================================================================
