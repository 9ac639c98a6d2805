----------------------------- MODULE MCCuration -----------------------------
(* An instruction and a piece of chatter.                 *)
EXTENDS Curation, TLC

Go == <<"close">>
Chat == <<"hello">>
MCIncoming == {Go, Chat}
MCNear == {<<Go, Go>>, <<Chat, Chat>>}
MCVerdicts == (Go :> {[category |-> "signal", types |-> <<"CLOSE_FULL">>]})
              @@ (Chat :> {[category |-> "ignore", types |-> <<>>]})

Row(type, text, sample) ==
  [enabled |-> TRUE, phrase |-> text, types |-> <<type>>, sample |-> sample, context |-> {}]
MCNewTriggers == {Row("IGNORE", Chat, Chat)}
MCGenerated == {<<[Row("CLOSE_FULL", Go, Go) EXCEPT !.types = <<"CLOSE_FULL", "MOVE_SL_BE">>]>>}

Book(open) == [open |-> open, closedRecently |-> FALSE, watching |-> FALSE, sideKnown |-> TRUE]
MCSituations == {Book(TRUE)}
MCSimulated == {Book(TRUE), Book(FALSE)}
=============================================================================
