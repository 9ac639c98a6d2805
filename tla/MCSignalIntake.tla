--------------------------- MODULE MCSignalIntake ---------------------------
(* A signal quoted with other cents; the same one as a limit order, with   *)
(* a stop inside its zone, or behind a close; answers the chart corrects;  *)
(* instructions from triggers.                                             *)
EXTENDS SignalIntake

Act(type) == [type |-> type]
Signal(sl, tps, pending) ==
  [type |-> "OPEN", symbol |-> "XAUUSD", side |-> "BUY", entry_low |-> 25000,
   entry_high |-> 25030, sl |-> sl, tps |-> tps, pending |-> pending]
Open == Signal(24900, <<25100, 25200>>, FALSE)
Again == Signal(24905, <<25200, 25110>>, FALSE)
Limit == Signal(24700, <<25100>>, TRUE)
Wrong == Signal(25010, <<25100>>, FALSE)
Close == Act("CLOSE_FULL")
Answer(category, acts) == [category |-> category, acts |-> acts]
Of(matched, said, answers, images) ==
  [matched |-> matched, said |-> said, answers |-> answers, images |-> images]
Trigger(acts) == [stage |-> "trigger_text", acts |-> acts]
NoChart == Answer("none", <<>>)
Garbled == Answer("verdict", <<>>)

MCReadings ==
  <<Of({}, {"keep"},
       {Answer("signal", <<Open>>), Garbled}, {NoChart}),
    Of({[stage |-> "prefilter_drop", acts |-> <<>>]}, {"ignore", "garbled"},
       {Answer("signal", <<Again>>), Answer("signal", <<Limit>>),
        Answer("partial_signal", <<Act("ALERT")>>)}, {NoChart, Answer("signal", <<Open>>)}),
    Of({Trigger(<<[type |-> "CANCEL_PENDING", symbol |-> "XAUUSD"]>>)}, {"keep"},
       {Answer("signal", <<Again, Act("MOVE_SL_BE")>>), Answer("signal", <<Close, Open>>),
        Answer("context", <<[type |-> "CLOSE", mt5_ticket |-> 1], Act("MOVE_SL_BE")>>),
        Answer("signal", <<Act("MOVE_SL_BE"), Wrong>>)}, {NoChart})>>

All == {"OPEN", "CLOSE_FULL", "CLOSE", "CANCEL_PENDING", "MOVE_SL_BE", "ALERT"}
MCRoutes == {[halted |-> FALSE, allowed |-> All], [halted |-> TRUE, allowed |-> All],
             [halted |-> FALSE, allowed |-> {"OPEN"}]}
=============================================================================
