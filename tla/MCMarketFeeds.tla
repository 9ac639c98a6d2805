---------------------------- MODULE MCMarketFeeds ----------------------------
(* Readings at the thresholds of the scorers, and on either side of them.   *)
EXTENDS MarketFeeds

MCMacroRounds ==
  {[vix |-> <<29, 31>>, dxy |-> <<10000, 9950>>, real_yield_10y |-> <<10000, Missed, 9950>>],
   [vix |-> <<14, 12>>, dxy |-> <<9000, 10000, 10016>>, real_yield_10y |-> <<Missed, 9950>>]}
Rising == [d1 |-> [gap |-> 200, move |-> 20, open |-> 4660, high |-> 4691, low |-> 4660], adr20 |-> 20,
           d1_prev |-> [high |-> 4700, low |-> 4650], h4 |-> 100,
           adx_h1 |-> 26, h1_recent_closes |-> <<46800, 46840, 46830, 46900>>]
Falling == [d1 |-> [gap |-> -200, move |-> 0, open |-> 4700, high |-> 4731, low |-> 4700], adr20 |-> 20,
            d1_prev |-> [high |-> 4750, low |-> 4700], h4 |-> -100,
            h1_recent_closes |-> <<46990, 46940, 46960, 46900>>]
MCSnapshots == {Rising, Falling}
MCCotReports == {<<2, 5, 9, 1, 7, 8, 6, 4, 3, 10, 11>>, <<2, 5, 9>>}
MCEtfHistories ==
  {<<[open |-> 4, close |-> 5, volume |-> 12], [open |-> 6, close |-> 5, volume |-> 2],
     [open |-> 5, close |-> 4, volume |-> 0], [open |-> 5, close |-> 5, volume |-> 9]>>}
MCCoverage == {[articles |-> 50, tone |-> -20]}
Event(impact, at) == [impact |-> impact, at |-> at]
MCSeed == <<Event("high", 45)>>
MCCalendars == {<<Event("high", 30), Event("high", 45), Event("high", Vague)>>,
                <<Event("medium", 30), Event("high", 45), Event("low", 15)>>}
Answer(minutes, p) == [minutes |-> minutes, p |-> p]
Reply(score, verdict) == [score |-> score, verdict |-> verdict]
MCReplies == {Reply(-1, "none"), Reply(65, "moderate"), Reply(70, "none"), Reply(71, "none"),
              Reply(88, "strong")}
MCAnswers == {<<>>} \cup
  {<<Answer(60, 700), Answer(15, 450), Answer(240, 500)>>} \cup
  {<<Answer(60, p)>> : p \in {449, 450, 1000}}
=============================================================================
