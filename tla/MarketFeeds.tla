----------------------------- MODULE MarketFeeds -----------------------------
(***************************************************************************)
(* What the evaluator finds when a signal arrives: the bot's five feed     *)
(* loops and the EA's posts write inputs, the bot rewrites the calendar    *)
(* file, and the API process, where the evaluator runs, reads that file    *)
(* through a cache keyed by its modification time.                         *)
(*                                                                         *)
(* Values of earlier posts stay until they are overwritten: the layered    *)
(* evaluator does not look at their age, the legacy one does.  A clock     *)
(* step is longer than the ages at which those are stale.                  *)
(***************************************************************************)
EXTENDS LegacyEvaluator

CONSTANTS
  MacroRounds,    \* daily values one round of macro_feed_loop may see, by name
  Snapshots,      \* what the EA may post to /market/snapshot
  Prices,         \* mid prices it may post to /market/price
  CotReports,     \* net positions of the speculators, the newest first
  EtfHistories,   \* daily [open, close, volume], the newest last
  Coverage,       \* [articles, tone] of the news scan, the tone in tenths
  Calendars,      \* calendars the download may bring, Vague times included
  Seed,           \* the events shipped with the program
  Answers,        \* estimates the language model may answer with
  Replies,        \* score and verdict it may give the legacy evaluator
  BaseSleep, MaxSleep,  \* of news_scan_feed_loop, in clock steps
  Step,           \* minutes in a clock step
  Horizon,        \* last minute modelled
  MaxWrites       \* calendar rewrites modelled

Daily == [move : Int, gap : Int, open : Int, high : Int, low : Int]
Yesterday == [high : Int, low : Int]
Numbers == {"h4", "adr20", "adx_h1", "market_mid", "vix", "dxy", "real_yield_10y",
            "cot_extremes_percentile", "etf_flows_30d_trend", "geopolitical_index"}

(* Inputs by name, each a number or of the shape its readers expect.       *)
Readable(in) ==
  /\ \A n \in DOMAIN in \cap Numbers : in[n] \in Int
  /\ "d1" \in DOMAIN in => in.d1 \in Daily
  /\ "d1_prev" \in DOMAIN in => in.d1_prev \in Yesterday
  /\ "h1_recent_closes" \in DOMAIN in => in.h1_recent_closes \in Seq(Int) \ {<<>>}

ASSUME FeedAssumption ==
  /\ {BaseSleep, MaxSleep, Step, Horizon, MaxWrites} \subseteq Nat
  /\ BaseSleep <= MaxSleep /\ 0 < BaseSleep
  /\ Step > 5

VARIABLES
  now,      \* minutes
  store,    \* the inputs on record, by name
  fresh,    \* "snapshot", "macro": on record since the last clock step
  file,     \* the calendar: its stamp, and its events or "torn"
  cache,    \* news_calendar._cache of the API process
  reading,  \* stamp that _load_calendar has seen and not read yet, or -1
  sleep,    \* news_scan_feed_loop: sleep_sec
  wait      \* and what is left of it

vars == <<now, store, fresh, file, cache, reading, sleep, wait>>

Torn == <<>>  \* an empty file does not parse: it yields no events

Vague == -1  \* "All Day", "Tentative"

(* parse_ff_xml: what has no clock time or no weight is dropped.           *)
Parsed(calendar) ==
  SelectSeq(calendar, LAMBDA e : e.impact \in {"high", "medium"} /\ e.at # Vague)

SnapshotKeys == {"h4", "d1", "d1_prev", "adr20", "adx_h1", "h1_recent_closes"}

ASSUME PostsAssumption ==
  /\ \A snap \in Snapshots : DOMAIN snap \subseteq SnapshotKeys /\ Readable(snap)
  /\ Prices \subseteq Int
  /\ CotReports \subseteq Seq(Int)
  /\ \A scan \in Coverage : {scan.articles, scan.tone} \subseteq Int
  /\ \A answer \in Answers : answer \in Seq([minutes : Int, p : Int])
  /\ \A reply \in Replies : reply.score \in Int

Init ==
  /\ now = 0
  /\ store = <<>> /\ fresh = {}
  /\ file = [stamp |-> 0, events |-> Seed, writing |-> FALSE]
  /\ cache = [stamp |-> -1, events |-> <<>>]
  /\ reading = -1
  /\ sleep = BaseSleep /\ wait = 0

-----------------------------------------------------------------------------
(* What the downloads are turned into. *)

(* _fetch_one_sync, _fetch_fred_csv_sync: the level of vix, the change of  *)
(* the others; a missing observation is skipped.                           *)
Missed == -1
Observed(days) == SelectSeq(days, LAMBDA x : x # Missed)
Usable(days) == LET seen == Observed(days)
                IN  Len(seen) >= 2 /\ seen[Len(seen) - 1] # 0
Latest(name, days) ==
  LET seen == Observed(days)
      last == seen[Len(seen)]
      prev == seen[Len(seen) - 1]
  IN  IF name = "vix" THEN last ELSE (10000 * (last - prev)) \div prev

(* Fewer than four reports have no percentile rank.                        *)
PercentileRank(nets) ==
  (100 * Cardinality({i \in DOMAIN nets : nets[i] < nets[1]})) \div (Len(nets) - 1)

(* compute_flow_features, over at most 30 days.                            *)
Flow(day) == Sign(IF day.close > day.open THEN "BUY" ELSE "SELL") * day.close * day.volume
FlowTrend(history) ==
  LET traded == SelectSeq(history, LAMBDA day : day.volume > 0)
      window == {i \in DOMAIN traded :
                   i > Len(traded) - 30 /\ traded[i].close # traded[i].open}
  IN  MapThenFoldSet(LAMBDA x, y : x + y, 0, LAMBDA i : Flow(traded[i]),
                     LAMBDA S : CHOOSE i \in S : TRUE, window)

(* What is computed of numbers is a number.                                *)
ASSUME FeaturesAssumption ==
  /\ \A round \in MacroRounds :
       /\ DOMAIN round \subseteq {"vix", "dxy", "real_yield_10y"}
       /\ \A n \in DOMAIN round : Usable(round[n]) => Latest(n, round[n]) \in Int
  /\ \A history \in EtfHistories : FlowTrend(history) \in Int

(* _saturating_score; no coverage is no risk.                              *)
RiskIndex(scan) ==
  IF scan.articles = 0 THEN 0
  ELSE (60 * Clamp(scan.articles, 0, 50)) \div 50 + (40 * Clamp(10 - scan.tone, 0, 50)) \div 50

(* put_many: what is written replaces what is on record under its name.    *)
Over(new, old) ==
  [n \in DOMAIN new \cup DOMAIN old |-> IF n \in DOMAIN new THEN new[n] ELSE old[n]]
Put(new) == Over(new, store)

(* macro_feed_loop: the tickers that failed keep their last value.         *)
MacroFeed ==
  \E round \in MacroRounds :
    /\ store' = Put([n \in {name \in DOMAIN round : Usable(round[name])} |-> Latest(n, round[n])])
    /\ fresh' = IF \E n \in DOMAIN round : Usable(round[n]) THEN fresh \cup {"macro"} ELSE fresh
    /\ UNCHANGED <<now, file, cache, reading, sleep, wait>>

(* Without a rank, what is on record is overwritten with none.             *)
CotFeed ==
  /\ \E nets \in CotReports :
       store' = IF Len(nets) < 4
                THEN Restrict(store, DOMAIN store \ {"cot_extremes_percentile"})
                ELSE Put([cot_extremes_percentile |-> PercentileRank(nets)])
  /\ UNCHANGED <<now, fresh, file, cache, reading, sleep, wait>>

EtfFlowsFeed ==
  \E history \in EtfHistories :
    /\ store' = Put([etf_flows_30d_trend |-> FlowTrend(history)])
    /\ UNCHANGED <<now, fresh, file, cache, reading, sleep, wait>>

(* news_scan_feed_loop: a failed round doubles the sleep.                   *)
NewsScanFeed ==
  /\ wait = 0
  /\ \/ \E scan \in Coverage :
          store' = Put([geopolitical_index |-> RiskIndex(scan)]) /\ sleep' = BaseSleep
     \/ sleep' = Clamp(2 * sleep, 0, MaxSleep) /\ UNCHANGED store
  /\ wait' = sleep'
  /\ UNCHANGED <<now, fresh, file, cache, reading>>

(* calendar_feed_loop: write_text empties the file, then fills it.          *)
CalendarFeed ==
  /\ ~file.writing /\ file.stamp < 2 * MaxWrites
  /\ file' = [stamp |-> file.stamp + 1, events |-> Torn, writing |-> TRUE]
  /\ UNCHANGED <<now, store, fresh, cache, reading, sleep, wait>>

(* A write within the resolution of the file system's clock.                *)
CalendarWrittenSameTick ==
  /\ file.writing
  /\ \E events \in Calendars :
       file' = [stamp |-> file.stamp, events |-> Parsed(events), writing |-> FALSE]
  /\ UNCHANGED <<now, store, fresh, cache, reading, sleep, wait>>

CalendarWritten ==
  /\ file.writing
  /\ \E events \in Calendars :
       file' = [stamp |-> file.stamp + 1, events |-> Parsed(events), writing |-> FALSE]
  /\ UNCHANGED <<now, store, fresh, cache, reading, sleep, wait>>

-----------------------------------------------------------------------------
(* The EA's posts.  A snapshot replaces the last one with all its keys.     *)
PostMarketSnapshot ==
  \E snap \in Snapshots :
    /\ store' = Over(snap, Restrict(store, DOMAIN store \ SnapshotKeys))
    /\ fresh' = fresh \cup {"snapshot"}
    /\ UNCHANGED <<now, file, cache, reading, sleep, wait>>

PostMarketPrice ==
  \E mid \in Prices :
    /\ store' = Put([market_mid |-> mid])
    /\ UNCHANGED <<now, fresh, file, cache, reading, sleep, wait>>

-----------------------------------------------------------------------------
(* A cache that is filled once.                                             *)
StatCalendarOnce ==
  /\ reading = -1 /\ cache.stamp = -1
  /\ reading' = file.stamp
  /\ UNCHANGED <<now, store, fresh, file, cache, sleep, wait>>

(* _load_calendar: the stamp first, then the content, unless cached.        *)
StatCalendar ==
  /\ reading = -1 /\ cache.stamp # file.stamp
  /\ reading' = file.stamp
  /\ UNCHANGED <<now, store, fresh, file, cache, sleep, wait>>

ReadCalendar ==
  /\ reading # -1
  /\ cache' = [stamp |-> reading, events |-> file.events]
  /\ reading' = -1
  /\ UNCHANGED <<now, store, fresh, file, sleep, wait>>

Tick ==
  /\ now < Horizon
  /\ now' = now + Step /\ fresh' = {}
  /\ wait' = IF wait > 0 THEN wait - 1 ELSE 0
  /\ UNCHANGED <<store, file, cache, reading, sleep>>

Bot == MacroFeed \/ CotFeed \/ EtfFlowsFeed \/ NewsScanFeed \/ CalendarFeed \/ CalendarWritten
Ea == PostMarketSnapshot \/ PostMarketPrice
Api == StatCalendar \/ ReadCalendar
Next == Bot \/ Ea \/ Api \/ Tick

Spec == Init /\ [][Next]_vars

(* Signals keep arriving, and each one loads the calendar.                  *)
FairSpec == Spec /\ WF_vars(StatCalendar) /\ WF_vars(ReadCalendar)

-----------------------------------------------------------------------------
(* gather_inputs, for a signal that arrives now. *)
Inputs ==
  LET window == [next |-> NextEvent(cache.events, now), last |-> LastEvent(cache.events, now)]
  IN  IF window.next.impact = "none" /\ window.last.impact = "none" THEN store
      ELSE Over([news_window |-> window], store)

-----------------------------------------------------------------------------
(* Properties. *)

TypeOK ==
  /\ now \in 0 .. Horizon + Step
  /\ DOMAIN store \subseteq Wanted \ {"news_window"} /\ Readable(store)
  /\ fresh \subseteq {"snapshot", "macro"}
  /\ file.stamp \in 0 .. 2 * MaxWrites /\ file.writing \in BOOLEAN
  /\ cache.stamp \in -1 .. file.stamp
  /\ reading \in -1 .. file.stamp
  /\ sleep \in BaseSleep .. MaxSleep
  /\ wait \in 0 .. sleep

Overridable == [style |-> "intraday", override |-> TRUE]

(* A high-impact release that is the next event and less than half an hour *)
(* away keeps every signal out of the market, whatever the axes, the style *)
(* and the language model say (compose.py:117-126, sizing.py:101-104).     *)
VetoHolds ==
  LET in == Inputs
      next == NextEvent(cache.events, now)
  IN  next.impact = "high" /\ next.minutes < 30 =>
        \A side \in Sides, style \in Styles, answer \in Answers :
          LET e == Evaluate(side, Overridable, {style}, in, answer, 450)
          IN  e.score <= 30 /\ e.sizing.skip

(* The same of every high-impact release, not just the next event listed   *)
(* (compose.py:34-38: "being inside an NFP window should ALWAYS cap").      *)
EveryReleaseVetoes ==
  (\E i \in DOMAIN cache.events :
     /\ cache.events[i].impact = "high"
     /\ cache.events[i].at - now \in 1 .. 29)
  => \A side \in Sides, style \in Styles :
       Evaluate(side, Overridable, {style}, Inputs, <<>>, 450).score <= 30

(* A higher probability never means fewer lots, and an evaluation that is  *)
(* skipped trades none, for every threshold from the lowest band upwards.  *)
LotsFollowOdds ==
  LET vetoed == Catalyst(Inputs) <= -900
  IN  \A threshold \in {450, 550} :
        LET sized == {[odds |-> answer, got |-> Sizing(vetoed, answer, threshold)] : answer \in Answers}
        IN  \A low, high \in sized :
              /\ low.got.skip => low.got.lots = 0
              /\ <<>> \notin {low.odds, high.odds} /\ Decisional(low.odds).p <= Decisional(high.odds).p
                   => low.got.lots <= high.got.lots

(* Three readers of one market, each with thresholds of its own, do not    *)
(* contradict one another: the scores, the regime tag that accompanies     *)
(* them, and the labels of the legacy evaluator                            *)
(* (scorers.py, regime.py, ai_evaluator.py:362-506).                       *)
TagsAgree ==
  LET in == Inputs
      tag == Classify(in)
  IN  /\ Alignment(in) = "ALIGNED_UP" => tag.trend \notin {"aligned_down", "weakly_down"}
      /\ Alignment(in) = "ALIGNED_DOWN" => tag.trend \notin {"aligned_up", "weakly_up"}
      /\ Alignment(in) = "ALIGNED_UP" /\ H4Trend(in) >= 0 => Trend("BUY", in) > 0
      /\ {"market_mid", "d1_prev"} \subseteq DOMAIN in =>
           (in.d1_prev.high - in.market_mid \in 1 .. 10 =>
              NearestResistance(in) - in.market_mid \in 1 .. 10)
      /\ (tag.catalyst = "pre_news") <=> (Catalyst(in) <= -900)
      /\ (tag.catalyst = "post_news") <=> (Catalyst(in) = -500)
      /\ (tag.vol = "compressed") <=>
           \A side \in Sides : Regime(side, in) < Regime(side, Restrict(in, DOMAIN in \ {"vix"}))
      /\ Regime("BUY", in) > 400 => tag.vol = "panic"

(* The share of the gains says up only of closes that rose, and never of a *)
(* falling trend (ai_evaluator.py:362-405, regime.py:110-152).             *)
MomentumAgrees ==
  LET in == Inputs IN
  "h1_recent_closes" \in DOMAIN in =>
    /\ Momentum(in.h1_recent_closes) \in {"bullish", "overbought"}
         => Net(in.h1_recent_closes) > 0
    /\ Classify(in).trend = "aligned_down"
         => Momentum(in.h1_recent_closes) \in {"neutral", "bearish", "oversold"}

(* The legacy evaluator never calls a direction strong on a market it      *)
(* cannot see in full: without a quote, with a snapshot or macro values    *)
(* that are missing or not of this clock step, or a snapshot of an older   *)
(* EA, as long as the model's verdict fits its own score                   *)
(* (ai_evaluator.py:757-762).                                              *)
ReducedNeverStrong ==
  LET in == Inputs
      seen == /\ fresh = {"snapshot", "macro"}
              /\ {"market_mid", "d1", "adr20", "adx_h1"} \subseteq DOMAIN in
  IN  ~seen => \A reply \in Replies :
                 reply.verdict \in {"none", Verdict(reply.score)} =>
                   LET e == EvaluateV1(reply, MissingV1(in, fresh))
                   IN  e.score <= 70 /\ e.verdict # "strong" /\ e.quality = "reduced"

(* What the evaluation of a signal promises whatever the model answers         *)
(* (compose.py, sizing.py).                                                    *)
DecisionSound == VetoHolds /\ LotsFollowOdds

(* The readings of the market do not contradict one another, or claim more     *)
(* than was read.                                                              *)
ReadersAgree == TagsAgree /\ MomentumAgrees /\ ReducedNeverStrong

(* A cached calendar that passes for current is current.                   *)
CacheCoherent == cache.stamp = file.stamp => cache.events = file.events

(* The evaluator takes up every calendar that is not replaced at once.     *)
CalendarTaken == \A n \in 0 .. 2 * MaxWrites : file.stamp = n ~> cache.stamp >= n

(* The evaluator goes by the calendar that is in the file, and by no half of   *)
(* one (news_calendar.py:105-135).                                             *)
CalendarFollows == []CacheCoherent /\ CalendarTaken
=============================================================================
