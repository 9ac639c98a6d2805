------------------------- MODULE MarketFeedsProofs -------------------------
(***************************************************************************)
(* What MarketFeeds guarantees for any market, calendars, estimates of the *)
(* language model and lengths of the clock's steps, proved with TLAPS.     *)
(***************************************************************************)
EXTENDS MarketFeeds, FiniteSetTheorems, WellFoundedInduction, TLAPS

-----------------------------------------------------------------------------
(* Inputs and what they are merged of. *)

LEMMA MergedIs ==
  ASSUME NEW f, NEW g
  PROVE  /\ DOMAIN Over(f, g) = DOMAIN f \cup DOMAIN g
         /\ \A n \in DOMAIN f : Over(f, g)[n] = f[n]
         /\ \A n \in DOMAIN g \ DOMAIN f : Over(f, g)[n] = g[n]
BY DEF Over

LEMMA MergedReadable ==
  ASSUME NEW f, NEW g, Readable(f), Readable(g)
  PROVE  Readable(Over(f, g))
<1> DEFINE h == Over(f, g)
<1>1. \A n \in DOMAIN h : \/ n \in DOMAIN f /\ h[n] = f[n]
                          \/ n \in DOMAIN g /\ h[n] = g[n]
  BY DEF Over
<1> HIDE DEF h
<1>2. \A n \in DOMAIN h \cap Numbers : h[n] \in Int BY <1>1 DEF Readable
<1>3. "d1" \in DOMAIN h => h.d1 \in Daily BY <1>1 DEF Readable
<1>4. "d1_prev" \in DOMAIN h => h.d1_prev \in Yesterday BY <1>1 DEF Readable
<1>5. "h1_recent_closes" \in DOMAIN h => h.h1_recent_closes \in Seq(Int) \ {<<>>}
  BY <1>1 DEF Readable
<1>6. Readable(h) BY <1>2, <1>3, <1>4, <1>5 DEF Readable
<1> QED BY <1>6 DEF h

LEMMA RestrictedReadable ==
  ASSUME NEW f, NEW S, S \subseteq DOMAIN f, Readable(f)
  PROVE  /\ DOMAIN Restrict(f, S) = S /\ \A n \in S : Restrict(f, S)[n] = f[n]
         /\ Readable(Restrict(f, S))
<1> DEFINE h == Restrict(f, S)
<1>1. DOMAIN h = S /\ \A n \in S : h[n] = f[n] BY DEF Restrict
<1> HIDE DEF h
<1>2. \A n \in DOMAIN h \cap Numbers : h[n] \in Int BY <1>1 DEF Readable
<1>3. "d1" \in DOMAIN h => h.d1 \in Daily BY <1>1 DEF Readable
<1>4. "d1_prev" \in DOMAIN h => h.d1_prev \in Yesterday BY <1>1 DEF Readable
<1>5. "h1_recent_closes" \in DOMAIN h => h.h1_recent_closes \in Seq(Int) \ {<<>>}
  BY <1>1 DEF Readable
<1>6. Readable(h) BY <1>2, <1>3, <1>4, <1>5 DEF Readable
<1> QED BY <1>1, <1>6 DEF h

LEMMA NumberReadable ==
  ASSUME NEW name \in Numbers, NEW value \in Int
  PROVE  /\ Readable([n \in {name} |-> value]) /\ DOMAIN [n \in {name} |-> value] = {name}
BY DEF Readable, Numbers

-----------------------------------------------------------------------------
(* Every input on record is of the shape its readers expect. *)

LEMMA InitTyped == Init => TypeOK
BY FeedAssumption DEF Init, TypeOK, Readable, Wanted

Inputted(s) == DOMAIN s \subseteq Wanted \ {"news_window"} /\ Readable(s)

LEMMA PutTyped ==
  ASSUME NEW new, Inputted(new), Inputted(store)
  PROVE  Inputted(Put(new))
BY MergedIs, MergedReadable DEF Put, Inputted

LEMMA NumberPut ==
  ASSUME NEW name \in Numbers, NEW value \in Int
  PROVE  Inputted([n \in {name} |-> value])
BY NumberReadable DEF Inputted, Numbers, Wanted

LEMMA PercentileRankIs ==
  ASSUME NEW nets \in Seq(Int), ~ Len(nets) < 4
  PROVE  PercentileRank(nets) \in Int
<1> DEFINE below == {i \in DOMAIN nets : nets[i] < nets[1]}
<1>1. Len(nets) \in Nat /\ DOMAIN nets = 1 .. Len(nets) OBVIOUS
<1>2. IsFiniteSet(1 .. Len(nets)) BY <1>1, FS_Interval
<1>3. IsFiniteSet(below) BY <1>1, <1>2, FS_Subset
<1>4. Cardinality(below) \in Nat BY <1>3, FS_CardinalityType
<1> HIDE DEF below
<1> DEFINE c == Cardinality(below)
           d == Len(nets) - 1
<1>5. c \in Nat /\ d \in Nat /\ d > 0 BY <1>1, <1>4
<1> HIDE DEF c, d
<1>6. (100 * c) \div d \in Int BY <1>5
<1> QED BY <1>6 DEF PercentileRank, c, d, below

LEMMA RiskIndexIs ==
  ASSUME NEW scan \in Coverage
  PROVE  RiskIndex(scan) \in Int
<1>1. scan.articles \in Int /\ scan.tone \in Int BY PostsAssumption
<1>2. Clamp(scan.articles, 0, 50) \in Int /\ Clamp(10 - scan.tone, 0, 50) \in Int BY <1>1 DEF Clamp
<1> QED BY <1>2 DEF RiskIndex

LEMMA StepInputted == TypeOK /\ [Next]_vars => Inputted(store)'
<1> SUFFICES ASSUME TypeOK, [Next]_vars PROVE Inputted(store)' OBVIOUS
<1>0. Inputted(store) BY DEF TypeOK, Inputted
<1>1. CASE MacroFeed
  <2>1. PICK round \in MacroRounds :
          store' = Put([n \in {name \in DOMAIN round : Usable(round[name])} |-> Latest(n, round[n])])
    BY <1>1 DEF MacroFeed
  <2> DEFINE new == [n \in {name \in DOMAIN round : Usable(round[name])} |-> Latest(n, round[n])]
  <2>2. DOMAIN new \subseteq {"vix", "dxy", "real_yield_10y"} /\ \A n \in DOMAIN new : new[n] \in Int
    BY FeaturesAssumption
  <2> HIDE DEF new
  <2>3. Inputted(new) BY <2>2 DEF Inputted, Readable, Wanted
  <2>4. Inputted(Put(new)) BY <1>0, <2>3, PutTyped
  <2> QED BY <2>1, <2>4 DEF new
<1>2. CASE CotFeed
  <2>1. PICK nets \in CotReports :
          store' = IF Len(nets) < 4
                   THEN Restrict(store, DOMAIN store \ {"cot_extremes_percentile"})
                   ELSE Put([cot_extremes_percentile |-> PercentileRank(nets)])
    BY <1>2 DEF CotFeed
  <2>2. CASE Len(nets) < 4
    <3>1. store' = Restrict(store, DOMAIN store \ {"cot_extremes_percentile"}) BY <2>1, <2>2
    <3> QED BY <1>0, <3>1, RestrictedReadable DEF Inputted
  <2>3. CASE ~ Len(nets) < 4
    <3>1. PercentileRank(nets) \in Int BY <2>3, PercentileRankIs, PostsAssumption
    <3>2. Inputted([n \in {"cot_extremes_percentile"} |-> PercentileRank(nets)])
      BY <3>1, NumberPut DEF Numbers
    <3> QED BY <1>0, <2>1, <2>3, <3>2, PutTyped
  <2> QED BY <2>2, <2>3
<1>3. CASE EtfFlowsFeed
  <2>1. PICK history \in EtfHistories : store' = Put([etf_flows_30d_trend |-> FlowTrend(history)])
    BY <1>3 DEF EtfFlowsFeed
  <2>2. Inputted([n \in {"etf_flows_30d_trend"} |-> FlowTrend(history)])
    BY FeaturesAssumption, NumberPut DEF Numbers
  <2> QED BY <1>0, <2>1, <2>2, PutTyped
<1>4. CASE NewsScanFeed
  <2>1. CASE store' = store BY <1>0, <2>1
  <2>2. CASE \E scan \in Coverage : store' = Put([geopolitical_index |-> RiskIndex(scan)])
    <3>1. PICK scan \in Coverage : store' = Put([geopolitical_index |-> RiskIndex(scan)]) BY <2>2
    <3>2. Inputted([n \in {"geopolitical_index"} |-> RiskIndex(scan)])
      BY RiskIndexIs, NumberPut DEF Numbers
    <3> QED BY <1>0, <3>1, <3>2, PutTyped
  <2> QED BY <1>4, <2>1, <2>2 DEF NewsScanFeed
<1>5. CASE PostMarketSnapshot
  <2> DEFINE rest == Restrict(store, DOMAIN store \ SnapshotKeys)
  <2>1. PICK snap \in Snapshots : store' = Over(snap, rest) BY <1>5 DEF PostMarketSnapshot
  <2>2. DOMAIN rest \subseteq DOMAIN store /\ Readable(rest)
    BY <1>0, RestrictedReadable DEF Inputted
  <2> HIDE DEF rest
  <2>3. DOMAIN snap \subseteq SnapshotKeys /\ Readable(snap) BY PostsAssumption
  <2>4. Readable(Over(snap, rest)) /\ DOMAIN Over(snap, rest) = DOMAIN snap \cup DOMAIN rest
    BY <2>2, <2>3, MergedIs, MergedReadable
  <2>5. SnapshotKeys \subseteq Wanted \ {"news_window"} BY DEF SnapshotKeys, Wanted
  <2> QED BY <1>0, <2>1, <2>2, <2>3, <2>4, <2>5 DEF Inputted
<1>6. CASE PostMarketPrice
  <2>1. PICK mid \in Prices : store' = Put([market_mid |-> mid]) BY <1>6 DEF PostMarketPrice
  <2>2. Inputted([n \in {"market_mid"} |-> mid]) BY PostsAssumption, NumberPut DEF Numbers
  <2> QED BY <1>0, <2>1, <2>2, PutTyped
<1>7. CASE UNCHANGED store BY <1>0, <1>7
<1> QED
  BY <1>1, <1>2, <1>3, <1>4, <1>5, <1>6, <1>7
  DEF Next, Bot, Ea, Api, CalendarFeed, CalendarWritten, StatCalendar, ReadCalendar, Tick, vars

(* A rewrite stamps the file twice.                                            *)
Stamped == file.writing <=> file.stamp % 2 = 1

FeedInv == TypeOK /\ Stamped

LEMMA StepStamped == FeedInv /\ [Next]_vars => Stamped'
<1> SUFFICES ASSUME FeedInv, [Next]_vars PROVE Stamped' OBVIOUS
<1>1. file.stamp \in Nat /\ file.writing \in BOOLEAN BY FeedAssumption DEF FeedInv, TypeOK
<1>2. CASE CalendarFeed \/ CalendarWritten
  <2>1. CASE CalendarFeed
    <3>1. ~file.writing /\ file' = [stamp |-> file.stamp + 1, events |-> Torn, writing |-> TRUE]
      BY <2>1 DEF CalendarFeed
    <3>2. file'.stamp = file.stamp + 1 /\ file'.writing BY <3>1
    <3> QED BY <1>1, <3>1, <3>2 DEF FeedInv, Stamped
  <2>2. CASE CalendarWritten
    <3>1. file.writing BY <2>2 DEF CalendarWritten
    <3>2. PICK events \in Calendars :
            file' = [stamp |-> file.stamp + 1, events |-> Parsed(events), writing |-> FALSE]
      BY <2>2 DEF CalendarWritten
    <3>3. file'.stamp = file.stamp + 1 /\ ~file'.writing BY <3>2
    <3> QED BY <1>1, <3>1, <3>3 DEF FeedInv, Stamped
  <2> QED BY <1>2, <2>1, <2>2
<1>3. CASE UNCHANGED file BY <1>3 DEF FeedInv, Stamped
<1> QED
  BY <1>2, <1>3
  DEF Next, Bot, Ea, Api, MacroFeed, CotFeed, EtfFlowsFeed, NewsScanFeed, PostMarketSnapshot,
      PostMarketPrice, StatCalendar, ReadCalendar, Tick, vars

LEMMA StepTyped == FeedInv /\ [Next]_vars => TypeOK'
<1> SUFFICES ASSUME FeedInv, [Next]_vars PROVE TypeOK' OBVIOUS
<1> USE FeedAssumption
<1>0. Inputted(store)' BY StepInputted DEF FeedInv
<1>1. /\ now \in 0 .. Horizon + Step /\ fresh \subseteq {"snapshot", "macro"}
      /\ file.stamp \in 0 .. 2 * MaxWrites /\ file.writing \in BOOLEAN
      /\ cache.stamp \in -1 .. file.stamp /\ reading \in -1 .. file.stamp
      /\ sleep \in BaseSleep .. MaxSleep /\ wait \in 0 .. sleep
  BY DEF FeedInv, TypeOK
<1>2. CASE MacroFeed \/ CotFeed \/ EtfFlowsFeed \/ PostMarketSnapshot \/ PostMarketPrice
  <2>1. /\ fresh' \in {fresh, fresh \cup {"macro"}, fresh \cup {"snapshot"}}
        /\ UNCHANGED <<now, file, cache, reading, sleep, wait>>
    BY <1>2 DEF MacroFeed, CotFeed, EtfFlowsFeed, PostMarketSnapshot, PostMarketPrice
  <2>2. fresh' \subseteq {"snapshot", "macro"} BY <1>1, <2>1
  <2> QED BY <1>0, <1>1, <2>1, <2>2 DEF TypeOK, Inputted
<1>3. CASE NewsScanFeed
  <2>1. /\ sleep' \in {BaseSleep, Clamp(2 * sleep, 0, MaxSleep)} /\ wait' = sleep'
        /\ UNCHANGED <<now, fresh, file, cache, reading>>
    BY <1>3 DEF NewsScanFeed
  <2>2. sleep' \in BaseSleep .. MaxSleep /\ wait' \in 0 .. sleep' BY <1>1, <2>1 DEF Clamp
  <2> QED BY <1>0, <1>1, <2>1, <2>2 DEF TypeOK, Inputted
<1>4. CASE CalendarFeed \/ CalendarWritten
  <2>1. file'.stamp = file.stamp + 1 BY <1>4 DEF CalendarFeed, CalendarWritten
  <2>2. file'.writing \in BOOLEAN
    <3>1. CASE CalendarFeed
      <4>1. file' = [stamp |-> file.stamp + 1, events |-> Torn, writing |-> TRUE]
        BY <3>1 DEF CalendarFeed
      <4> QED BY <4>1
    <3>2. CASE CalendarWritten
      <4>1. PICK events \in Calendars :
              file' = [stamp |-> file.stamp + 1, events |-> Parsed(events), writing |-> FALSE]
        BY <3>2 DEF CalendarWritten
      <4> QED BY <4>1
    <3> QED BY <1>4, <3>1, <3>2
  <2>3. UNCHANGED <<now, fresh, cache, reading, sleep, wait>>
    BY <1>4 DEF CalendarFeed, CalendarWritten
  <2>4. file'.stamp \in 0 .. 2 * MaxWrites
    <3>1. CASE CalendarFeed BY <1>1, <2>1, <3>1 DEF CalendarFeed
    <3>2. CASE CalendarWritten
      <4>1. file.stamp % 2 = 1 BY <3>2 DEF CalendarWritten, FeedInv, Stamped
      <4>2. file.stamp # 2 * MaxWrites BY <1>1, <4>1
      <4> QED BY <1>1, <2>1, <4>2
    <3> QED BY <1>4, <3>1, <3>2
  <2> QED BY <1>0, <1>1, <2>1, <2>2, <2>3, <2>4 DEF TypeOK, Inputted
<1>5. CASE StatCalendar \/ ReadCalendar
  <2>1. cache'.stamp \in -1 .. file.stamp /\ reading' \in -1 .. file.stamp
    BY <1>1, <1>5 DEF StatCalendar, ReadCalendar
  <2>2. UNCHANGED <<now, fresh, file, sleep, wait>> BY <1>5 DEF StatCalendar, ReadCalendar
  <2> QED BY <1>0, <1>1, <2>1, <2>2 DEF TypeOK, Inputted
<1>6. CASE Tick
  BY <1>0, <1>1, <1>6 DEF Tick, TypeOK, Inputted
<1>7. CASE UNCHANGED vars
  BY <1>0, <1>1, <1>7 DEF vars, TypeOK, Inputted
<1> QED BY <1>2, <1>3, <1>4, <1>5, <1>6, <1>7 DEF Next, Bot, Ea, Api

(* Every input on record is of the shape its readers expect, the backoff stays *)
(* between its bounds, and the cache is never ahead of the file                *)
(* (feature_store.py:44-170, bot_loops/feeds.py:25-251).                       *)
THEOREM TypeCorrect == Spec => []TypeOK
<1>1. Init => FeedInv BY InitTyped DEF Init, FeedInv, Stamped
<1>2. FeedInv /\ [Next]_vars => FeedInv' BY StepTyped, StepStamped DEF FeedInv
<1>3. FeedInv => TypeOK BY DEF FeedInv
<1> QED BY <1>1, <1>2, <1>3, PTL DEF Spec

-----------------------------------------------------------------------------
(* The cache. *)

LEMMA StepCoherent == TypeOK /\ CacheCoherent /\ [Next]_vars => CacheCoherent'
<1> SUFFICES ASSUME TypeOK, CacheCoherent, [Next]_vars PROVE CacheCoherent' OBVIOUS
<1>1. file.stamp \in Nat /\ cache.stamp \in -1 .. file.stamp /\ reading \in -1 .. file.stamp
  BY FeedAssumption DEF TypeOK
<1>2. CASE CalendarFeed \/ CalendarWritten
  BY <1>1, <1>2 DEF CalendarFeed, CalendarWritten, CacheCoherent
<1>3. CASE ReadCalendar BY <1>1, <1>3 DEF ReadCalendar, CacheCoherent
<1>4. CASE UNCHANGED <<file, cache>> BY <1>4 DEF CacheCoherent
<1> QED
  BY <1>2, <1>3, <1>4
  DEF Next, Bot, Ea, Api, MacroFeed, CotFeed, EtfFlowsFeed, NewsScanFeed, PostMarketSnapshot,
      PostMarketPrice, StatCalendar, Tick, vars

(* However a rewrite falls between the two statements of a reader, a cached    *)
(* calendar that passes for current holds the events of the file, and no half  *)
(* of them (news_calendar.py:101-146).                                         *)
THEOREM CacheIsFile == Spec => []CacheCoherent
<1>1. Init => CacheCoherent BY DEF Init, CacheCoherent
<1>2. TypeOK /\ CacheCoherent /\ [Next]_vars => CacheCoherent' BY StepCoherent
<1> QED BY <1>1, <1>2, TypeCorrect, PTL DEF Spec

-----------------------------------------------------------------------------
(* The scores. *)

LEMMA ClampIs ==
  ASSUME NEW x \in Int, NEW lo \in Int, NEW hi \in Int, lo <= hi
  PROVE  /\ Clamp(x, lo, hi) \in lo .. hi
         /\ x \in lo .. hi => Clamp(x, lo, hi) = x
BY DEF Clamp

LEMMA ShareIs ==
  ASSUME NEW x \in Int, NEW full \in {50, 100, 200}, NEW weight \in Nat
  PROVE  Share(x, full, weight) \in Int
<1> DEFINE part == Clamp(Abs(x), 0, full)
<1>1. part \in Nat BY DEF Clamp, Abs
<1> HIDE DEF part
<1>2. (weight * part) \div full \in Int BY <1>1
<1>3. Share(x, full, weight) = (IF x < 0 THEN -1 ELSE 1) * ((weight * part) \div full)
  BY DEF Share, part
<1> QED BY <1>2, <1>3

LEMMA NetIs ==
  ASSUME NEW closes \in Seq(Int) \ {<<>>}
  PROVE  Net(closes) \in Int
<1>1. Len(closes) \in Nat \ {0} OBVIOUS
<1>2. closes[Len(closes)] \in Int /\ closes[1] \in Int BY <1>1
<1> QED BY <1>2 DEF Net

AxisRange == -1000 .. 1000

(* Every axis stays between its bounds, whatever was posted.                   *)
LEMMA AxesBounded ==
  ASSUME NEW side \in Sides, NEW in, Readable(in)
  PROVE  /\ Trend(side, in) \in AxisRange /\ Levels(side, in) \in AxisRange
         /\ Regime(side, in) \in AxisRange /\ Macro(side, in) \in AxisRange
         /\ Catalyst(in) \in AxisRange
<1>0. Sign(side) \in {-1, 1} BY DEF Sign
<1>1. Trend(side, in) \in AxisRange
  <2> DEFINE D1 == IF "d1" \in DOMAIN in THEN Share(in.d1.gap, 200, 500) ELSE 0
             H4 == IF "h4" \in DOMAIN in THEN Share(in.h4, 100, 200) ELSE 0
             H1 == IF "h1_recent_closes" \in DOMAIN in
                   THEN Share(Net(in.h1_recent_closes), 100, 300) ELSE 0
  <2>1. D1 \in Int BY ShareIs DEF Readable, Daily
  <2>2. H4 \in Int BY ShareIs DEF Readable, Numbers
  <2>3. H1 \in Int BY ShareIs, NetIs DEF Readable
  <2> HIDE DEF D1, H4, H1
  <2>4. Sign(side) * (D1 + H4 + H1) \in Int BY <1>0, <2>1, <2>2, <2>3
  <2>5. Clamp(Sign(side) * (D1 + H4 + H1), -1000, 1000) \in AxisRange BY <2>4 DEF Clamp, AxisRange
  <2> QED BY <2>5 DEF Trend, D1, H4, H1
<1>2. Levels(side, in) \in AxisRange
  <2> DEFINE known == {"market_mid", "d1_prev"} \subseteq DOMAIN in
             High == IF known /\ Abs(in.d1_prev.high - in.market_mid) <= 10
                     THEN -400 * Sign(side) ELSE 0
             Low == IF known /\ Abs(in.d1_prev.low - in.market_mid) <= 10
                    THEN 400 * Sign(side) ELSE 0
             spent == /\ {"d1", "adr20"} \subseteq DOMAIN in
                      /\ in.adr20 > 0
                      /\ 2 * (in.d1.high - in.d1.low) > 3 * in.adr20
                      /\ Sign(side) = IF in.d1.move > 0 THEN 1 ELSE -1
             sum == High + Low - IF spent THEN 300 ELSE 0
  <2>1. High \in {-400, 0, 400} /\ Low \in {-400, 0, 400} BY <1>0
  <2> HIDE DEF High, Low, spent
  <2>2. sum \in Int BY <2>1
  <2> HIDE DEF sum
  <2>3. Clamp(sum, -1000, 1000) \in AxisRange BY <2>2 DEF Clamp, AxisRange
  <2> QED BY <2>3 DEF Levels, High, Low, spent, sum
<1>3. Regime(side, in) \in AxisRange
  <2> DEFINE along == Sign(side) = IF Net(in.h1_recent_closes) > 0 THEN 1 ELSE -1
             Adx == IF "adx_h1" \notin DOMAIN in THEN 0
                    ELSE IF in.adx_h1 < 20 THEN -400
                    ELSE IF in.adx_h1 <= 25 THEN 0
                    ELSE IF "h1_recent_closes" \notin DOMAIN in THEN 100
                    ELSE IF along THEN 400 ELSE -400
             Vix == IF "vix" \notin DOMAIN in THEN 0
                    ELSE IF in.vix > 30 THEN 300 * Sign(side)
                    ELSE IF in.vix < 13 THEN -100 ELSE 0
  <2> HIDE DEF along
  <2>1. Adx \in Int OBVIOUS
  <2>2. Vix \in Int BY <1>0
  <2> HIDE DEF Adx, Vix
  <2>3. Adx + Vix \in Int BY <2>1, <2>2
  <2>4. Clamp(Adx + Vix, -1000, 1000) \in AxisRange BY <2>3 DEF Clamp, AxisRange
  <2> QED BY <2>4 DEF Regime, Adx, Vix, along
<1>4. Macro(side, in) \in AxisRange
  <2> DEFINE Yield == IF "real_yield_10y" \in DOMAIN in
                      THEN Share(-in.real_yield_10y, 50, 500) ELSE 0
             Dxy == IF "dxy" \in DOMAIN in THEN Share(-in.dxy, 50, 300) ELSE 0
             Cot == IF "cot_extremes_percentile" \notin DOMAIN in THEN 0
                    ELSE IF in.cot_extremes_percentile > 85 THEN -300
                    ELSE IF in.cot_extremes_percentile < 15 THEN 300 ELSE 0
             Geo == IF "geopolitical_index" \in DOMAIN in /\ in.geopolitical_index > 60
                    THEN 200 ELSE 0
             Etf == IF "etf_flows_30d_trend" \in DOMAIN in
                    THEN 200 * Clamp(in.etf_flows_30d_trend, -1, 1) ELSE 0
  <2>0. \A x \in Int : Share(-x, 50, 500) \in Int /\ Share(-x, 50, 300) \in Int
    <3> TAKE x \in Int
    <3>1. -x \in Int OBVIOUS
    <3> QED BY <3>1, ShareIs
  <2>1. Yield \in Int BY <2>0 DEF Readable, Numbers
  <2>2. Dxy \in Int BY <2>0 DEF Readable, Numbers
  <2>3. Cot \in Int /\ Geo \in Int OBVIOUS
  <2>4. Etf \in Int BY DEF Clamp, Readable, Numbers
  <2> HIDE DEF Yield, Dxy, Cot, Geo, Etf
  <2>5. Sign(side) * (Yield + Dxy + Cot + Geo + Etf) \in Int BY <1>0, <2>1, <2>2, <2>3, <2>4
  <2>6. Clamp(Sign(side) * (Yield + Dxy + Cot + Geo + Etf), -1000, 1000) \in AxisRange
    BY <2>5 DEF Clamp, AxisRange
  <2> QED BY <2>6 DEF Macro, Yield, Dxy, Cot, Geo, Etf
<1>5. Catalyst(in) \in AxisRange BY DEF Catalyst, AxisRange
<1> QED BY <1>1, <1>2, <1>3, <1>4, <1>5

LEMMA RoundHalfEvenIs ==
  ASSUME NEW n \in Int
  PROVE  RoundHalfEven(n, 2000) \in Int
BY DEF RoundHalfEven

LEMMA ResolveIs ==
  ASSUME NEW style \in Styles
  PROVE  Resolve(Overridable.style, {style}, Overridable.override) = style
BY DEF Resolve, Overridable, Styles

(* Every evaluation has a score out of a hundred; under a veto it is at most   *)
(* 30, and nothing is traded.                                                  *)
LEMMA EvaluationIs ==
  ASSUME NEW side \in Sides, NEW style \in Styles, NEW in, Readable(in), NEW answer
  PROVE  LET e == Evaluate(side, Overridable, {style}, in, answer, 450)
         IN  /\ e.score \in 0 .. 100
             /\ Catalyst(in) <= -900 => e.score <= 30 /\ e.sizing.skip
<1> DEFINE axes == ScoreAll(side, in)
           sum == Weighted(Weights[style], axes)
           composed == Compose(style, axes, Missing(in))
<1>0. /\ Trend(side, in) \in Int /\ Levels(side, in) \in Int /\ Regime(side, in) \in Int
      /\ Macro(side, in) \in Int /\ Catalyst(in) \in Int
  <2>1. /\ Trend(side, in) \in AxisRange /\ Levels(side, in) \in AxisRange
        /\ Regime(side, in) \in AxisRange /\ Macro(side, in) \in AxisRange
        /\ Catalyst(in) \in AxisRange
    BY AxesBounded
  <2>2. AxisRange \subseteq Int BY DEF AxisRange
  <2> QED BY <2>1, <2>2
<1>1. sum \in Int
  <2>1. /\ axes.trend \in Int /\ axes.levels \in Int /\ axes.regime \in Int
        /\ axes.macro \in Int /\ axes.catalyst \in Int
    BY <1>0 DEF ScoreAll
  <2>2. /\ Weights[style].trend \in Nat /\ Weights[style].levels \in Nat /\ Weights[style].regime \in Nat
        /\ Weights[style].macro \in Nat /\ Weights[style].catalyst \in Nat
    BY DEF Weights, Styles
  <2> HIDE DEF axes
  <2> QED BY <2>1, <2>2 DEF Weighted
<1>2. axes.catalyst = Catalyst(in) BY DEF ScoreAll
<1> HIDE DEF axes, sum
<1> DEFINE raw == Clamp(RoundHalfEven(sum + 100000, 2000), 0, 100)
<1>3. raw \in 0 .. 100
  <2>1. RoundHalfEven(sum + 100000, 2000) \in Int BY <1>1, RoundHalfEvenIs
  <2> QED BY <2>1 DEF Clamp
<1> HIDE DEF raw
<1>4. /\ composed.score \in 0 .. 100 /\ composed.vetoed = (Catalyst(in) <= -900)
      /\ composed.vetoed => composed.score <= 30
  <2>1. composed = LET vetoed == axes.catalyst <= -900
                       capped == IF vetoed THEN Clamp(raw, 0, 30) ELSE raw
                       score  == IF Missing(in) # {} THEN Clamp(capped, 0, 70) ELSE capped
                   IN  [score |-> score, verdict |-> Verdict(score), vetoed |-> vetoed,
                        quality |-> IF Missing(in) # {} THEN "reduced" ELSE "full"]
    BY DEF Compose, raw, sum
  <2> DEFINE vetoed == Catalyst(in) <= -900
             capped == IF vetoed THEN Clamp(raw, 0, 30) ELSE raw
             score  == IF Missing(in) # {} THEN Clamp(capped, 0, 70) ELSE capped
  <2>2. composed.score = score /\ composed.vetoed = vetoed BY <1>2, <2>1
  <2>3. capped \in 0 .. 100 /\ (vetoed => capped <= 30) BY <1>3 DEF Clamp
  <2>4. score \in 0 .. 100 /\ (vetoed => score <= 30) BY <2>3 DEF Clamp
  <2> HIDE DEF composed, score
  <2> QED BY <2>2, <2>4
<1> HIDE DEF composed
<1>5. /\ Evaluate(side, Overridable, {style}, in, answer, 450).score = composed.score
      /\ Evaluate(side, Overridable, {style}, in, answer, 450).sizing = Sizing(composed.vetoed, answer, 450)
  BY ResolveIs DEF Evaluate, composed, axes
<1>6. composed.vetoed => Sizing(composed.vetoed, answer, 450).skip BY DEF Sizing
<1> DEFINE e == Evaluate(side, Overridable, {style}, in, answer, 450)
<1>7. e.score \in 0 .. 100 BY <1>4, <1>5
<1>8. Catalyst(in) <= -900 => e.score <= 30 /\ e.sizing.skip BY <1>4, <1>5, <1>6
<1> QED BY <1>7, <1>8

-----------------------------------------------------------------------------
(* The lots. *)

LEMMA MemberIs ==
  ASSUME NEW T, NEW seq \in Seq(T)
  PROVE  Len(seq) \in Nat /\ DOMAIN seq = 1 .. Len(seq) /\ \A i \in DOMAIN seq : seq[i] \in T
OBVIOUS

(* The median horizon is one of those that were answered for.                  *)
LEMMA DecisionalIs ==
  ASSUME NEW estimates \in Seq([minutes : Int, p : Int]), estimates # <<>>
  PROVE  Decisional(estimates).p \in Int
<1> DEFINE I == DOMAIN estimates
           n == Len(estimates)
           Before(i, j) == \/ estimates[i].minutes < estimates[j].minutes
                           \/ estimates[i].minutes = estimates[j].minutes /\ i < j
           Ahead(i) == Shorter(estimates, i)
           rank == [i \in I |-> Cardinality(Ahead(i))]
           k == (n - 1) \div 2
<1>1. n \in Nat \ {0} /\ I = 1 .. n /\ \A i \in I : estimates[i].minutes \in Int /\ estimates[i].p \in Int
  <2>1. n \in Nat /\ I = 1 .. n /\ \A i \in I : estimates[i] \in [minutes : Int, p : Int]
    BY MemberIs
  <2>2. n # 0 OBVIOUS
  <2> QED BY <2>1, <2>2
<1>2. IsFiniteSet(I) /\ Cardinality(I) = n BY <1>1, FS_Interval
<1>3. \A i \in I : i \notin Ahead(i) /\ Ahead(i) \subseteq I BY <1>1 DEF Shorter
<1>4. \A i, j \in I : i # j => Before(i, j) \/ Before(j, i) BY <1>1
<1>5. \A i, j \in I : Before(i, j) => Ahead(i) \subseteq Ahead(j) /\ i \in Ahead(j) BY <1>1 DEF Shorter
<1> HIDE DEF Ahead, Before, I, n
<1>6. \A i \in I : IsFiniteSet(Ahead(i)) /\ Cardinality(Ahead(i)) \in 0 .. n - 1
  <2> TAKE i \in I
  <2>1. IsFiniteSet(Ahead(i)) /\ Cardinality(Ahead(i)) <= n BY <1>2, <1>3, FS_Subset
  <2>2. Cardinality(Ahead(i)) # n BY <1>2, <1>3, <2>1, FS_Subset
  <2>3. Cardinality(Ahead(i)) \in Nat BY <2>1, FS_CardinalityType
  <2> QED BY <1>1, <2>1, <2>2, <2>3
<1>7. \A i, j \in I : Before(i, j) => rank[i] # rank[j]
  <2> SUFFICES ASSUME NEW i \in I, NEW j \in I, Before(i, j), Cardinality(Ahead(i)) = Cardinality(Ahead(j))
               PROVE  FALSE
    OBVIOUS
  <2>1. Ahead(i) = Ahead(j) BY <1>5, <1>6, FS_Subset
  <2> QED BY <1>3, <1>5, <2>1
<1>8. k \in 0 .. n - 1 BY <1>1
<1> HIDE DEF k
<1>9. PICK i \in I : rank[i] = k
  <2> SUFFICES ASSUME \A i \in I : rank[i] # k PROVE FALSE OBVIOUS
  <2> DEFINE R == 0 .. n - 1
             D == R \ {k}
  <2>1. IsFiniteSet(R) /\ Cardinality(R) = n
    <3>1. 0 \in Int /\ n - 1 \in Int BY <1>1
    <3>2. IsFiniteSet(R) /\ Cardinality(R) = (n - 1) - 0 + 1 BY <1>1, <3>1, FS_Interval
    <3> QED BY <1>1, <3>2
  <2>2. k \in R BY <1>8
  <2>3. rank \in [I -> D] BY <1>6
  <2> HIDE DEF R
  <2>4. IsFiniteSet(D) /\ Cardinality(D) = n - 1 BY <2>1, <2>2, FS_RemoveElement
  <2> HIDE DEF D, rank
  <2>5. Cardinality(D) < Cardinality(I) BY <1>1, <1>2, <2>4
  <2>6. \E i, j \in I : i # j /\ rank[i] = rank[j] BY <1>2, <2>3, <2>4, <2>5, FS_PigeonHole
  <2> QED BY <1>4, <1>7, <2>6
<1>10. Median(estimates, i) BY <1>9 DEF Median, Ahead, n, k
<1>11. \E l \in DOMAIN estimates : Decisional(estimates) = estimates[l]
  <2> DEFINE median == CHOOSE l \in DOMAIN estimates : Median(estimates, l)
  <2>1. i \in DOMAIN estimates BY DEF I
  <2>2. median \in DOMAIN estimates BY <1>10, <2>1, Zenon
  <2>3. Decisional(estimates) = estimates[median] BY DEF Decisional
  <2> QED BY <2>2, <2>3
<1> QED BY <1>1, <1>11 DEF I

(* From the lowest band upwards the bands leave no gap and overlap nowhere.    *)
LEMMA MultiplierIs ==
  ASSUME NEW p \in Int, 450 <= p
  PROVE  Multiplier(p) = IF p < 500 THEN 400 ELSE IF p < 550 THEN 700
                         ELSE IF p < 600 THEN 1000 ELSE IF p < 650 THEN 1400 ELSE 1800
<1>1. /\ DOMAIN Bands = 1 .. 5 /\ Len(Bands) = 5
      /\ Bands[1] = [lo |-> 450, hi |-> 500,  lots |-> 400]
      /\ Bands[2] = [lo |-> 500, hi |-> 550,  lots |-> 700]
      /\ Bands[3] = [lo |-> 550, hi |-> 600,  lots |-> 1000]
      /\ Bands[4] = [lo |-> 600, hi |-> 650,  lots |-> 1400]
      /\ Bands[5] = [lo |-> 650, hi |-> 1010, lots |-> 1800]
  BY DEF Bands
<1> DEFINE In(b) == Bands[b].lo <= p /\ p < Bands[b].hi
<1>2. Multiplier(p) = IF \E b \in 1 .. 5 : In(b)
                      THEN Bands[CHOOSE b \in 1 .. 5 : In(b)].lots ELSE Bands[5].lots
  BY <1>1 DEF Multiplier
<1>3. /\ In(1) <=> p < 500
      /\ In(2) <=> 500 <= p /\ p < 550
      /\ In(3) <=> 550 <= p /\ p < 600
      /\ In(4) <=> 600 <= p /\ p < 650
      /\ In(5) <=> 650 <= p /\ p < 1010
  BY <1>1
<1> HIDE DEF In
<1>4. \A b \in 1 .. 5 : b \in {1, 2, 3, 4, 5} OBVIOUS
<1>5. \A a, b \in 1 .. 5 : In(a) /\ In(b) => a = b BY <1>3, <1>4
<1>6. \A a \in 1 .. 5 : In(a) => Multiplier(p) = Bands[a].lots
  <2> TAKE a \in 1 .. 5
  <2> HAVE In(a)
  <2>1. (CHOOSE b \in 1 .. 5 : In(b)) = a BY <1>5
  <2> QED BY <1>2, <2>1
<1>7. ~ (\E b \in 1 .. 5 : In(b)) => Multiplier(p) = 1800 BY <1>1, <1>2
<1> QED BY <1>1, <1>3, <1>4, <1>6, <1>7

LEMMA SizingIs ==
  ASSUME NEW vetoed, NEW answer \in Answers, NEW threshold \in {450, 550}
  PROVE  LET got == Sizing(vetoed, answer, threshold)
         IN  /\ got.skip => got.lots = 0
             /\ got.lots \in Nat
             /\ ~vetoed /\ answer # <<>> =>
                  /\ Decisional(answer).p \in Int
                  /\ got.lots = IF Decisional(answer).p < threshold THEN 0
                                ELSE Multiplier(Decisional(answer).p)
             /\ vetoed => got.lots = 0
<1>1. answer # <<>> => Decisional(answer).p \in Int BY DecisionalIs, PostsAssumption
<1>2. CASE vetoed BY <1>1, <1>2 DEF Sizing
<1>3. CASE ~vetoed /\ answer = <<>> BY <1>3 DEF Sizing
<1>4. CASE ~vetoed /\ answer # <<>>
  <2> DEFINE p == Decisional(answer).p
  <2>1. p \in Int BY <1>1, <1>4
  <2>2. CASE p < threshold BY <1>4, <2>1, <2>2 DEF Sizing
  <2>3. CASE ~ p < threshold
    <3>1. 450 <= p BY <2>1, <2>3
    <3>2. Multiplier(p) \in Nat BY <2>1, <3>1, MultiplierIs
    <3> QED BY <1>4, <2>1, <2>3, <3>2 DEF Sizing
  <2> QED BY <2>2, <2>3
<1> QED BY <1>2, <1>3, <1>4

LEMMA LotsFollow == LotsFollowOdds
<1> DEFINE vetoed == Catalyst(Inputs) <= -900
<1> HIDE DEF vetoed
<1> SUFFICES
      ASSUME NEW threshold \in {450, 550}, NEW a \in Answers, NEW b \in Answers
      PROVE  LET low == [odds |-> a, got |-> Sizing(vetoed, a, threshold)]
                 high == [odds |-> b, got |-> Sizing(vetoed, b, threshold)]
             IN  /\ low.got.skip => low.got.lots = 0
                 /\ <<>> \notin {low.odds, high.odds} /\ Decisional(low.odds).p <= Decisional(high.odds).p
                      => low.got.lots <= high.got.lots
  BY DEF LotsFollowOdds, vetoed
<1> DEFINE low == Sizing(vetoed, a, threshold)
           high == Sizing(vetoed, b, threshold)
<1>1. low.skip => low.lots = 0 BY SizingIs
<1>2. ASSUME a # <<>>, b # <<>>, Decisional(a).p <= Decisional(b).p
      PROVE  low.lots <= high.lots
  <2>1. CASE vetoed
    <3>1. low.lots = 0 /\ high.lots = 0 BY <2>1 DEF Sizing
    <3> QED BY <3>1
  <2>2. CASE ~vetoed
    <3> DEFINE p == Decisional(a).p
               q == Decisional(b).p
    <3>1. /\ p \in Int /\ low.lots = IF p < threshold THEN 0 ELSE Multiplier(p)
          /\ q \in Int /\ high.lots = IF q < threshold THEN 0 ELSE Multiplier(q)
          /\ low.lots \in Nat /\ high.lots \in Nat
      BY <1>2, <2>2, SizingIs
    <3>2. p <= q BY <1>2
    <3> HIDE DEF p, q, low, high
    <3>3. CASE p < threshold BY <3>1, <3>3
    <3>4. CASE ~ p < threshold
      <4>1. 450 <= p /\ 450 <= q /\ ~ q < threshold BY <3>1, <3>2, <3>4
      <4>2. Multiplier(p) <= Multiplier(q) BY <3>1, <3>2, <4>1, MultiplierIs
      <4> QED BY <3>1, <3>4, <4>1, <4>2
    <3> QED BY <3>3, <3>4
  <2> QED BY <2>1, <2>2
<1> QED BY <1>1, <1>2

LEMMA InputsAre ==
  ASSUME TypeOK
  PROVE  /\ Readable(Inputs)
         /\ NextEvent(cache.events, now).impact # "none" =>
              /\ "news_window" \in DOMAIN Inputs
              /\ Inputs.news_window.next = NextEvent(cache.events, now)
<1> DEFINE window == [next |-> NextEvent(cache.events, now), last |-> LastEvent(cache.events, now)]
           news == [news_window |-> window]
<1>1. Readable(store) BY DEF TypeOK
<1>2. Readable(news) BY DEF Readable, Numbers
<1>3. /\ Readable(Over(news, store))
      /\ "news_window" \in DOMAIN Over(news, store) /\ Over(news, store)["news_window"] = window
  <2>1. "news_window" \in DOMAIN news /\ news["news_window"] = window OBVIOUS
  <2> HIDE DEF news, window
  <2>2. Readable(Over(news, store)) BY <1>1, <1>2, MergedReadable
  <2>3. DOMAIN Over(news, store) = DOMAIN news \cup DOMAIN store
    BY MergedIs
  <2>4. Over(news, store)["news_window"] = news["news_window"] BY <2>1, MergedIs
  <2> QED BY <2>1, <2>2, <2>3, <2>4
<1>4. Inputs = IF window.next.impact = "none" /\ window.last.impact = "none" THEN store
               ELSE Over(news, store)
  BY DEF Inputs
<1> HIDE DEF news
<1>5. window.next = NextEvent(cache.events, now) OBVIOUS
<1> HIDE DEF window
<1> QED BY <1>1, <1>3, <1>4, <1>5

LEMMA Vetoes == TypeOK => VetoHolds
<1> SUFFICES
      ASSUME TypeOK, NEW side \in Sides, NEW style \in Styles, NEW answer \in Answers,
             NextEvent(cache.events, now).impact = "high",
             NextEvent(cache.events, now).minutes < 30
      PROVE  LET e == Evaluate(side, Overridable, {style}, Inputs, answer, 450)
             IN  e.score <= 30 /\ e.sizing.skip
  BY DEF VetoHolds
<1> DEFINE in == Inputs
<1>1. Readable(in) BY InputsAre
<1>2. "news_window" \in DOMAIN in /\ in.news_window.next = NextEvent(cache.events, now)
  BY InputsAre
<1>3. Catalyst(in) = -1000
  <2> HIDE DEF in
  <2> QED BY <1>2 DEF Catalyst, PreNews
<1>4. Catalyst(in) <= -900 BY <1>3
<1> HIDE DEF in
<1>5. LET e == Evaluate(side, Overridable, {style}, in, answer, 450)
      IN  e.score <= 30 /\ e.sizing.skip
  BY <1>1, <1>4, EvaluationIs
<1> QED BY <1>5 DEF in

(* What an evaluation promises whatever the model answers: a high-impact       *)
(* release less than half an hour away keeps every signal out of the market,   *)
(* and better odds never mean fewer lots (compose.py:117-126, sizing.py).      *)
THEOREM DecisionsSound == Spec => []DecisionSound
<1>1. TypeOK => DecisionSound BY Vetoes, LotsFollow DEF DecisionSound
<1> QED BY <1>1, TypeCorrect, PTL

-----------------------------------------------------------------------------
(* The readers. *)

LEMMA Reduced == TypeOK => ReducedNeverStrong
<1> SUFFICES
      ASSUME TypeOK,
             ~ (/\ fresh = {"snapshot", "macro"}
                /\ {"market_mid", "d1", "adr20", "adx_h1"} \subseteq DOMAIN Inputs),
             NEW reply \in Replies, reply.verdict \in {"none", Verdict(reply.score)}
      PROVE  LET e == EvaluateV1(reply, MissingV1(Inputs, fresh))
             IN  e.score <= 70 /\ e.verdict # "strong" /\ e.quality = "reduced"
  BY DEF ReducedNeverStrong
<1> DEFINE in == Inputs
           missing == MissingV1(in, fresh)
           said == ParsedReply(reply)
           e == EvaluateV1(reply, missing)
<1>1. missing # {}
  <2> HIDE DEF in
  <2> SUFFICES ASSUME missing = {} PROVE FALSE OBVIOUS
  <2>1. "market_mid" \in DOMAIN in BY DEF MissingV1
  <2>2. SnapshotPresent(in) /\ "snapshot" \in fresh BY DEF MissingV1
  <2>3. {"d1", "adr20", "adx_h1"} \subseteq DOMAIN in BY <2>2 DEF MissingV1
  <2>4. "macro" \in fresh BY DEF MissingV1
  <2>5. fresh \subseteq {"snapshot", "macro"} BY DEF TypeOK
  <2> QED BY <2>1, <2>2, <2>3, <2>4, <2>5 DEF in
<1> HIDE DEF missing
<1>2. reply.score \in Int BY PostsAssumption
<1>3. said.verdict = Verdict(reply.score) /\ said.score = reply.score
  BY DEF ParsedReply
<1> HIDE DEF said
<1>4. CASE reply.score < 0 BY <1>4 DEF EvaluateV1, Unavailable
<1>5. CASE ~ reply.score < 0 /\ said.score > 70
  <2>1. e = [score |-> 70, verdict |-> Verdict(70), quality |-> "reduced"]
    BY <1>1, <1>5 DEF EvaluateV1, said
  <2> HIDE DEF e
  <2> QED BY <2>1 DEF Verdict, e, missing
<1>6. CASE ~ reply.score < 0 /\ ~ said.score > 70
  <2>1. e = [score |-> said.score, verdict |-> said.verdict, quality |-> "reduced"]
    BY <1>1, <1>6 DEF EvaluateV1, said
  <2> HIDE DEF e
  <2> QED BY <1>2, <1>3, <1>6, <2>1 DEF Verdict, e, missing
<1> QED BY <1>4, <1>5, <1>6

(* Of numbers above a bound there is a least one.                              *)
LEMMA MinAbove ==
  ASSUME NEW S \in SUBSET Int, NEW bound \in Int, \A l \in S : l > bound, S # {}
  PROVE  Min(S) \in S /\ \A l \in S : Min(S) <= l
<1> DEFINE R == OpToRel(<, Nat)
           T == {l - bound : l \in S}
<1>1. \A x, y \in Nat : y < x => <<y, x>> \in R BY DEF OpToRel
<1>2. IsWellFoundedOn(R, Nat) BY NatLessThanWellFounded
<1>3. T \subseteq Nat /\ T # {}
  <2>1. \A l \in S : l \in Int /\ l > bound OBVIOUS
  <2>2. \A l \in S : l - bound \in Nat BY <2>1
  <2>3. PICK l \in S : TRUE OBVIOUS
  <2>4. l - bound \in T BY <2>3
  <2> QED BY <2>2, <2>4
<1> HIDE DEF R, T
<1>4. PICK x \in T : \A y \in T : ~ (<<y, x>> \in R) BY <1>2, <1>3, WFMin
<1>5. PICK m \in S : x = m - bound BY <1>4 DEF T
<1>6. \A l \in S : m <= l
  <2> TAKE l \in S
  <2>1. l - bound \in T BY DEF T
  <2>2. x \in Nat /\ l - bound \in Nat /\ ~ (l - bound < x) BY <1>1, <1>3, <1>4, <2>1
  <2> QED BY <1>5, <2>2
<1> QED BY <1>6 DEF Min

LEMMA TrendsAgree ==
  ASSUME NEW in, Readable(in)
  PROVE  /\ Alignment(in) = "ALIGNED_UP" => TrendTag(in) \notin {"aligned_down", "weakly_down"}
         /\ Alignment(in) = "ALIGNED_DOWN" => TrendTag(in) \notin {"aligned_up", "weakly_up"}
         /\ Alignment(in) = "ALIGNED_UP" /\ H4Trend(in) >= 0 => Trend("BUY", in) > 0
<1> DEFINE seen == {"d1", "h1_recent_closes"} \subseteq DOMAIN in
           closes == in.h1_recent_closes
           gap == in.d1.gap
<1>1. Alignment(in) \in {"ALIGNED_UP", "ALIGNED_DOWN"} => seen BY DEF Alignment
<1>2. seen => gap \in Int /\ Net(closes) \in Int BY NetIs DEF Readable, Daily
<1>3. Alignment(in) = "ALIGNED_UP" => gap > 10 /\ Net(closes) > 0
  BY <1>1, <1>2 DEF Alignment, D1Trend, H1Trend, Direction
<1>4. Alignment(in) = "ALIGNED_DOWN" => gap < -10 /\ Net(closes) < 0
  BY <1>1, <1>2 DEF Alignment, D1Trend, H1Trend, Direction
<1> HIDE DEF closes
<1>5. Alignment(in) = "ALIGNED_UP" => TrendTag(in) \notin {"aligned_down", "weakly_down"}
  BY <1>1, <1>2, <1>3 DEF TrendTag, Direction, closes
<1>6. Alignment(in) = "ALIGNED_DOWN" => TrendTag(in) \notin {"aligned_up", "weakly_up"}
  BY <1>1, <1>2, <1>4 DEF TrendTag, Direction, closes
<1>7. ASSUME Alignment(in) = "ALIGNED_UP", H4Trend(in) >= 0 PROVE Trend("BUY", in) > 0
  <2>1. seen /\ gap \in Int /\ gap > 10 /\ Net(closes) \in Int /\ Net(closes) > 0
    BY <1>1, <1>2, <1>3, <1>7
  <2>2. \A x \in Int : x > 10 => Share(x, 200, 500) \in Nat \ {0} BY DEF Share, Abs, Clamp
  <2>3. \A x \in Int : x > 0 => Share(x, 100, 300) \in Nat \ {0} BY DEF Share, Abs, Clamp
  <2>4. \A x \in Int : x >= 0 => Share(x, 100, 200) \in Nat BY DEF Share, Abs, Clamp
  <2> DEFINE d1 == Share(gap, 200, 500)
             h4 == IF "h4" \in DOMAIN in THEN Share(in.h4, 100, 200) ELSE 0
             h1 == Share(Net(closes), 100, 300)
  <2>5. d1 \in Nat \ {0} BY <2>1, <2>2
  <2>6. h1 \in Nat \ {0} BY <2>1, <2>3
  <2>7. h4 \in Nat
    <3>1. CASE "h4" \in DOMAIN in
      <4>1. in.h4 \in Int /\ in.h4 >= 0 BY <1>7, <3>1 DEF Readable, Numbers, H4Trend, Direction
      <4> QED BY <2>4, <3>1, <4>1
    <3> QED BY <3>1
  <2>8. Trend("BUY", in) = Clamp(1 * (d1 + h4 + h1), -1000, 1000)
    BY <2>1 DEF Trend, Sign, closes
  <2> HIDE DEF d1, h4, h1
  <2> QED BY <2>5, <2>6, <2>7, <2>8 DEF Clamp
<1> QED BY <1>5, <1>6, <1>7

LEMMA LevelsAgree ==
  ASSUME NEW in, Readable(in), {"market_mid", "d1_prev"} \subseteq DOMAIN in,
         in.d1_prev.high - in.market_mid \in 1 .. 10
  PROVE  NearestResistance(in) - in.market_mid \in 1 .. 10
<1> DEFINE mid == in.market_mid
           above == {l \in KeyLevels(in) : l > mid}
<1>1. mid \in Int /\ in.d1_prev.high \in Int /\ in.d1_prev.low \in Int
  BY DEF Readable, Numbers, Yesterday
<1>2. KeyLevels(in) \subseteq Int BY <1>1 DEF KeyLevels, Readable, Daily
<1>3. in.d1_prev.high \in above BY <1>1 DEF KeyLevels
<1>4. above \subseteq Int /\ (\A l \in above : l > mid) /\ above # {} BY <1>2, <1>3
<1>5. NearestResistance(in) = Min(above) BY <1>4 DEF NearestResistance
<1> HIDE DEF above
<1>6. Min(above) \in above /\ Min(above) <= in.d1_prev.high BY <1>1, <1>3, <1>4, MinAbove
<1>7. Min(above) \in Int /\ Min(above) > mid BY <1>4, <1>6
<1> QED BY <1>1, <1>5, <1>6, <1>7

LEMMA CatalystsAgree ==
  ASSUME NEW in
  PROVE  /\ (CatalystTag(in) = "pre_news") <=> (Catalyst(in) <= -900)
         /\ (CatalystTag(in) = "post_news") <=> (Catalyst(in) = -500)
BY DEF CatalystTag, Catalyst

AdxPart(side, in) ==
  IF "adx_h1" \notin DOMAIN in THEN 0
  ELSE IF in.adx_h1 < 20 THEN -400
  ELSE IF in.adx_h1 <= 25 THEN 0
  ELSE IF "h1_recent_closes" \notin DOMAIN in THEN 100
  ELSE IF Sign(side) = IF Net(in.h1_recent_closes) > 0 THEN 1 ELSE -1 THEN 400 ELSE -400

VixPart(side, in) ==
  IF "vix" \notin DOMAIN in THEN 0
  ELSE IF in.vix > 30 THEN 300 * Sign(side)
  ELSE IF in.vix < 13 THEN -100 ELSE 0

LEMMA RegimeIs ==
  ASSUME NEW side \in Sides, NEW in
  PROVE  /\ Regime(side, in) = AdxPart(side, in) + VixPart(side, in)
         /\ AdxPart(side, in) \in {-400, 0, 100, 400}
         /\ VixPart(side, in) \in {-300, -100, 0, 300}
<1>1. AdxPart(side, in) \in {-400, 0, 100, 400} BY DEF AdxPart
<1>2. VixPart(side, in) \in {-300, -100, 0, 300} BY DEF VixPart, Sign
<1>3. Regime(side, in) = Clamp(AdxPart(side, in) + VixPart(side, in), -1000, 1000)
  BY DEF Regime, AdxPart, VixPart
<1> QED BY <1>1, <1>2, <1>3 DEF Clamp

LEMMA RegimesAgree ==
  ASSUME NEW in, Readable(in)
  PROVE  /\ (VolTag(in) = "compressed") <=>
              \A side \in Sides : Regime(side, in) < Regime(side, Restrict(in, DOMAIN in \ {"vix"}))
         /\ Regime("BUY", in) > 400 => VolTag(in) = "panic"
<1> DEFINE rest == Restrict(in, DOMAIN in \ {"vix"})
<1>1. DOMAIN rest = DOMAIN in \ {"vix"} /\ \A n \in DOMAIN in \ {"vix"} : rest[n] = in[n]
  BY DEF Restrict
<1> HIDE DEF rest
<1>2. "vix" \in DOMAIN in => in.vix \in Int BY DEF Readable, Numbers
<1>3. ASSUME NEW side \in Sides
      PROVE  Regime(side, rest) = AdxPart(side, in)
  <2>1. VixPart(side, rest) = 0 BY <1>1 DEF VixPart
  <2>2. AdxPart(side, rest) = AdxPart(side, in) BY <1>1 DEF AdxPart
  <2>3. Regime(side, rest) = AdxPart(side, in) + 0 BY <2>1, <2>2, RegimeIs
  <2>4. AdxPart(side, in) \in {-400, 0, 100, 400} BY RegimeIs
  <2> QED BY <2>3, <2>4
<1>4. \A side \in Sides : Regime(side, in) < Regime(side, rest) <=> VixPart(side, in) < 0
  <2> TAKE side \in Sides
  <2>1. Regime(side, rest) = AdxPart(side, in) BY <1>3
  <2>2. /\ Regime(side, in) = AdxPart(side, in) + VixPart(side, in)
        /\ AdxPart(side, in) \in {-400, 0, 100, 400}
        /\ VixPart(side, in) \in {-300, -100, 0, 300}
    BY RegimeIs
  <2> QED BY <2>1, <2>2
<1>5. (VolTag(in) = "compressed") <=> \A side \in Sides : VixPart(side, in) < 0
  <2>1. CASE "vix" \notin DOMAIN in BY <2>1 DEF VolTag, VixPart, Sides
  <2>2. CASE "vix" \in DOMAIN in /\ in.vix < 13 BY <1>2, <2>2 DEF VolTag, VixPart
  <2>3. CASE "vix" \in DOMAIN in /\ ~ in.vix < 13
    <3>1. VolTag(in) # "compressed" BY <2>3 DEF VolTag
    <3>2. "BUY" \in Sides /\ VixPart("BUY", in) \in {0, 300} BY <1>2, <2>3 DEF VixPart, Sign, Sides
    <3> QED BY <3>1, <3>2
  <2> QED BY <2>1, <2>2, <2>3
<1>6. Regime("BUY", in) > 400 => VolTag(in) = "panic"
  <2> SUFFICES ASSUME Regime("BUY", in) > 400 PROVE VolTag(in) = "panic" OBVIOUS
  <2>1. /\ Regime("BUY", in) = AdxPart("BUY", in) + VixPart("BUY", in)
        /\ AdxPart("BUY", in) \in {-400, 0, 100, 400}
        /\ VixPart("BUY", in) \in {-300, -100, 0, 300}
    BY RegimeIs DEF Sides
  <2>2. VixPart("BUY", in) > 0 BY <2>1
  <2>3. "vix" \in DOMAIN in /\ in.vix > 30 BY <1>2, <2>2 DEF VixPart
  <2> QED BY <1>2, <2>3 DEF VolTag
<1> QED BY <1>4, <1>5, <1>6 DEF rest

LEMMA Agree == TypeOK => TagsAgree
<1> SUFFICES ASSUME TypeOK PROVE TagsAgree OBVIOUS
<1> DEFINE in == Inputs
<1>1. Readable(in) BY InputsAre
<1>2. /\ Classify(in).trend = TrendTag(in) /\ Classify(in).vol = VolTag(in)
      /\ Classify(in).catalyst = CatalystTag(in)
  BY DEF Classify
<1> HIDE DEF in
<1>3. /\ Alignment(in) = "ALIGNED_UP" => TrendTag(in) \notin {"aligned_down", "weakly_down"}
      /\ Alignment(in) = "ALIGNED_DOWN" => TrendTag(in) \notin {"aligned_up", "weakly_up"}
      /\ Alignment(in) = "ALIGNED_UP" /\ H4Trend(in) >= 0 => Trend("BUY", in) > 0
  BY <1>1, TrendsAgree
<1>4. {"market_mid", "d1_prev"} \subseteq DOMAIN in =>
        (in.d1_prev.high - in.market_mid \in 1 .. 10 =>
           NearestResistance(in) - in.market_mid \in 1 .. 10)
  BY <1>1, LevelsAgree
<1>5. /\ (CatalystTag(in) = "pre_news") <=> (Catalyst(in) <= -900)
      /\ (CatalystTag(in) = "post_news") <=> (Catalyst(in) = -500)
  BY CatalystsAgree
<1>6. /\ (VolTag(in) = "compressed") <=>
           \A side \in Sides : Regime(side, in) < Regime(side, Restrict(in, DOMAIN in \ {"vix"}))
      /\ Regime("BUY", in) > 400 => VolTag(in) = "panic"
  BY <1>1, RegimesAgree
<1> QED BY <1>2, <1>3, <1>4, <1>5, <1>6 DEF TagsAgree, in

(* The trend, catalyst and volatility tags never contradict the axis scores     *)
(* or the labels of the legacy evaluator, and that one never calls a direction  *)
(* strong on a market it cannot see in full (scorers.py, regime.py,             *)
(* ai_evaluator.py:362-506, 757-762).                                           *)
THEOREM ReadingsAgree == Spec => [](TagsAgree /\ ReducedNeverStrong)
<1>1. TypeOK => TagsAgree /\ ReducedNeverStrong BY Agree, Reduced
<1> QED BY <1>1, TypeCorrect, PTL
=============================================================================
