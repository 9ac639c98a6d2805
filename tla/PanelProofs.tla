----------------------------- MODULE PanelProofs -----------------------------
(* The panel's windows.  The routing file keeps its references whichever view   *)
(* of whatever age saves its copy of it, and a complete install covers the      *)
(* file it was made from; each dialog that signs in to Telegram is of one user  *)
(* to its end.                                                                  *)
EXTENDS Panel, SignIn, FiniteSetTheorems, TLAPS

------------------------------------------------------------------------------
(* The transforms keep a sound file sound.                                     *)

\* what a configuration consists of, typed
LEMMA Fields ==
  ASSUME NEW cfg \in ConfigV2
  PROVE  /\ cfg = [accounts |-> cfg.accounts, profiles |-> cfg.profiles, channels |-> cfg.channels,
                   destinations |-> cfg.destinations, bots |-> cfg.bots, routes |-> cfg.routes,
                   bindings |-> cfg.bindings]
         /\ cfg.accounts \subseteq Name /\ cfg.profiles \subseteq Name /\ cfg.destinations \subseteq Name
         /\ cfg.bots \subseteq Name /\ cfg.channels \subseteq Channel /\ cfg.routes \subseteq Route
         /\ cfg.bindings \subseteq BotBinding
BY DEF ConfigV2

\* what a binding aims at, scope by scope
LEMMA Aims ==
  ASSUME NEW cfg \in ConfigV2, NEW b \in cfg.bindings
  PROVE  /\ b.scope \in Scope
         /\ b.scope = "global" => (TargetKnown(cfg, b.scope, b.target) <=> b.target = Nowhere)
         /\ b.scope = "destination" => (TargetKnown(cfg, b.scope, b.target) <=> b.target \in cfg.destinations)
         /\ b.scope = "channel" => (TargetKnown(cfg, b.scope, b.target) <=> b.target \in Ids(cfg.channels))
         /\ b.scope = "route" => (TargetKnown(cfg, b.scope, b.target) <=> b.target \in Ids(cfg.routes))
BY DEF ConfigV2, BotBinding, TargetKnown

\* a binding still aims at something if that is still there
LEMMA StillAims ==
  ASSUME NEW cfg, Sound(cfg), NEW new \in ConfigV2, NEW b \in cfg.bindings \cap new.bindings,
         b.scope = "destination" => b.target \in new.destinations,
         b.scope = "channel" => b.target \in Ids(new.channels),
         b.scope = "route" => b.target \in Ids(new.routes)
  PROVE  TargetKnown(new, b.scope, b.target)
BY Aims DEF Sound, References, Scope

\* names added to any of the lists
LEMMA Grown ==
  ASSUME NEW cfg, Sound(cfg), NEW n \in Name
  PROVE  /\ Sound(WithAccountAdded(cfg, n)) /\ Sound(WithProfileAdded(cfg, n))
         /\ Sound(WithDestinationAdded(cfg, n)) /\ Sound(WithBotAdded(cfg, n))
<1> USE DEF Sound
<1>1. Sound(WithAccountAdded(cfg, n))
  BY DEF WithAccountAdded, ConfigV2, References, Cells, TargetKnown
<1>2. Sound(WithProfileAdded(cfg, n))
  BY DEF WithProfileAdded, ConfigV2, References, Cells, TargetKnown
<1>3. Sound(WithDestinationAdded(cfg, n))
  <2> DEFINE new == WithDestinationAdded(cfg, n)
  <2>1. /\ new \in ConfigV2 /\ new.channels = cfg.channels /\ new.routes = cfg.routes
        /\ new.bindings = cfg.bindings /\ new.bots = cfg.bots /\ new.destinations = cfg.destinations \union {n}
    BY DEF WithDestinationAdded, ConfigV2
  <2> HIDE DEF new
  <2>2. \A b \in new.bindings : TargetKnown(new, b.scope, b.target)
    BY <2>1, Aims, StillAims DEF References
  <2>3. References(new) BY <2>1, <2>2 DEF References
  <2>4. Sound(new) BY <2>1, <2>3 DEF Cells
  <2> QED BY <2>4 DEF new
<1>4. Sound(WithBotAdded(cfg, n))
  BY DEF WithBotAdded, ConfigV2, References, Cells, TargetKnown
<1> QED BY <1>1, <1>2, <1>3, <1>4

\* channels replaced one by one, each under its id
LEMMA ChannelsEdited ==
  ASSUME NEW cfg, Sound(cfg), NEW f \in [cfg.channels -> Channel], \A c \in cfg.channels : f[c].id = c.id
  PROVE  Sound([cfg EXCEPT !.channels = {f[c] : c \in cfg.channels}])
<1> DEFINE channels == {f[c] : c \in cfg.channels}
           new == [cfg EXCEPT !.channels = channels]
<1>1. IsFiniteSet(channels)
  <2>1. f \in Surjection(cfg.channels, channels) BY DEF Surjection
  <2> QED BY <2>1, FS_Surjection DEF Sound
<1>2. channels \subseteq Channel OBVIOUS
<1>3. Ids(channels) = Ids(cfg.channels) BY DEF Ids
<1>4. \A c, e \in channels : c.id = e.id => c = e BY DEF Sound
<1> HIDE DEF channels
<1>5. /\ new.channels = channels /\ new.routes = cfg.routes /\ new.bindings = cfg.bindings
      /\ new.destinations = cfg.destinations /\ new.bots = cfg.bots
      /\ new \in ConfigV2
  BY <1>2 DEF Sound, ConfigV2
<1> HIDE DEF new
<1>6. References(new)
  BY <1>3, <1>5 DEF Sound, References, TargetKnown
<1>7. Cells(new) BY <1>5 DEF Sound, Cells
<1>8. Sound(new) BY <1>1, <1>4, <1>5, <1>6, <1>7 DEF Sound
<1> QED BY <1>8 DEF new, channels

\* routes replaced one by one, each in its cell and under its id
LEMMA RoutesEdited ==
  ASSUME NEW cfg, Sound(cfg), NEW f \in [cfg.routes -> Route],
         \A r \in cfg.routes : f[r].id = r.id /\ f[r].channel = r.channel /\ f[r].destination = r.destination
  PROVE  Sound([cfg EXCEPT !.routes = {f[r] : r \in cfg.routes}])
<1> DEFINE routes == {f[r] : r \in cfg.routes}
           new == [cfg EXCEPT !.routes = routes]
<1>1. routes \subseteq Route OBVIOUS
<1>2. Ids(routes) = Ids(cfg.routes) BY DEF Ids
<1>3. \A r \in routes : \E q \in cfg.routes : r = f[q] /\ r.channel = q.channel /\ r.destination = q.destination
  OBVIOUS
<1> HIDE DEF routes
<1>5. /\ new.channels = cfg.channels /\ new.routes = routes /\ new.bindings = cfg.bindings
      /\ new.destinations = cfg.destinations /\ new.bots = cfg.bots
      /\ new \in ConfigV2
  BY <1>1 DEF Sound, ConfigV2
<1> HIDE DEF new
<1>6. References(new)
  BY <1>2, <1>3, <1>5 DEF Sound, References, TargetKnown
<1>7. Cells(new)
  <2> SUFFICES ASSUME NEW r \in routes, NEW q \in routes, r.channel = q.channel, r.destination = q.destination
               PROVE  r = q
    BY <1>5 DEF Cells
  <2>1. PICK s \in cfg.routes : r = f[s] /\ r.channel = s.channel /\ r.destination = s.destination BY <1>3
  <2>2. PICK t \in cfg.routes : q = f[t] /\ q.channel = t.channel /\ q.destination = t.destination BY <1>3
  <2>3. s = t BY <2>1, <2>2 DEF Sound, Cells
  <2> QED BY <2>1, <2>2, <2>3
<1>8. Sound(new) BY <1>5, <1>6, <1>7 DEF Sound
<1> QED BY <1>8 DEF new, routes

\* routes go with the bindings scoped to them
LEMMA RoutesRemoved ==
  ASSUME NEW cfg, Sound(cfg), NEW ids
  PROVE  Sound(WithRoutesRemoved(cfg, ids))
<1> DEFINE new == WithRoutesRemoved(cfg, ids)
<1>1. /\ new.channels = cfg.channels /\ new.routes = {r \in cfg.routes : r.id \notin ids}
      /\ new.bindings = {b \in cfg.bindings : ~(b.scope = "route" /\ b.target \in ids)}
      /\ new.destinations = cfg.destinations /\ new.bots = cfg.bots
      /\ new \in ConfigV2
  BY DEF WithRoutesRemoved, Sound, ConfigV2
<1> HIDE DEF new
<1>2. References(new)
  <2>1. \A b \in new.bindings : TargetKnown(new, b.scope, b.target)
    <3> TAKE b \in new.bindings
    <3>1. b \in cfg.bindings /\ ~(b.scope = "route" /\ b.target \in ids) /\ TargetKnown(cfg, b.scope, b.target)
      BY <1>1 DEF Sound, References
    <3>2. b.scope = "destination" => b.target \in new.destinations BY <1>1, <3>1, Aims DEF Sound
    <3>3. b.scope = "channel" => b.target \in Ids(new.channels) BY <1>1, <3>1, Aims DEF Sound
    <3>4. b.scope = "route" => b.target \in Ids(new.routes) BY <1>1, <3>1, Aims DEF Sound, Ids
    <3> QED BY <1>1, <3>1, <3>2, <3>3, <3>4, StillAims
  <2> QED BY <1>1, <2>1 DEF Sound, References
<1>3. Cells(new) BY <1>1 DEF Sound, Cells
<1> QED BY <1>1, <1>2, <1>3 DEF Sound, new

\* channels go with their routes and the bindings scoped to either
LEMMA ChannelsRemoved ==
  ASSUME NEW cfg, Sound(cfg), NEW cs
  PROVE  Sound(WithChannelsRemoved(cfg, cs))
<1> DEFINE mid == WithRoutesRemoved(cfg, Ids({r \in cfg.routes : r.channel \in cs}))
           new == WithChannelsRemoved(cfg, cs)
<1>1. Sound(mid) BY RoutesRemoved
<1>2. \A r \in mid.routes : r \in cfg.routes /\ r.channel \notin cs
  BY DEF WithRoutesRemoved, Ids, Sound, ConfigV2
<1>3. new = [mid EXCEPT !.channels = {c \in @ : c.id \notin cs},
                        !.bindings = {b \in @ : ~(b.scope = "channel" /\ b.target \in cs)}]
  BY DEF WithChannelsRemoved
<1> HIDE DEF mid, new
<1>4. /\ new.channels = {c \in mid.channels : c.id \notin cs} /\ new.routes = mid.routes
      /\ new.bindings = {b \in mid.bindings : ~(b.scope = "channel" /\ b.target \in cs)}
      /\ new.destinations = mid.destinations /\ new.bots = mid.bots
      /\ new \in ConfigV2
  BY <1>1, <1>3 DEF Sound, ConfigV2
<1>5. References(new)
  <2>1. \A b \in new.bindings : TargetKnown(new, b.scope, b.target)
    <3> TAKE b \in new.bindings
    <3>1. b \in mid.bindings /\ ~(b.scope = "channel" /\ b.target \in cs) /\ TargetKnown(mid, b.scope, b.target)
      BY <1>1, <1>4 DEF Sound, References
    <3>2. b.scope = "destination" => b.target \in new.destinations BY <1>1, <1>4, <3>1, Aims DEF Sound
    <3>3. b.scope = "channel" => b.target \in Ids(new.channels) BY <1>1, <1>4, <3>1, Aims DEF Sound, Ids
    <3>4. b.scope = "route" => b.target \in Ids(new.routes) BY <1>1, <1>4, <3>1, Aims DEF Sound
    <3> QED BY <1>1, <1>4, <3>1, <3>2, <3>3, <3>4, StillAims
  <2>2. \A r \in new.routes : r.channel \in Ids(new.channels)
    BY <1>1, <1>2, <1>4 DEF Sound, References, Ids
  <2> QED BY <1>1, <1>4, <2>1, <2>2 DEF Sound, References
<1>6. Cells(new) BY <1>1, <1>4 DEF Sound, Cells
<1>7. IsFiniteSet(new.channels) BY <1>1, <1>4, FS_Subset DEF Sound
<1>8. Sound(new) BY <1>1, <1>4, <1>5, <1>6, <1>7 DEF Sound
<1> QED BY <1>8 DEF new
LEMMA AccountRemoved ==
  ASSUME NEW cfg, Sound(cfg), NEW a
  PROVE  Sound(WithAccountRemoved(cfg, a))
<1> DEFINE mid == WithChannelsRemoved(cfg, Ids({c \in cfg.channels : c.account = a}))
<1>1. Sound(mid) BY ChannelsRemoved
<1>2. WithAccountRemoved(cfg, a) = [mid EXCEPT !.accounts = @ \ {a}] BY DEF WithAccountRemoved
<1> HIDE DEF mid
<1> QED BY <1>1, <1>2 DEF Sound, ConfigV2, References, Cells, TargetKnown

LEMMA ProfileRemoved ==
  ASSUME NEW cfg, Sound(cfg), NEW p
  PROVE  Sound(WithProfileRemoved(cfg, p))
BY DEF WithProfileRemoved, Sound, ConfigV2, References, Cells, TargetKnown

LEMMA DestinationRemoved ==
  ASSUME NEW cfg, Sound(cfg), NEW d
  PROVE  Sound(WithDestinationRemoved(cfg, d))
<1> DEFINE mid == WithRoutesRemoved(cfg, Ids(RoutesTo(cfg, d)))
           new == WithDestinationRemoved(cfg, d)
<1>1. Sound(mid) BY RoutesRemoved
<1>2. \A r \in mid.routes : r \in cfg.routes /\ r.destination # d
  BY DEF WithRoutesRemoved, Ids, RoutesTo, Sound, ConfigV2
<1>3. new = [mid EXCEPT !.destinations = @ \ {d},
                        !.bindings = {b \in @ : ~(b.scope = "destination" /\ b.target = d)}]
  BY DEF WithDestinationRemoved
<1> HIDE DEF mid, new
<1>4. /\ new.channels = mid.channels /\ new.routes = mid.routes /\ new.bots = mid.bots
      /\ new.bindings = {b \in mid.bindings : ~(b.scope = "destination" /\ b.target = d)}
      /\ new.destinations = mid.destinations \ {d}
      /\ new \in ConfigV2
  BY <1>1, <1>3 DEF Sound, ConfigV2
<1>5. References(new)
  <2>1. \A b \in new.bindings : TargetKnown(new, b.scope, b.target)
    <3> TAKE b \in new.bindings
    <3>1. b \in mid.bindings /\ ~(b.scope = "destination" /\ b.target = d) /\ TargetKnown(mid, b.scope, b.target)
      BY <1>1, <1>4 DEF Sound, References
    <3>2. b.scope = "destination" => b.target \in new.destinations BY <1>1, <1>4, <3>1, Aims DEF Sound
    <3>3. b.scope = "channel" => b.target \in Ids(new.channels) BY <1>1, <1>4, <3>1, Aims DEF Sound
    <3>4. b.scope = "route" => b.target \in Ids(new.routes) BY <1>1, <1>4, <3>1, Aims DEF Sound
    <3> QED BY <1>1, <1>4, <3>1, <3>2, <3>3, <3>4, StillAims
  <2>2. \A r \in new.routes : r.channel \in Ids(new.channels) /\ r.destination \in new.destinations
    BY <1>1, <1>2, <1>4 DEF Sound, References
  <2> QED BY <1>1, <1>4, <2>1, <2>2 DEF Sound, References
<1>6. Cells(new) BY <1>1, <1>4 DEF Sound, Cells
<1>8. Sound(new) BY <1>1, <1>4, <1>5, <1>6 DEF Sound
<1> QED BY <1>8 DEF new

LEMMA BotRemoved ==
  ASSUME NEW cfg, Sound(cfg), NEW b
  PROVE  Sound(WithBotRemoved(cfg, b))
BY DEF WithBotRemoved, Sound, ConfigV2, References, Cells, TargetKnown

LEMMA BindingRemoved ==
  ASSUME NEW cfg, Sound(cfg), NEW id
  PROVE  Sound(WithBindingRemoved(cfg, id))
BY DEF WithBindingRemoved, Sound, ConfigV2, References, Cells, TargetKnown

\* a channel, a route into an empty cell, a binding that aims at something: any of them may be added
LEMMA Extended ==
  ASSUME NEW cfg, Sound(cfg),
         NEW channels \in SUBSET Channel, IsFiniteSet(channels),
         \A c, e \in channels : c.id = e.id => c = e,
         Ids(cfg.channels) \subseteq Ids(channels),
         NEW routes \in SUBSET Route, cfg.routes \subseteq routes,
         \A r \in routes \ cfg.routes :
           /\ r.channel \in Ids(channels) /\ r.destination \in cfg.destinations
           /\ \A q \in routes : r.channel = q.channel /\ r.destination = q.destination => r = q,
         NEW bindings \in SUBSET BotBinding, cfg.bindings \subseteq bindings,
         NEW new, new = [cfg EXCEPT !.channels = channels, !.routes = routes, !.bindings = bindings],
         \A b \in bindings \ cfg.bindings : b.bot \in cfg.bots /\ TargetKnown(new, b.scope, b.target)
  PROVE  Sound(new)
<1>1. /\ new.channels = channels /\ new.routes = routes /\ new.bindings = bindings
      /\ new.destinations = cfg.destinations /\ new.bots = cfg.bots
      /\ new \in ConfigV2
  BY DEF Sound, ConfigV2
<1>2. Ids(cfg.routes) \subseteq Ids(new.routes) BY <1>1 DEF Ids
<1>3. \A b \in new.bindings : b.bot \in new.bots /\ TargetKnown(new, b.scope, b.target)
  <2> TAKE b \in new.bindings
  <2>1. CASE b \in cfg.bindings
    <3>1. b.bot \in cfg.bots /\ TargetKnown(cfg, b.scope, b.target) BY <2>1 DEF Sound, References
    <3>2. b.scope = "destination" => b.target \in new.destinations BY <1>1, <2>1, <3>1, Aims DEF Sound
    <3>3. b.scope = "channel" => b.target \in Ids(new.channels) BY <1>1, <2>1, <3>1, Aims DEF Sound
    <3>4. b.scope = "route" => b.target \in Ids(new.routes) BY <1>2, <2>1, <3>1, Aims DEF Sound
    <3> QED BY <1>1, <2>1, <3>1, <3>2, <3>3, <3>4, StillAims
  <2>2. CASE b \notin cfg.bindings BY <1>1, <2>2
  <2> QED BY <2>1, <2>2
<1>4. \A r \in new.routes : r.channel \in Ids(new.channels) /\ r.destination \in new.destinations
  BY <1>1 DEF Sound, References
<1>5. Cells(new) BY <1>1 DEF Sound, Cells
<1>6. References(new) BY <1>3, <1>4 DEF References
<1> QED BY <1>1, <1>5, <1>6 DEF Sound

LEMMA RouteAdded ==
  ASSUME NEW cfg, Sound(cfg), NEW c \in Name, NEW d \in Name, CanAddRoute(cfg, c, d)
  PROVE  Sound(WithRouteAdded(cfg, c, d))
<1> DEFINE r == NewRoute(<<c, d>>, c, d)
           routes == cfg.routes \union {r}
           new == WithRouteAdded(cfg, c, d)
<1>1. r \in Route /\ r.channel = c /\ r.destination = d BY DEF NewRoute, Route, RouteId
<1> HIDE DEF r
<1>2. routes \in SUBSET Route BY <1>1, Fields DEF Sound
<1>3. \A x \in routes \ cfg.routes :
        /\ x.channel \in Ids(cfg.channels) /\ x.destination \in cfg.destinations
        /\ \A q \in routes : x.channel = q.channel /\ x.destination = q.destination => x = q
  BY <1>1 DEF CanAddRoute
<1>4. new = [cfg EXCEPT !.channels = cfg.channels, !.routes = routes, !.bindings = cfg.bindings]
  BY DEF WithRouteAdded, r, Sound, ConfigV2
<1>5. cfg.routes \subseteq routes OBVIOUS
<1> HIDE DEF new, routes
<1>6. /\ cfg.channels \in SUBSET Channel /\ IsFiniteSet(cfg.channels)
      /\ \A x, e \in cfg.channels : x.id = e.id => x = e
      /\ Ids(cfg.channels) \subseteq Ids(cfg.channels)
      /\ cfg.bindings \in SUBSET BotBinding /\ cfg.bindings \subseteq cfg.bindings
  BY Fields DEF Sound
<1>7. \A x \in cfg.bindings \ cfg.bindings : x.bot \in cfg.bots /\ TargetKnown(new, x.scope, x.target)
  OBVIOUS
<1>8. Sound(new) BY <1>2, <1>3, <1>4, <1>5, <1>6, <1>7, Extended
<1> QED BY <1>8 DEF new

LEMMA BindingAdded ==
  ASSUME NEW cfg, Sound(cfg), NEW bot \in Name, NEW scope \in Scope, NEW t \in Target,
         CanAddBinding(cfg, bot, scope, t)
  PROVE  Sound(WithBindingAdded(cfg, bot, scope, t))
<1> DEFINE b == NewBinding(<<bot, scope, t>>, bot, scope, t)
           bindings == cfg.bindings \union {b}
           new == WithBindingAdded(cfg, bot, scope, t)
<1>1. b \in BotBinding /\ b.bot = bot /\ b.scope = scope /\ b.target = t BY DEF NewBinding, BotBinding
<1> HIDE DEF b
<1>2. bindings \in SUBSET BotBinding BY <1>1, Fields DEF Sound
<1>3. new = [cfg EXCEPT !.channels = cfg.channels, !.routes = cfg.routes, !.bindings = bindings]
  BY DEF WithBindingAdded, b, Sound, ConfigV2
<1>4. new.channels = cfg.channels /\ new.routes = cfg.routes /\ new.destinations = cfg.destinations
  BY <1>3 DEF Sound, ConfigV2
<1> HIDE DEF new
<1>5. TargetKnown(new, scope, t) BY <1>4 DEF CanAddBinding, TargetKnown, Scope
<1>6. \A x \in bindings \ cfg.bindings : x.bot \in cfg.bots /\ TargetKnown(new, x.scope, x.target)
  BY <1>1, <1>5 DEF CanAddBinding
<1>7. cfg.bindings \subseteq bindings OBVIOUS
<1> HIDE DEF bindings
<1>8. /\ cfg.channels \in SUBSET Channel /\ IsFiniteSet(cfg.channels)
      /\ \A x, e \in cfg.channels : x.id = e.id => x = e
      /\ Ids(cfg.channels) \subseteq Ids(cfg.channels)
      /\ cfg.routes \in SUBSET Route /\ cfg.routes \subseteq cfg.routes
  BY Fields DEF Sound
<1>9. \A x \in cfg.routes \ cfg.routes :
        /\ x.channel \in Ids(cfg.channels) /\ x.destination \in cfg.destinations
        /\ \A q \in cfg.routes : x.channel = q.channel /\ x.destination = q.destination => x = q
  OBVIOUS
<1>10. Sound(new) BY <1>2, <1>3, <1>6, <1>7, <1>8, <1>9, Extended
<1> QED BY <1>10 DEF new

LEMMA ChannelAdded ==
  ASSUME NEW cfg, Sound(cfg), NEW n \in Name, NEW chat \in Chat, NEW account, NEW profile, NEW d, NEW bot,
         CanAddChannel(cfg, n, chat, account, profile, d, bot)
  PROVE  Sound(ApplyAddChannel(cfg, n, chat, account, profile, d, bot))
<1> DEFINE c == NewChannel(n, account, profile, chat)
           r == NewRoute(<<n>>, n, d)
           b == NewBinding(<<n>>, bot, "destination", d)
           channels == cfg.channels \union {c}
           routes == cfg.routes \union {r}
           bindings == cfg.bindings \union {b}
           new == ApplyAddChannel(cfg, n, chat, account, profile, d, bot)
<1>0. account \in Name /\ profile \in Name /\ d \in Name /\ bot \in Name
  BY Fields DEF CanAddChannel, Sound
<1>1. c \in Channel /\ c.id = n BY <1>0 DEF NewChannel, Channel
<1>2. r \in Route /\ r.channel = n /\ r.destination = d BY <1>0 DEF NewRoute, Route, RouteId
<1>3. b \in BotBinding /\ b.bot = bot /\ b.scope = "destination" /\ b.target = d
  BY <1>0 DEF NewBinding, BotBinding, Scope, Target
<1>4. new = [cfg EXCEPT !.channels = channels, !.routes = routes, !.bindings = bindings]
  BY DEF ApplyAddChannel, Sound, ConfigV2
<1>5. new.destinations = cfg.destinations BY <1>4 DEF Sound, ConfigV2
<1> HIDE DEF c, r, b, new
<1>6. IsFiniteSet(channels) BY FS_AddElement DEF Sound
<1>7. channels \in SUBSET Channel /\ routes \in SUBSET Route /\ bindings \in SUBSET BotBinding
  BY <1>1, <1>2, <1>3, Fields DEF Sound
<1>8. \A x, e \in channels : x.id = e.id => x = e
  BY <1>1 DEF CanAddChannel, Ids, Sound
<1>9. Ids(cfg.channels) \subseteq Ids(channels) /\ n \in Ids(channels) BY <1>1 DEF Ids
<1>10. \A x \in routes \ cfg.routes :
        /\ x.channel \in Ids(channels) /\ x.destination \in cfg.destinations
        /\ \A q \in routes : x.channel = q.channel /\ x.destination = q.destination => x = q
  BY <1>2, <1>9 DEF CanAddChannel, Sound, References
<1>11. \A x \in bindings \ cfg.bindings : x.bot \in cfg.bots /\ TargetKnown(new, x.scope, x.target)
  BY <1>3, <1>5 DEF CanAddChannel, TargetKnown
<1>12. cfg.routes \subseteq routes /\ cfg.bindings \subseteq bindings OBVIOUS
<1> HIDE DEF channels, routes, bindings
<1>13. Sound(new) BY <1>4, <1>6, <1>7, <1>8, <1>9, <1>10, <1>11, <1>12, Extended
<1> QED BY <1>13 DEF new

\* the wizard's entities, on a file that has none of them routed
Composed(cfg, n) ==
  /\ {n} \subseteq cfg.accounts \intersect cfg.profiles \intersect cfg.destinations \intersect cfg.bots
  /\ RoutesTo(cfg, n) = {}

LEMMA WizardComposed ==
  ASSUME NEW cfg, Sound(cfg), NEW n \in Name, n \notin cfg.destinations
  PROVE  Sound(ComposeWizardEntities(cfg, n)) /\ Composed(ComposeWizardEntities(cfg, n), n)
<1> DEFINE a == WithAccountAdded(cfg, n)
           b == WithProfileAdded(a, n)
           c == WithDestinationAdded(b, n)
           new == WithBotAdded(c, n)
<1>1. Sound(new) BY Grown
<1>2. new = ComposeWizardEntities(cfg, n)
  BY DEF ComposeWizardEntities, WithAccountAdded, WithProfileAdded, WithDestinationAdded, WithBotAdded,
         Sound, ConfigV2
<1>3. new.routes = cfg.routes /\ n \in new.accounts /\ n \in new.profiles /\ n \in new.destinations /\ n \in new.bots
  BY DEF WithAccountAdded, WithProfileAdded, WithDestinationAdded, WithBotAdded, Sound, ConfigV2
<1> HIDE DEF new
<1>4. RoutesTo(new, n) = {} BY <1>3 DEF RoutesTo, Sound, References
<1> QED BY <1>1, <1>2, <1>3, <1>4 DEF Composed

LEMMA WizardFinalized ==
  ASSUME NEW cfg, Sound(cfg), NEW n \in Name, Composed(cfg, n), NEW chat \in Chat \union {NoChat}
  PROVE  Sound(FinalizeWizardChannel(cfg, n, chat))
<1> DEFINE c == NewChannel(n, n, n, chat)
           r == NewRoute(<<n>>, n, n)
           b == NewBinding(<<n>>, n, "destination", n)
           channels == IF n \in Ids(cfg.channels) \/ chat = NoChat THEN cfg.channels ELSE cfg.channels \union {c}
           routes == IF <<n>> \in Ids(cfg.routes) \/ chat = NoChat THEN cfg.routes ELSE cfg.routes \union {r}
           bindings == IF <<n>> \in Ids(cfg.bindings) THEN cfg.bindings ELSE cfg.bindings \union {b}
           new == FinalizeWizardChannel(cfg, n, chat)
<1>1. c \in Channel /\ c.id = n BY DEF NewChannel, Channel
<1>2. r \in Route /\ r.channel = n /\ r.destination = n BY DEF NewRoute, Route, RouteId
<1>3. b \in BotBinding /\ b.bot = n /\ b.scope = "destination" /\ b.target = n
  BY DEF NewBinding, BotBinding, Scope, Target
<1>4. new = [cfg EXCEPT !.channels = channels, !.routes = routes, !.bindings = bindings]
  BY DEF FinalizeWizardChannel, Sound, ConfigV2
<1>5. new.destinations = cfg.destinations BY <1>4 DEF Sound, ConfigV2
<1> HIDE DEF c, r, b, new
<1>6. IsFiniteSet(channels) BY FS_AddElement DEF Sound
<1>7. channels \in SUBSET Channel /\ routes \in SUBSET Route /\ bindings \in SUBSET BotBinding
  BY <1>1, <1>2, <1>3, Fields DEF Sound
<1>8. \A x, e \in channels : x.id = e.id => x = e
  BY <1>1 DEF Ids, Sound
<1>9. Ids(cfg.channels) \subseteq Ids(channels) /\ (chat # NoChat => n \in Ids(channels)) BY <1>1 DEF Ids
<1>10. \A x \in routes \ cfg.routes :
        /\ x.channel \in Ids(channels) /\ x.destination \in cfg.destinations
        /\ \A q \in routes : x.channel = q.channel /\ x.destination = q.destination => x = q
  BY <1>2, <1>9 DEF Composed, RoutesTo
<1>11. \A x \in bindings \ cfg.bindings : x.bot \in cfg.bots /\ TargetKnown(new, x.scope, x.target)
  BY <1>3, <1>5 DEF Composed, TargetKnown
<1>12. cfg.routes \subseteq routes /\ cfg.bindings \subseteq bindings OBVIOUS
<1> HIDE DEF channels, routes, bindings
<1>13. Sound(new) BY <1>4, <1>6, <1>7, <1>8, <1>9, <1>10, <1>11, <1>12, Extended
<1> QED BY <1>13 DEF new

LEMMA MigratedSound ==
  ASSUME NEW stacks \in V1Files
  PROVE  Sound(Migrate(stacks))
<1> DEFINE names == {s.name : s \in stacks}
           f == [s \in stacks |-> NewChannel(s.name, MigratedAccount(s), s.name, s.chat)]
           channels == {f[s] : s \in stacks}
           new == Migrate(stacks)
<1>1. stacks \subseteq V1Stack /\ IsFiniteSet(stacks) /\ \A s, t \in stacks : s.name = t.name => s = t
  BY FileAssumption
<1>2. \A s \in stacks : s.name \in Name /\ MigratedAccount(s) \in Name /\ s.chat \in Chat \union {NoChat}
  BY <1>1 DEF V1Stack, MigratedAccount
<1>3. \A s \in stacks : f[s] \in Channel /\ f[s].id = s.name
  BY <1>2 DEF NewChannel, Channel
<1>4. channels = {NewChannel(s.name, MigratedAccount(s), s.name, s.chat) : s \in stacks} OBVIOUS
<1>5. /\ new.accounts = {MigratedAccount(s) : s \in stacks}
      /\ new.profiles = names /\ new.destinations = names /\ new.bots = names
      /\ new.channels = channels
      /\ new.routes = {NewRoute(<<n>>, n, n) : n \in names}
      /\ new.bindings = {NewBinding(<<n>>, n, "destination", n) : n \in names}
      /\ new = [accounts |-> new.accounts, profiles |-> new.profiles, channels |-> new.channels,
                 destinations |-> new.destinations, bots |-> new.bots, routes |-> new.routes,
                 bindings |-> new.bindings]
  BY <1>4 DEF Migrate
<1>6. IsFiniteSet(channels)
  <2>1. f \in Surjection(stacks, channels) BY DEF Surjection
  <2> QED BY <1>1, <2>1, FS_Surjection
<1>7. \A c, e \in channels : c.id = e.id => c = e BY <1>1, <1>3
<1>8. Ids(channels) = names /\ channels \subseteq Channel BY <1>3 DEF Ids
<1> HIDE DEF f, channels, new
<1>9. \A n \in names : n \in Name BY <1>2
<1>10. \A r \in new.routes : r \in Route /\ r.channel \in names /\ r.destination = r.channel
                             /\ r = NewRoute(<<r.channel>>, r.channel, r.channel)
  <2> TAKE r \in new.routes
  <2>1. PICK n \in names : r = NewRoute(<<n>>, n, n) BY <1>5
  <2>2. n \in Name /\ <<n>> \in RouteId BY <1>9 DEF RouteId
  <2>3. r.channel = n /\ r.destination = n BY <2>1 DEF NewRoute
  <2>4. r \in Route BY <2>1, <2>2 DEF NewRoute, Route
  <2> QED BY <2>1, <2>3, <2>4
<1>11. \A b \in new.bindings : b \in BotBinding /\ b.bot \in names /\ b.scope = "destination" /\ b.target \in names
  BY <1>5, <1>9 DEF NewBinding, BotBinding, Scope, Target
<1> HIDE DEF names
<1>12. new.accounts \subseteq Name BY <1>2, <1>5
<1>13. new \in ConfigV2 BY <1>5, <1>8, <1>9, <1>10, <1>11, <1>12 DEF ConfigV2
<1>14. References(new) BY <1>5, <1>8, <1>10, <1>11 DEF References, TargetKnown
<1>15. Cells(new) BY <1>10 DEF Cells
<1>16. Sound(new) BY <1>5, <1>6, <1>7, <1>13, <1>14, <1>15 DEF Sound
<1> QED BY <1>16 DEF new

------------------------------------------------------------------------------
(* What the file means to its readers.                                         *)

\* a bot asks for the destinations it writes about, the warning asks for the bots of a destination
LEMMA BotsTold ==
  ASSUME NEW cfg, Sound(cfg), NEW d \in cfg.destinations, NEW bot
  PROVE  d \in DestinationsForBot(cfg, bot) <=> \E x \in BindingsForDestination(cfg, d) : x.bot = bot
<1> DEFINE mine == {b \in cfg.bindings : b.bot = bot}
           aimed(b) == CASE b.scope = "destination" -> {b.target}
                         [] b.scope = "channel"     -> {r.destination : r \in RoutesOf(cfg, b.target)}
                         [] b.scope = "route"       -> {r.destination : r \in {q \in cfg.routes : q.id = b.target}}
<1>1. ASSUME NEW b \in mine
      PROVE  b \in BindingsForDestination(cfg, d) <=> b.scope = "global" \/ d \in aimed(b)
  <2>0. b \in cfg.bindings /\ b.scope \in Scope BY Fields DEF Sound, BotBinding
  <2>1. CASE b.scope = "global" BY <2>0, <2>1 DEF BindingsForDestination
  <2>2. CASE b.scope = "destination" BY <2>0, <2>2 DEF BindingsForDestination
  <2>3. CASE b.scope = "channel"
    <3>1. aimed(b) = {r.destination : r \in RoutesOf(cfg, b.target)} BY <2>3
    <3>2. d \in aimed(b) <=> \E r \in cfg.routes : r.channel = b.target /\ r.destination = d
      BY <3>1 DEF RoutesOf
    <3>3. b \in BindingsForDestination(cfg, d) <=> b.target \in {r.channel : r \in RoutesTo(cfg, d)}
      BY <2>0, <2>3 DEF BindingsForDestination
    <3>4. b.target \in {r.channel : r \in RoutesTo(cfg, d)}
            <=> \E r \in cfg.routes : r.channel = b.target /\ r.destination = d
      BY DEF RoutesTo
    <3> QED BY <2>3, <3>2, <3>3, <3>4
  <2>4. CASE b.scope = "route"
    <3>1. aimed(b) = {r.destination : r \in {q \in cfg.routes : q.id = b.target}} BY <2>4
    <3>2. d \in aimed(b) <=> \E r \in cfg.routes : r.id = b.target /\ r.destination = d
      BY <3>1
    <3>3. b \in BindingsForDestination(cfg, d) <=> b.target \in Ids(RoutesTo(cfg, d))
      BY <2>0, <2>4 DEF BindingsForDestination
    <3>4. b.target \in Ids(RoutesTo(cfg, d)) <=> \E r \in cfg.routes : r.id = b.target /\ r.destination = d
      BY DEF RoutesTo, Ids
    <3> QED BY <2>4, <3>2, <3>3, <3>4
  <2> QED BY <2>0, <2>1, <2>2, <2>3, <2>4 DEF Scope
<1>2. DestinationsForBot(cfg, bot)
        = IF \E b \in mine : b.scope = "global" THEN cfg.destinations
          ELSE cfg.destinations \intersect UNION {aimed(b) : b \in mine}
  BY DEF DestinationsForBot
<1>3. (\E x \in BindingsForDestination(cfg, d) : x.bot = bot) <=> \E b \in mine : b \in BindingsForDestination(cfg, d)
  BY DEF BindingsForDestination
<1> HIDE DEF aimed
<1>4. d \in DestinationsForBot(cfg, bot) <=> \E b \in mine : b.scope = "global" \/ d \in aimed(b)
  BY <1>2
<1> QED BY <1>1, <1>3, <1>4

\* so the warning names exactly the pairs that would both write
LEMMA WarningExact ==
  ASSUME NEW cfg, Sound(cfg), NEW d \in cfg.destinations, NEW b \in cfg.bots, NEW c \in cfg.bots, b # c
  PROVE  d \in DestinationsForBot(cfg, b) \intersect DestinationsForBot(cfg, c)
           <=> <<d, {b, c}>> \in DetectBindingOverlaps(cfg)
<1> DEFINE told(e) == {x.bot : x \in BindingsForDestination(cfg, e)}
           pairs(e) == {<<e, pair>> : pair \in {p \in SUBSET told(e) : Cardinality(p) = 2}}
<1>1. Cardinality({b, c}) = 2
  <2>1. IsFiniteSet({b}) /\ Cardinality({b}) = 1 BY FS_Singleton
  <2>2. Cardinality({b} \union {c}) = Cardinality({b}) + 1 BY <2>1, FS_AddElement
  <2>3. {b} \union {c} = {b, c} OBVIOUS
  <2> QED BY <2>1, <2>2, <2>3
<1>2. DetectBindingOverlaps(cfg) = UNION {pairs(e) : e \in cfg.destinations} BY DEF DetectBindingOverlaps
<1>3. \A e \in cfg.destinations : <<d, {b, c}>> \in pairs(e) => e = d OBVIOUS
<1>4. <<d, {b, c}>> \in pairs(d) <=> b \in told(d) /\ c \in told(d) BY <1>1
<1>5. \A x \in {b, c} : d \in DestinationsForBot(cfg, x) <=> x \in told(d) BY BotsTold
<1> HIDE DEF told, pairs
<1> QED BY <1>2, <1>3, <1>4, <1>5

\* a sound file is what the views show and the bots read
LEMMA SoundFile ==
  ASSUME file # Absent => Sound(file)
  PROVE  FileSound
<1>1. OverlapWarned BY WarningExact DEF OverlapWarned
<1> QED BY <1>1 DEF FileSound, Wired, OneRoutePerCell, Sound

------------------------------------------------------------------------------
(* What a complete install leaves registered.                                  *)

\* the parts of the derived specification
Bots(cfg, d)  == {b.bot : b \in BindingsForDestination(cfg, d)} \intersect cfg.bots
Heard(cfg, c) == {r.destination : r \in RoutesOf(cfg, c.id)} \intersect Served(cfg)
Live(cfg, a)  == {c \in cfg.channels : c.enabled /\ c.account = a /\ Heard(cfg, c) # {}}

LEMMA SpecParts ==
  ASSUME NEW cfg
  PROVE  DeriveServiceSpec(cfg)
           = {Entry("api", d, d, Nowhere) : d \in Served(cfg)}
             \union {Entry("bot", b, CHOOSE d \in Served(cfg) : b \in Bots(cfg, d), Nowhere)
                       : b \in UNION {Bots(cfg, d) : d \in Served(cfg)}}
             \union {Entry("listener", a, CHOOSE d \in UNION {Heard(cfg, c) : c \in Live(cfg, a)} : TRUE, a)
                       : a \in {x \in cfg.accounts : Live(cfg, x) # {}}}
BY DEF DeriveServiceSpec, Bots, Heard, Live

\* what they put into it
LEMMA SpecMembers ==
  ASSUME NEW cfg
  PROVE  /\ \A d \in Served(cfg) : Entry("api", d, d, Nowhere) \in DeriveServiceSpec(cfg)
         /\ \A d \in Served(cfg) : \A b \in Bots(cfg, d) :
              \E i \in DeriveServiceSpec(cfg) : i.role = "bot" /\ i.of = b
         /\ \A a \in cfg.accounts :
              Live(cfg, a) # {} =>
                Entry("listener", a, CHOOSE d \in UNION {Heard(cfg, c) : c \in Live(cfg, a)} : TRUE, a)
                  \in DeriveServiceSpec(cfg)
         /\ \A a \in cfg.accounts :
              Live(cfg, a) # {} =>
                \E i \in DeriveServiceSpec(cfg) : i.role = "listener" /\ i.of = a /\ i.account = a
<1> DEFINE tailed(b) == Entry("bot", b, CHOOSE d \in Served(cfg) : b \in Bots(cfg, d), Nowhere)
           started(a) == Entry("listener", a, CHOOSE d \in UNION {Heard(cfg, c) : c \in Live(cfg, a)} : TRUE, a)
           bots == UNION {Bots(cfg, d) : d \in Served(cfg)}
           heeded == {x \in cfg.accounts : Live(cfg, x) # {}}
<1>1. DeriveServiceSpec(cfg) = {Entry("api", d, d, Nowhere) : d \in Served(cfg)}
                               \union {tailed(b) : b \in bots} \union {started(a) : a \in heeded}
  BY SpecParts
<1>2. /\ \A b \in bots : tailed(b).role = "bot" /\ tailed(b).of = b
      /\ \A a \in heeded : started(a).role = "listener" /\ started(a).of = a /\ started(a).account = a
  BY DEF Entry
<1> HIDE DEF tailed, started
<1>3. \A a \in heeded : started(a) \in DeriveServiceSpec(cfg) BY <1>1
<1>4. \A b \in bots : tailed(b) \in DeriveServiceSpec(cfg) BY <1>1
<1>5. \A d \in Served(cfg) : Entry("api", d, d, Nowhere) \in DeriveServiceSpec(cfg) BY <1>1
<1> QED BY <1>2, <1>3, <1>4, <1>5 DEF started

ServiceEntry == [role: {"api", "bot", "listener"}, of: Name, db: Name, account: Name \union {Nowhere}]

LEMMA SpecTyped ==
  ASSUME NEW cfg, Sound(cfg)
  PROVE  DeriveServiceSpec(cfg) \subseteq ServiceEntry
<1>0. Served(cfg) \subseteq Name BY Fields DEF Sound, Served
<1>1. \A d \in Served(cfg) : Entry("api", d, d, Nowhere) \in ServiceEntry
  BY <1>0 DEF Entry, ServiceEntry
<1>2. ASSUME NEW b \in UNION {Bots(cfg, d) : d \in Served(cfg)}
      PROVE  Entry("bot", b, CHOOSE d \in Served(cfg) : b \in Bots(cfg, d), Nowhere) \in ServiceEntry
  <2>1. \E d \in Served(cfg) : b \in Bots(cfg, d) OBVIOUS
  <2>2. (CHOOSE d \in Served(cfg) : b \in Bots(cfg, d)) \in Name BY <1>0, <2>1
  <2>3. b \in Name BY Fields DEF Bots, Sound
  <2> QED BY <2>2, <2>3 DEF Entry, ServiceEntry
<1>3. ASSUME NEW a \in cfg.accounts, Live(cfg, a) # {}
      PROVE  Entry("listener", a, CHOOSE d \in UNION {Heard(cfg, c) : c \in Live(cfg, a)} : TRUE, a) \in ServiceEntry
  <2>1. \E c \in Live(cfg, a) : Heard(cfg, c) # {} BY <1>3 DEF Live
  <2>2. \E d \in UNION {Heard(cfg, c) : c \in Live(cfg, a)} : TRUE BY <2>1
  <2>3. UNION {Heard(cfg, c) : c \in Live(cfg, a)} \subseteq Name BY <1>0 DEF Heard
  <2>4. (CHOOSE d \in UNION {Heard(cfg, c) : c \in Live(cfg, a)} : TRUE) \in Name BY <2>2, <2>3
  <2>5. a \in Name BY Fields DEF Sound
  <2> QED BY <2>4, <2>5 DEF Entry, ServiceEntry
<1> QED BY <1>1, <1>2, <1>3, SpecParts

\* a service has one entry in a specification
LEMMA SpecNamed ==
  ASSUME NEW cfg, NEW e \in DeriveServiceSpec(cfg), NEW f \in DeriveServiceSpec(cfg),
         ServiceName(e) = ServiceName(f)
  PROVE  e = f
<1> DEFINE tailed(b) == CHOOSE d \in Served(cfg) : b \in Bots(cfg, d)
           started(a) == CHOOSE d \in UNION {Heard(cfg, c) : c \in Live(cfg, a)} : TRUE
<1>1. e.role = f.role /\ e.of = f.of BY DEF ServiceName
<1>2. \A x \in DeriveServiceSpec(cfg) :
        \/ x.role = "api" /\ x = Entry("api", x.of, x.of, Nowhere)
        \/ x.role = "bot" /\ x = Entry("bot", x.of, tailed(x.of), Nowhere)
        \/ x.role = "listener" /\ x = Entry("listener", x.of, started(x.of), x.of)
  BY SpecParts DEF Entry
<1> HIDE DEF tailed, started
<1> QED BY <1>1, <1>2


\* a listener registered from the specification takes its account's channels: all legs of an account
\* with several, the one leg of a channel that shares neither end of its route
LEMMA ListenerServes ==
  ASSUME NEW cfg, Sound(cfg), NEW c \in cfg.channels, NEW r \in cfg.routes,
         c.enabled, r.channel = c.id, c.account \in cfg.accounts, c.chat # NoChat
  PROVE  \E i \in DeriveServiceSpec(cfg) :
           /\ i.role = "listener" /\ i.account = c.account
           /\ \/ /\ Cardinality(ChannelsServed(cfg, c.account)) = 1
                 /\ RoutesOf(cfg, c.id) \union RoutesTo(cfg, r.destination) # {r}
              \/ [chat |-> c.chat, channel |-> c.id, destination |-> r.destination] \in Legs(cfg, i)
<1> DEFINE a == c.account
           db == CHOOSE d \in UNION {Heard(cfg, x) : x \in Live(cfg, a)} : TRUE
           i == Entry("listener", a, db, a)
           live == ChannelsServed(cfg, a)
           leg == [chat |-> c.chat, channel |-> c.id, destination |-> r.destination]
<1>1. r.destination \in cfg.destinations /\ r.destination \in Served(cfg)
  BY DEF Sound, References, Served, RoutesTo
<1>2. r.destination \in Heard(cfg, c) BY <1>1 DEF Heard, RoutesOf
<1>3. c \in Live(cfg, a) BY <1>2 DEF Live
<1>4. i \in DeriveServiceSpec(cfg) BY <1>3, SpecMembers
<1>5. i.role = "listener" /\ i.account = a /\ i.db = db BY DEF Entry
<1>6. a # Nowhere BY Fields, NoneIsNothing DEF Sound, Channel
<1>7. live = {x \in cfg.channels : x.enabled /\ x.account = a}
  BY <1>6 DEF ChannelsServed, AccountServed
<1>8. c \in live /\ IsFiniteSet(live) BY <1>7, FS_Subset DEF Sound
<1>9. CASE Cardinality(live) > 1
  <2>1. leg \in MultiLegs(cfg, live) BY <1>1, <1>8 DEF MultiLegs, RoutesOf
  <2>2. leg \in Legs(cfg, i) BY <1>5, <1>9, <2>1 DEF Legs
  <2> QED BY <1>4, <1>5, <2>2
<1>10. CASE Cardinality(live) = 1 /\ RoutesOf(cfg, c.id) \union RoutesTo(cfg, r.destination) = {r}
  <2>1. live = {c} BY <1>8, <1>10, FS_Singleton
  <2>2. RoutesOf(cfg, c.id) = {r} /\ RoutesTo(cfg, r.destination) = {r}
    BY <1>10 DEF RoutesOf, RoutesTo
  <2>3. Live(cfg, a) = {c} BY <1>3, <1>7, <2>1 DEF Live
  <2>4. Heard(cfg, c) = {r.destination} BY <1>1, <2>2 DEF Heard
  <2>5. db = r.destination
    <3>1. UNION {Heard(cfg, x) : x \in Live(cfg, a)} = {r.destination} BY <2>3, <2>4
    <3> QED BY <3>1
  <2> HIDE DEF db
  <2>6. SessionAt(cfg, c) = {db}
    <3>1. {x.destination : x \in RoutesOf(cfg, c.id)} \intersect cfg.destinations = {db}
      BY <1>1, <2>2, <2>5
    <3>2. (CHOOSE d \in {db} : TRUE) = db OBVIOUS
    <3> QED BY <3>1, <3>2 DEF SessionAt
  <2>7. SyncedFrom(cfg, db) = {c}
    <3>1. {x \in cfg.channels : x.enabled /\ \E q \in RoutesTo(cfg, db) : q.channel = x.id} = {c}
      BY <2>2, <2>5 DEF Sound
    <3>2. (CHOOSE x \in {c} : TRUE) = c OBVIOUS
    <3> QED BY <3>1, <3>2 DEF SyncedFrom
  <2>8. DispatchTarget(cfg, db) = c.id
    <3>1. RoutesTo(cfg, db) = {r} BY <2>2, <2>5
    <3>2. Cardinality(RoutesTo(cfg, db)) = 1 BY <3>1, FS_Singleton
    <3>3. {x.channel : x \in RoutesTo(cfg, db)} = {c.id} BY <3>1
    <3>4. (CHOOSE x \in {c.id} : TRUE) = c.id OBVIOUS
    <3> QED BY <3>2, <3>3, <3>4 DEF DispatchTarget
  <2>9. leg \in SingleLegs(cfg, c, db) BY <2>5, <2>6, <2>7, <2>8 DEF SingleLegs
  <2>10. leg \in Legs(cfg, i) BY <1>5, <1>10, <2>1, <2>9 DEF Legs
  <2> QED BY <1>4, <1>5, <2>10
<1>11. Cardinality(live) \in Nat /\ Cardinality(live) # 0
  BY <1>8, FS_CardinalityType, FS_EmptySet
<1> QED BY <1>4, <1>5, <1>9, <1>10, <1>11

\* with the specification of the file registered, its routes are served and its stacks start
LEMMA CompleteCovers ==
  ASSUME NEW cfg, Sound(cfg), file = cfg, cfg # Absent, DeriveServiceSpec(cfg) \subseteq installed
  PROVE  InstallCovers
<1>1. LegServed
  <2> SUFFICES ASSUME NEW c \in cfg.channels, NEW r \in cfg.routes,
                      c.enabled, r.channel = c.id, c.account \in cfg.accounts
               PROVE  /\ Entry("api", r.destination, r.destination, Nowhere) \in installed
                      /\ \A b \in cfg.bots :
                           r.destination \in DestinationsForBot(cfg, b) =>
                               \E i \in installed : ServiceName(i) = <<"bot", b>>
                      /\ \E i \in installed :
                           /\ i.role = "listener" /\ i.account = c.account
                           /\ \/ c.chat = NoChat
                              \/ Cardinality(ChannelsServed(cfg, c.account)) = 1
                                   /\ RoutesOf(cfg, c.id) \union RoutesTo(cfg, r.destination) # {r}
                              \/ [chat |-> c.chat, channel |-> c.id, destination |-> r.destination] \in Legs(cfg, i)
    BY DEF LegServed
  <2>1. r.destination \in Served(cfg) /\ r.destination \in cfg.destinations
    BY DEF Sound, References, Served, RoutesTo
  <2>2. Entry("api", r.destination, r.destination, Nowhere) \in installed BY <2>1, SpecParts
  <2>3. ASSUME NEW b \in cfg.bots, r.destination \in DestinationsForBot(cfg, b)
        PROVE  \E i \in installed : ServiceName(i) = <<"bot", b>>
    <3>1. b \in Bots(cfg, r.destination) BY <2>1, <2>3, BotsTold DEF Bots
    <3>2. \E i \in DeriveServiceSpec(cfg) : i.role = "bot" /\ i.of = b BY <2>1, <3>1, SpecMembers
    <3> QED BY <3>2 DEF ServiceName
  <2>4. \E i \in installed : i.role = "listener" /\ i.account = c.account
    <3>1. r.destination \in Heard(cfg, c) BY <2>1 DEF Heard, RoutesOf
    <3>2. c \in Live(cfg, c.account) BY <3>1 DEF Live
    <3>3. \E i \in DeriveServiceSpec(cfg) : i.role = "listener" /\ i.account = c.account
      BY <3>2, SpecMembers
    <3> QED BY <3>3
  <2>5. CASE c.chat = NoChat BY <2>2, <2>3, <2>4, <2>5
  <2>6. CASE c.chat # NoChat BY <2>2, <2>3, <2>6, ListenerServes
  <2> QED BY <2>5, <2>6
<1>2. StackStarts
  <2> SUFFICES ASSUME NEW d \in cfg.destinations, \E r \in RoutesTo(cfg, d) : TRUE,
                      \A c \in cfg.channels : RoutesOf(cfg, c.id) \intersect RoutesTo(cfg, d) # {} => c.enabled,
                      NEW s \in StackServices(cfg, d)
               PROVE  \E i \in installed : ServiceName(i) = s
    BY DEF StackStarts
  <2>0. d \in Served(cfg) BY DEF Served
  <2>1. CASE s = <<"api", d>>
    <3>1. Entry("api", d, d, Nowhere) \in installed BY <2>0, SpecParts
    <3> QED BY <2>1, <3>1 DEF Entry, ServiceName
  <2>2. ASSUME NEW b \in Bots(cfg, d), s = <<"bot", b>>
        PROVE  \E i \in installed : ServiceName(i) = s
    <3>1. \E i \in DeriveServiceSpec(cfg) : i.role = "bot" /\ i.of = b BY <2>0, SpecMembers
    <3> QED BY <2>2, <3>1 DEF ServiceName
  <2>3. ASSUME NEW c \in cfg.channels, NEW r \in RoutesTo(cfg, d), r.channel = c.id,
               c.account \in cfg.accounts, s = <<"listener", c.account>>
        PROVE  \E i \in installed : ServiceName(i) = s
    <3>1. r \in RoutesOf(cfg, c.id) \intersect RoutesTo(cfg, d) BY <2>3 DEF RoutesOf, RoutesTo
    <3>2. c.enabled BY <3>1
    <3>3. d \in Heard(cfg, c) BY <2>0, <3>1 DEF Heard, RoutesTo
    <3>4. c \in Live(cfg, c.account) BY <3>2, <3>3 DEF Live
    <3>5. \E i \in DeriveServiceSpec(cfg) : i.role = "listener" /\ i.of = c.account
      BY <2>3, <3>4, SpecMembers
    <3> QED BY <2>3, <3>5 DEF ServiceName
  <2> QED BY <2>1, <2>2, <2>3 DEF StackServices, Bots
<1> QED BY <1>1, <1>2 DEF InstallCovers

------------------------------------------------------------------------------
(* The inductive invariant.                                                    *)

\* the file and what every view holds of it are files the program has written, however old
FilesSound == /\ file # Absent => Sound(file)
              /\ \A v \in View : copy[v] # Absent => Sound(copy[v])

\* an open wizard finds what it composed, still without a route
WizardHolds == wizard \in Name => file # Absent /\ Composed(file, wizard)

\* what the last complete install registered is registered, also once the file has moved on
CoveredInstalled == Spec0(covered) \subseteq installed

PanelInv == TypeOK /\ FilesSound /\ WizardHolds /\ CoveredInstalled

LEMMA EmptySound == Sound(Empty)
BY FS_EmptySet DEF Sound, Empty, ConfigV2, References, Cells

LEMMA SpecOfFile ==
  ASSUME FilesSound
  PROVE  Spec0(file) \subseteq ServiceEntry
BY SpecTyped DEF FilesSound, Spec0

LEMMA InitInv == Init => PanelInv
<1> SUFFICES ASSUME Init PROVE PanelInv OBVIOUS
<1>1. file # Absent => Sound(file) BY FileAssumption, MigratedSound DEF Init
<1>2. \A v \in View : Loaded(v, file) # Absent => Sound(Loaded(v, file)) BY <1>1, EmptySound DEF Loaded
<1>3. \A v \in View : copy[v] = Loaded(v, file) BY DEF Init
<1>4. FilesSound BY <1>1, <1>2, <1>3 DEF FilesSound
<1>5. \A v \in View : Loaded(v, file) \in ConfigV2 \union {Absent} BY <1>2 DEF Sound
<1>6. copy \in [View -> ConfigV2 \union {Absent}] BY <1>5 DEF Init
<1>7. writes \in 0..MaxWrites BY FileAssumption DEF Init
<1>8. rows \union installed \subseteq ServiceEntry BY <1>4, SpecOfFile DEF Init
<1>9. file \in ConfigV2 \union {Absent} BY <1>1 DEF Sound
<1>10. TypeOK BY <1>6, <1>7, <1>8, <1>9 DEF TypeOK, ServiceEntry, Init
<1> QED BY <1>4, <1>10, FileAssumption DEF PanelInv, WizardHolds, CoveredInstalled, Spec0, Init

------------------------------------------------------------------------------
(* Editing.                                                                    *)

\* a view writes a sound file made from its copy, and holds it from then on
Saves == wizard = "closed" /\ \E v \in View : \E cfg \in ConfigV2 : Sound(cfg) /\ SaveFrom(v, cfg)

LEMMA SavesKept ==
  ASSUME PanelInv, Saves
  PROVE  PanelInv'
<1>1. PICK v \in View : \E cfg \in ConfigV2 : Sound(cfg) /\ SaveFrom(v, cfg) BY DEF Saves
<1>2. PICK cfg \in ConfigV2 : Sound(cfg) /\ SaveFrom(v, cfg) BY <1>1
<1>3. /\ file' = cfg /\ writes < MaxWrites /\ writes' = writes + 1 /\ copy' = [copy EXCEPT ![v] = cfg]
      /\ UNCHANGED <<wizard, rows, installed, covered>> /\ wizard = "closed"
  BY <1>2 DEF SaveFrom, SaveV2, services, Saves
<1>4. copy' \in [View -> ConfigV2 \union {Absent}] /\ \A u \in View : copy'[u] \in {copy[u], cfg}
  BY <1>3 DEF PanelInv, TypeOK
<1>5. FilesSound' BY <1>2, <1>3, <1>4 DEF FilesSound, PanelInv
<1>6. writes' \in 0..MaxWrites BY <1>3, FileAssumption DEF PanelInv, TypeOK
<1>7. TypeOK' BY <1>3, <1>4, <1>6 DEF PanelInv, TypeOK
<1>8. WizardHolds' BY <1>3, FileAssumption DEF WizardHolds
<1>9. CoveredInstalled' BY <1>3 DEF PanelInv, CoveredInstalled
<1> QED BY <1>5, <1>7, <1>8, <1>9 DEF PanelInv

\* the one way an edit ends
LEMMA SavesFrom ==
  ASSUME NEW v \in View, NEW cfg, Sound(cfg), Holds(v), SaveFrom(v, cfg)
  PROVE  Saves
BY DEF Saves, Holds, Sound

LEMMA HeldSound ==
  ASSUME PanelInv, NEW v \in View, Holds(v)
  PROVE  Sound(copy[v])
BY DEF PanelInv, FilesSound, Holds

\* the two switches of a channel, the switch of a route, the forms and the failover rule
LEMMA Toggled ==
  ASSUME NEW cfg, Sound(cfg), NEW c
  PROVE  Sound([cfg EXCEPT !.channels = {IF ch.id = c THEN [ch EXCEPT !.enabled = ~@] ELSE ch : ch \in @}])
<1> DEFINE f == [ch \in cfg.channels |-> IF ch.id = c THEN [ch EXCEPT !.enabled = ~@] ELSE ch]
<1>1. cfg.channels \subseteq Channel BY Fields DEF Sound
<1>2. f \in [cfg.channels -> Channel] /\ \A ch \in cfg.channels : f[ch].id = ch.id
  <2>1. \A ch \in Channel : \A b \in BOOLEAN :
          [ch EXCEPT !.enabled = b] \in Channel /\ [ch EXCEPT !.enabled = b].id = ch.id
    BY DEF Channel
  <2>2. \A ch \in Channel : (~ch.enabled) \in BOOLEAN OBVIOUS
  <2>3. \A ch \in Channel : [ch EXCEPT !.enabled = ~@] \in Channel /\ [ch EXCEPT !.enabled = ~@].id = ch.id
    BY <2>1, <2>2, Zenon
  <2>4. \A ch \in cfg.channels : f[ch] \in Channel /\ f[ch].id = ch.id BY <1>1, <2>3, Zenon
  <2> QED BY <2>4
<1>3. {IF ch.id = c THEN [ch EXCEPT !.enabled = ~@] ELSE ch : ch \in cfg.channels} = {f[ch] : ch \in cfg.channels}
  OBVIOUS
<1> HIDE DEF f
<1>4. Sound([cfg EXCEPT !.channels = {f[ch] : ch \in cfg.channels}]) BY <1>2, ChannelsEdited
<1> QED BY <1>3, <1>4

LEMMA ChannelHalted ==
  ASSUME NEW cfg, Sound(cfg), NEW c, NEW halted \in BOOLEAN
  PROVE  Sound(WithChannelHalted(cfg, c, halted))
<1> DEFINE f == [ch \in cfg.channels |-> IF ch.id = c THEN [ch EXCEPT !.halted = halted] ELSE ch]
<1>1. cfg.channels \subseteq Channel BY Fields DEF Sound
<1>2. f \in [cfg.channels -> Channel] /\ \A ch \in cfg.channels : f[ch].id = ch.id BY <1>1 DEF Channel
<1>3. WithChannelHalted(cfg, c, halted) = [cfg EXCEPT !.channels = {f[ch] : ch \in cfg.channels}]
  BY DEF WithChannelHalted
<1> HIDE DEF f
<1> QED BY <1>2, <1>3, ChannelsEdited

LEMMA RouteHalted ==
  ASSUME NEW cfg, Sound(cfg), NEW id, NEW halted \in BOOLEAN
  PROVE  Sound(WithRouteHalted(cfg, id, halted))
<1> DEFINE f == [rt \in cfg.routes |-> IF rt.id = id THEN [rt EXCEPT !.halted = halted] ELSE rt]
<1>1. cfg.routes \subseteq Route BY Fields DEF Sound
<1>2. /\ f \in [cfg.routes -> Route]
      /\ \A r \in cfg.routes : f[r].id = r.id /\ f[r].channel = r.channel /\ f[r].destination = r.destination
  BY <1>1 DEF Route
<1>3. WithRouteHalted(cfg, id, halted) = [cfg EXCEPT !.routes = {f[r] : r \in cfg.routes}]
  BY DEF WithRouteHalted
<1> HIDE DEF f
<1> QED BY <1>2, <1>3, RoutesEdited

LEMMA RouteFailsOver ==
  ASSUME NEW cfg, Sound(cfg), NEW id, NEW d \in Name \union {Nowhere}
  PROVE  Sound(WithRouteFailover(cfg, id, d))
<1> DEFINE f == [rt \in cfg.routes |-> IF rt.id = id THEN [rt EXCEPT !.fallback = d] ELSE rt]
<1>1. cfg.routes \subseteq Route BY Fields DEF Sound
<1>2. /\ f \in [cfg.routes -> Route]
      /\ \A r \in cfg.routes : f[r].id = r.id /\ f[r].channel = r.channel /\ f[r].destination = r.destination
  BY <1>1 DEF Route
<1>3. WithRouteFailover(cfg, id, d) = [cfg EXCEPT !.routes = {f[r] : r \in cfg.routes}]
  BY DEF WithRouteFailover
<1> HIDE DEF f
<1> QED BY <1>2, <1>3, RoutesEdited

LEMMA ChannelFormFilled ==
  ASSUME NEW cfg, Sound(cfg), NEW ch \in cfg.channels, NEW new \in ChannelForm(ch)
  PROVE  Sound([cfg EXCEPT !.channels = (@ \ {ch}) \union {new}])
<1> DEFINE f == [x \in cfg.channels |-> IF x = ch THEN new ELSE x]
<1>1. ch \in Channel BY Fields DEF Sound
<1>2. new \in Channel /\ new.id = ch.id BY <1>1 DEF ChannelForm, Channel
<1>3. cfg.channels \subseteq Channel BY Fields DEF Sound
<1>4. f \in [cfg.channels -> Channel] /\ \A x \in cfg.channels : f[x].id = x.id BY <1>2, <1>3
<1>5. (cfg.channels \ {ch}) \union {new} = {f[x] : x \in cfg.channels} OBVIOUS
<1> HIDE DEF f
<1>6. Sound([cfg EXCEPT !.channels = {f[x] : x \in cfg.channels}]) BY <1>4, ChannelsEdited
<1> QED BY <1>5, <1>6

LEMMA EditSaves ==
  ASSUME PanelInv, Edit
  PROVE  Saves
<1> DEFINE e == copy["entities"]
           r == copy["routes"]
           b == copy["bindings"]
<1>0. {"entities", "routes", "bindings"} \subseteq View BY DEF View
<1>1. ASSUME NEW c \in Name, ToggleChannelEnabled(c) PROVE Saves
  <2>1. Sound(e) BY <1>0, <1>1, HeldSound DEF ToggleChannelEnabled
  <2> QED BY <1>0, <1>1, <2>1, Toggled, SavesFrom DEF ToggleChannelEnabled
<1>2. ASSUME NEW c \in Name, ToggleChannelHalt(c) PROVE Saves
  <2>1. Sound(e) BY <1>0, <1>2, HeldSound DEF ToggleChannelHalt
  <2>2. PICK ch \in e.channels : SaveFrom("entities", WithChannelHalted(e, c, ~ch.halted))
    BY <1>2 DEF ToggleChannelHalt, ChannelRows
  <2>3. (~ch.halted) \in BOOLEAN OBVIOUS
  <2>4. Sound(WithChannelHalted(e, c, ~ch.halted)) BY <2>1, <2>3, ChannelHalted
  <2> QED BY <1>0, <1>2, <2>2, <2>4, SavesFrom DEF ToggleChannelHalt
<1>3. ASSUME NEW c \in Name, EditChannel(c) PROVE Saves
  <2>1. Sound(e) BY <1>0, <1>3, HeldSound DEF EditChannel
  <2> QED BY <1>0, <1>3, <2>1, ChannelFormFilled, SavesFrom DEF EditChannel
<1>4. ASSUME NEW id \in RouteId, ToggleRouteHalt(id) PROVE Saves
  <2>1. Sound(e) BY <1>0, <1>4, HeldSound DEF ToggleRouteHalt
  <2>2. PICK rt \in e.routes : SaveFrom("entities", WithRouteHalted(e, id, ~rt.halted))
    BY <1>4 DEF ToggleRouteHalt, RouteRows
  <2>3. (~rt.halted) \in BOOLEAN OBVIOUS
  <2>4. Sound(WithRouteHalted(e, id, ~rt.halted)) BY <2>1, <2>3, RouteHalted
  <2> QED BY <1>0, <1>4, <2>2, <2>4, SavesFrom DEF ToggleRouteHalt
<1>5. ASSUME NEW n \in Name, AddAccount(n) \/ AddProfile(n) \/ AddDestination(n) \/ AddBot(n) PROVE Saves
  <2>1. Holds("entities") BY <1>5 DEF AddAccount, AddProfile, AddDestination, AddBot
  <2>2. Sound(e) BY <1>0, <2>1, HeldSound
  <2> QED BY <1>0, <1>5, <2>1, <2>2, Grown, SavesFrom DEF AddAccount, AddProfile, AddDestination, AddBot
<1>6. ASSUME NEW n \in Name, AddChannel(n) PROVE Saves
  <2>1. Sound(e) BY <1>0, <1>6, HeldSound DEF AddChannel
  <2>2. PICK o \in AddChannelOffers(e) : \E chat \in ResolvedChat :
          /\ CanAddChannel(e, n, chat, o.account, o.profile, o.destination, o.bot)
          /\ SaveFrom("entities", ApplyAddChannel(e, n, chat, o.account, o.profile, o.destination, o.bot))
    BY <1>6 DEF AddChannel
  <2>3. PICK chat \in ResolvedChat :
          /\ CanAddChannel(e, n, chat, o.account, o.profile, o.destination, o.bot)
          /\ SaveFrom("entities", ApplyAddChannel(e, n, chat, o.account, o.profile, o.destination, o.bot))
    BY <2>2
  <2>4. Sound(ApplyAddChannel(e, n, chat, o.account, o.profile, o.destination, o.bot))
    BY <2>1, <2>3, ChannelAdded DEF ResolvedChat
  <2> QED BY <1>0, <1>6, <2>3, <2>4, SavesFrom DEF AddChannel
<1>7. ASSUME NEW n \in Name,
             RemoveAccount(n) \/ RemoveProfile(n) \/ RemoveChannel(n) \/ RemoveDestination(n) \/ RemoveBot(n)
      PROVE  Saves
  <2>1. Holds("entities") BY <1>7 DEF RemoveAccount, RemoveProfile, RemoveChannel, RemoveDestination, RemoveBot
  <2>2. Sound(e) BY <1>0, <2>1, HeldSound
  <2>3. /\ Sound(WithAccountRemoved(e, n)) /\ Sound(WithProfileRemoved(e, n)) /\ Sound(WithChannelRemoved(e, n))
        /\ Sound(WithDestinationRemoved(e, n)) /\ Sound(WithBotRemoved(e, n))
    BY <2>2, AccountRemoved, ProfileRemoved, ChannelsRemoved, DestinationRemoved, BotRemoved DEF WithChannelRemoved
  <2> QED BY <1>0, <1>7, <2>1, <2>3, SavesFrom
          DEF RemoveAccount, RemoveProfile, RemoveChannel, RemoveDestination, RemoveBot
<1>8. CASE EditOther
  <2>1. Sound(e) BY <1>0, <1>8, HeldSound DEF EditOther
  <2> QED BY <1>0, <1>8, <2>1, SavesFrom DEF EditOther
<1>9. ASSUME NEW c \in Name, NEW d \in Name, CheckCell(c, d) PROVE Saves
  <2>1. Sound(r) BY <1>0, <1>9, HeldSound DEF CheckCell
  <2> QED BY <1>0, <1>9, <2>1, RouteAdded, SavesFrom DEF CheckCell
<1>10. ASSUME NEW c \in Name, NEW d \in Name, UncheckCell(c, d) PROVE Saves
  <2>1. Sound(r) BY <1>0, <1>10, HeldSound DEF UncheckCell
  <2> QED BY <1>0, <1>10, <2>1, RoutesRemoved, SavesFrom DEF UncheckCell, WithRouteRemoved
<1>11. ASSUME NEW c \in Name, NEW d \in Name, ResizeCell(c, d) PROVE Saves
  <2>1. Sound(r) BY <1>0, <1>11, HeldSound DEF ResizeCell
  <2> QED BY <1>0, <1>11, <2>1, SavesFrom DEF ResizeCell, WithRouteSizing
<1>12. ASSUME NEW c \in Name, NEW d \in Name, EditRules(c, d) PROVE Saves
  <2>1. Sound(r) BY <1>0, <1>12, HeldSound DEF EditRules
  <2>2. PICK q \in Cell(r, c, d) : \E f \in FallbackOffers(r, q) :
          SaveFrom("routes", WithRouteFailover(WithRouteRules(r, q.id), q.id, f))
    BY <1>12 DEF EditRules
  <2>3. PICK f \in FallbackOffers(r, q) : SaveFrom("routes", WithRouteFailover(r, q.id, f))
    BY <2>2 DEF WithRouteRules
  <2>4. f \in Name \union {Nowhere} BY <2>1, Fields DEF FallbackOffers, Sound
  <2>5. Sound(WithRouteFailover(r, q.id, f)) BY <2>1, <2>4, RouteFailsOver
  <2> QED BY <1>0, <1>12, <2>3, <2>5, SavesFrom DEF EditRules
<1>13. ASSUME NEW bot \in Name, NEW s \in Scope, AddBinding(bot, s) PROVE Saves
  <2>1. Sound(b) BY <1>0, <1>13, HeldSound DEF AddBinding
  <2>2. PICK t \in BindingOffers(b, s) :
          CanAddBinding(b, bot, s, t) /\ SaveFrom("bindings", WithBindingAdded(b, bot, s, t))
    BY <1>13 DEF AddBinding
  <2>3. t \in Target
    <3>1. Ids(b.channels) \subseteq Name /\ Ids(b.routes) \subseteq RouteId /\ b.destinations \subseteq Name
      BY <2>1, Fields DEF Sound, Ids, Channel, Route
    <3> QED BY <3>1 DEF BindingOffers, Scope, Target
  <2>4. Sound(WithBindingAdded(b, bot, s, t)) BY <2>1, <2>2, <2>3, BindingAdded
  <2> QED BY <1>0, <1>13, <2>2, <2>4, SavesFrom DEF AddBinding
<1>14. CASE RemoveBinding
  <2>1. Sound(b) BY <1>0, <1>14, HeldSound DEF RemoveBinding
  <2> QED BY <1>0, <1>14, <2>1, BindingRemoved, SavesFrom DEF RemoveBinding
<1> QED BY <1>1, <1>2, <1>3, <1>4, <1>5, <1>6, <1>7, <1>8, <1>9, <1>10, <1>11, <1>12, <1>13, <1>14 DEF Edit

------------------------------------------------------------------------------
(* The wizard and the Services tab.                                            *)

\* what a registration must respect for a complete install to stay one
LEMMA RegisterCovers ==
  ASSUME PanelInv, NEW new, Register(new),
         \A e \in new, i \in Spec0(covered) : ServiceName(i) = ServiceName(e) => i \in new
  PROVE  Spec0(covered) \subseteq installed'
BY DEF Register, PanelInv, CoveredInstalled

LEMMA SpecOneName ==
  ASSUME NEW cfg, NEW e \in Spec0(cfg), NEW f \in Spec0(cfg), ServiceName(e) = ServiceName(f)
  PROVE  e = f
BY SpecNamed DEF Spec0

\* the file and the views stay, registrations move
LEMMA RegisterKept ==
  ASSUME PanelInv, NEW new \in SUBSET ServiceEntry, Register(new), UNCHANGED <<file, copy, wizard, rows>>,
         covered' \in ConfigV2 \union {Absent}, Spec0(covered') \subseteq installed'
  PROVE  PanelInv'
<1>1. writes' \in 0..MaxWrites BY FileAssumption DEF Register, PanelInv, TypeOK
<1>2. installed' \subseteq ServiceEntry BY DEF Register, PanelInv, TypeOK, ServiceEntry
<1>3. TypeOK' BY <1>1, <1>2 DEF PanelInv, TypeOK, ServiceEntry
<1>4. FilesSound' /\ WizardHolds' BY DEF PanelInv, FilesSound, WizardHolds
<1> QED BY <1>3, <1>4 DEF PanelInv, CoveredInstalled

LEMMA ComposeKept ==
  ASSUME PanelInv, NEW n \in Name, Compose(n)
  PROVE  PanelInv'
<1> DEFINE cfg == IF file = Absent THEN Empty ELSE file
           new == ComposeWizardEntities(cfg, n)
<1>1. Sound(cfg) BY EmptySound DEF PanelInv, FilesSound
<1>2. /\ n \notin cfg.destinations /\ file' = new /\ writes < MaxWrites /\ writes' = writes + 1 /\ wizard' = n
      /\ UNCHANGED <<copy, rows, installed, covered>>
  BY DEF Compose, SaveV2, services
<1> HIDE DEF cfg
<1>3. Sound(new) /\ Composed(new, n) BY <1>1, <1>2, WizardComposed
<1> HIDE DEF new
<1>4. new \in ConfigV2 /\ new # Absent BY <1>3, FileAssumption DEF Sound
<1>5. writes' \in 0..MaxWrites BY <1>2, FileAssumption DEF PanelInv, TypeOK
<1>6. TypeOK' BY <1>2, <1>4, <1>5 DEF PanelInv, TypeOK
<1>7. FilesSound' BY <1>2, <1>3 DEF PanelInv, FilesSound
<1>8. WizardHolds' BY <1>2, <1>3, <1>4 DEF WizardHolds
<1> QED BY <1>2, <1>6, <1>7, <1>8 DEF PanelInv, CoveredInstalled

LEMMA WizardInstallKept ==
  ASSUME PanelInv, WizardInstall
  PROVE  PanelInv'
<1> DEFINE n == wizard
           trio == {Entry(r, n, n, Nowhere) : r \in {"api", "bot", "listener"}}
           names == {ServiceName(e) : e \in trio}
           mine == {e \in Spec0(file) : ServiceName(e) \in names}
           new == IF mine = {} THEN trio ELSE mine
<1>1. /\ n \in Name /\ Register(new) /\ covered' = (IF covered = file THEN covered ELSE Absent)
      /\ UNCHANGED <<file, copy, wizard, rows>>
  BY DEF WizardInstall
<1>2. trio \subseteq ServiceEntry BY <1>1 DEF Entry, ServiceEntry
<1>3. mine \subseteq ServiceEntry BY SpecOfFile DEF PanelInv
<1>4. ASSUME NEW e \in new, NEW i \in Spec0(file), ServiceName(i) = ServiceName(e)
      PROVE  i \in new
  <2>1. ServiceName(e) \in names OBVIOUS
  <2>2. i \in mine BY <1>4, <2>1
  <2> QED BY <2>2
<1>5. new \in SUBSET ServiceEntry BY <1>2, <1>3
<1> HIDE DEF new
<1>6. covered' \in ConfigV2 \union {Absent} BY <1>1 DEF PanelInv, TypeOK
<1>7. Spec0(covered') \subseteq installed'
  <2>1. CASE covered = file BY <1>1, <1>4, <2>1, RegisterCovers
  <2>2. CASE covered # file BY <1>1, <2>2 DEF Spec0
  <2> QED BY <2>1, <2>2
<1> QED BY <1>1, <1>5, <1>6, <1>7, RegisterKept

LEMMA FinishKept ==
  ASSUME PanelInv, NEW chat \in Chat \union {NoChat}, Finish(chat)
  PROVE  PanelInv'
<1> DEFINE new == FinalizeWizardChannel(file, wizard, chat)
<1>1. /\ file' = new /\ writes < MaxWrites /\ writes' = writes + 1 /\ wizard' = "closed"
      /\ copy' = [v \in View |-> new] /\ rows' = Spec0(new) /\ UNCHANGED <<installed, covered>>
      /\ wizard \in Name /\ file # Absent
  BY DEF Finish, SaveV2
<1>2. Sound(file) /\ Composed(file, wizard) BY <1>1 DEF PanelInv, FilesSound, WizardHolds
<1>3. Sound(new) BY <1>1, <1>2, WizardFinalized
<1> HIDE DEF new
<1>4. new \in ConfigV2 /\ new # Absent BY <1>3, FileAssumption DEF Sound
<1>5. Spec0(new) \subseteq ServiceEntry BY <1>3, <1>4, SpecTyped DEF Spec0
<1>6. writes' \in 0..MaxWrites BY <1>1, FileAssumption DEF PanelInv, TypeOK
<1>7. TypeOK' BY <1>1, <1>4, <1>5, <1>6 DEF PanelInv, TypeOK, ServiceEntry
<1>8. FilesSound' BY <1>1, <1>3 DEF FilesSound
<1>9. WizardHolds' BY <1>1, FileAssumption DEF WizardHolds
<1> QED BY <1>1, <1>7, <1>8, <1>9 DEF PanelInv, CoveredInstalled

LEMMA ServicesKept ==
  ASSUME PanelInv, Services
  PROVE  PanelInv'
<1>1. CASE RefreshRows
  <2>1. rows' = Spec0(file) /\ UNCHANGED <<file, copy, wizard, installed, covered, writes>>
    BY <1>1 DEF RefreshRows
  <2>2. rows' \subseteq ServiceEntry BY <2>1, SpecOfFile DEF PanelInv
  <2> QED BY <2>1, <2>2 DEF PanelInv, TypeOK, ServiceEntry, FilesSound, WizardHolds, CoveredInstalled
<1>2. CASE InstallAll
  <2>1. Register(Spec0(file)) /\ covered' = file /\ UNCHANGED <<file, copy, wizard, rows>>
    BY <1>2 DEF InstallAll
  <2>2. Spec0(file) \in SUBSET ServiceEntry BY SpecOfFile DEF PanelInv
  <2>3. Spec0(covered') \subseteq installed' BY <2>1 DEF Register
  <2>4. covered' \in ConfigV2 \union {Absent} BY <2>1 DEF PanelInv, TypeOK
  <2> QED BY <2>1, <2>2, <2>3, <2>4, RegisterKept
<1>3. CASE InstallRow
  <2>1. PICK e \in rows : Register({e}) /\ covered' = (IF e \in Spec0(covered) THEN covered ELSE Absent)
    BY <1>3 DEF InstallRow
  <2>2. {e} \in SUBSET ServiceEntry BY DEF PanelInv, TypeOK, ServiceEntry
  <2>3. Spec0(covered') \subseteq installed'
    <3>1. CASE e \in Spec0(covered) BY <2>1, <3>1, SpecOneName, RegisterCovers
    <3>2. CASE e \notin Spec0(covered) BY <2>1, <3>2 DEF Spec0
    <3> QED BY <3>1, <3>2
  <2>4. covered' \in ConfigV2 \union {Absent} BY <2>1 DEF PanelInv, TypeOK
  <2>5. UNCHANGED <<file, copy, wizard, rows>> BY <1>3 DEF InstallRow
  <2> QED BY <2>1, <2>2, <2>3, <2>4, <2>5, RegisterKept
<1>4. ASSUME NEW names, Unregister(names) PROVE PanelInv'
  <2>1. writes' \in 0..MaxWrites BY <1>4, FileAssumption DEF Unregister, PanelInv, TypeOK
  <2>2. installed' \subseteq installed /\ covered' = Absent /\ UNCHANGED <<file, copy, wizard, rows>>
    BY <1>4 DEF Unregister
  <2>3. TypeOK' BY <2>1, <2>2 DEF PanelInv, TypeOK
  <2>4. FilesSound' /\ WizardHolds' BY <2>2 DEF PanelInv, FilesSound, WizardHolds
  <2>5. CoveredInstalled' BY <2>2 DEF CoveredInstalled, Spec0
  <2> QED BY <2>3, <2>4, <2>5 DEF PanelInv
<1>5. CASE UninstallRow BY <1>4, <1>5 DEF UninstallRow
<1>6. CASE UninstallAll BY <1>4, <1>6 DEF UninstallAll
<1> QED BY <1>1, <1>2, <1>3, <1>5, <1>6 DEF Services

LEMMA StepInv == PanelInv /\ [Next]_vars => PanelInv'
<1> SUFFICES ASSUME PanelInv, [Next]_vars PROVE PanelInv' OBVIOUS
<1>1. CASE Edit BY <1>1, EditSaves, SavesKept
<1>2. ASSUME NEW v \in View, Refresh(v) PROVE PanelInv'
  <2>1. copy' = [copy EXCEPT ![v] = Loaded(v, file)] /\ UNCHANGED <<file, wizard, rows, installed, covered, writes>>
    BY <1>2 DEF Refresh, services
  <2>2. Loaded(v, file) # Absent => Sound(Loaded(v, file)) BY EmptySound DEF Loaded, PanelInv, FilesSound
  <2>3. Loaded(v, file) \in ConfigV2 \union {Absent} BY <2>2 DEF Sound
  <2>4. copy' \in [View -> ConfigV2 \union {Absent}] /\ \A u \in View : copy'[u] \in {copy[u], Loaded(v, file)}
    BY <2>1, <2>3 DEF PanelInv, TypeOK
  <2>5. FilesSound' BY <2>1, <2>2, <2>4 DEF FilesSound, PanelInv
  <2> QED BY <2>1, <2>4, <2>5 DEF PanelInv, TypeOK, WizardHolds, CoveredInstalled
<1>3. ASSUME NEW n \in Name, Compose(n) PROVE PanelInv' BY <1>3, ComposeKept
<1>4. CASE WizardInstall BY <1>4, WizardInstallKept
<1>5. ASSUME NEW chat \in Chat \union {NoChat}, Finish(chat) PROVE PanelInv' BY <1>5, FinishKept
<1>6. CASE Cancel
  BY <1>6, FileAssumption DEF Cancel, services, PanelInv, TypeOK, FilesSound, WizardHolds, CoveredInstalled
<1>7. CASE Services BY <1>7, ServicesKept
<1>8. CASE UNCHANGED vars
  BY <1>8 DEF vars, PanelInv, TypeOK, FilesSound, WizardHolds, CoveredInstalled
<1> QED BY <1>1, <1>2, <1>3, <1>4, <1>5, <1>6, <1>7, <1>8 DEF Next, Wizard

LEMMA Invariant == Spec => []PanelInv
<1> QED BY InitInv, StepInv, PTL DEF Spec

------------------------------------------------------------------------------
(* The theorems.                                                               *)

\* The file, what each view holds of it and what is registered keep their shape through every edit, the
\* wizard and the Services tab (v2_config_view.py, routes_matrix_view.py, bot_bindings_view.py,
\* setup_wizard.py, services_view.py).
THEOREM TypeCorrect == Spec => []TypeOK
BY Invariant, PTL DEF PanelInv

\* Whichever views save whatever old copies of the routing file, no route or binding of it ever dangles,
\* no cell of the matrix holds two routes, and the bindings tab warns of exactly the pairs of bots that
\* would both write about one destination (config_v2.py with_..._added/_removed, apply_add_channel).
THEOREM FileStaysSound == Spec => []FileSound
<1>1. PanelInv => FileSound BY SoundFile DEF PanelInv, FilesSound
<1> QED BY <1>1, Invariant, PTL

\* A complete Install ALL serves every route of the file it was made from and satisfies the start-up check,
\* and keeps doing so while that file stands, for any number of accounts, channels, routes and bots
\* (services_view._on_install_all, v2_service_spec.derive_v2_service_spec, stack_registry._stacks_from_v2).
THEOREM CompleteInstall == Spec => []InstallCovers
<1>1. PanelInv => InstallCovers
  <2>1. CASE covered = file /\ file # Absent
    <3>1. SUFFICES ASSUME PanelInv PROVE InstallCovers OBVIOUS
    <3>2. Sound(file) BY <2>1, <3>1 DEF PanelInv, FilesSound
    <3>3. Spec0(file) \subseteq installed BY <2>1, <3>1 DEF PanelInv, CoveredInstalled
    <3>4. DeriveServiceSpec(file) \subseteq installed BY <2>1, <3>3 DEF Spec0
    <3> QED BY <2>1, <3>2, <3>4, CompleteCovers
  <2>2. CASE ~(covered = file /\ file # Absent)
    BY <2>2 DEF InstallCovers, LegServed, StackStarts
  <2> QED BY <2>1, <2>2
<1> QED BY <1>1, Invariant, PTL

------------------------------------------------------------------------------
(* The dialogs that sign in (SignIn).  First, sequences as queues.              *)

LEMMA NoneQueued == ASSUME NEW S PROVE <<>> \in Seq(S) /\ Range(<<>>) = {} /\ Len(<<>>) = 0
BY DEF Range

LEMMA Queued ==
  ASSUME NEW S, NEW s \in Seq(S), NEW e \in S
  PROVE  /\ Append(s, e) \in Seq(S) /\ Range(Append(s, e)) = Range(s) \union {e}
         /\ Append(s, e) # <<>> /\ Len(Append(s, e)) = Len(s) + 1
         /\ Append(s, e)[Len(Append(s, e))] = e
<1>1. /\ Append(s, e) \in Seq(S) /\ Len(Append(s, e)) = Len(s) + 1 /\ Len(s) \in Nat
      /\ DOMAIN Append(s, e) = 1..Len(s) + 1 /\ DOMAIN s = 1..Len(s)
      /\ \A i \in 1..Len(s) : Append(s, e)[i] = s[i]
      /\ Append(s, e)[Len(s) + 1] = e
  OBVIOUS
<1>2. Range(Append(s, e)) = Range(s) \union {e} BY <1>1, Z3 DEF Range
<1> QED BY <1>1, <1>2

LEMMA Joined ==
  ASSUME NEW S, NEW s \in Seq(S), NEW t \in Seq(S)
  PROVE  /\ s \o t \in Seq(S) /\ Range(s \o t) = Range(s) \union Range(t)
         /\ Len(s \o t) = Len(s) + Len(t)
<1>1. /\ s \o t \in Seq(S) /\ Len(s \o t) = Len(s) + Len(t) /\ Len(s) \in Nat /\ Len(t) \in Nat
      /\ DOMAIN (s \o t) = 1..Len(s) + Len(t) /\ DOMAIN s = 1..Len(s) /\ DOMAIN t = 1..Len(t)
      /\ \A i \in 1..Len(s) : (s \o t)[i] = s[i]
      /\ \A i \in 1..Len(t) : (s \o t)[Len(s) + i] = t[i]
  OBVIOUS
<1>2. Range(s \o t) \subseteq Range(s) \union Range(t)
  <2> SUFFICES ASSUME NEW i \in 1..Len(s) + Len(t) PROVE (s \o t)[i] \in Range(s) \union Range(t)
    BY <1>1 DEF Range
  <2>1. CASE i <= Len(s) BY <2>1, <1>1 DEF Range
  <2>2. CASE i > Len(s)
    <3>1. i - Len(s) \in 1..Len(t) /\ Len(s) + (i - Len(s)) = i BY <2>2, <1>1
    <3> QED BY <3>1, <1>1 DEF Range
  <2> QED BY <2>1, <2>2, <1>1
<1>3. Range(s) \union Range(t) \subseteq Range(s \o t)
  <2>1. \A i \in 1..Len(s) : s[i] \in Range(s \o t) BY <1>1 DEF Range
  <2>2. \A i \in 1..Len(t) : t[i] \in Range(s \o t)
    <3> TAKE i \in 1..Len(t)
    <3>1. Len(s) + i \in 1..Len(s) + Len(t) BY <1>1
    <3> QED BY <3>1, <1>1 DEF Range
  <2> QED BY <2>1, <2>2, <1>1 DEF Range
<1> QED BY <1>1, <1>2, <1>3

LEMMA Dequeued ==
  ASSUME NEW S, NEW s \in Seq(S), s # <<>>
  PROVE  /\ Head(s) \in S /\ Head(s) \in Range(s)
         /\ Tail(s) \in Seq(S) /\ Range(Tail(s)) \subseteq Range(s)
         /\ Range(s) = Range(Tail(s)) \union {Head(s)}
         /\ Len(s) \in Nat \ {0} /\ Len(Tail(s)) = Len(s) - 1
         /\ Tail(s) # <<>> => Tail(s)[Len(Tail(s))] = s[Len(s)]
         /\ Tail(s) = <<>> => Head(s) = s[Len(s)]
<1>1. /\ Tail(s) \in Seq(S) /\ Len(s) \in Nat \ {0} /\ Len(Tail(s)) = Len(s) - 1
      /\ DOMAIN s = 1..Len(s) /\ DOMAIN Tail(s) = 1..Len(s) - 1 /\ Head(s) = s[1]
      /\ \A i \in 1..Len(s) - 1 : Tail(s)[i] = s[i + 1]
  OBVIOUS
<1>2. 1 \in DOMAIN s BY <1>1
<1>3. Range(Tail(s)) \subseteq Range(s)
  <2> SUFFICES ASSUME NEW i \in 1..Len(s) - 1 PROVE Tail(s)[i] \in Range(s)
    BY <1>1 DEF Range
  <2>1. i + 1 \in 1..Len(s) BY <1>1
  <2> QED BY <2>1, <1>1 DEF Range
<1>4. Range(s) \subseteq Range(Tail(s)) \union {Head(s)}
  <2> SUFFICES ASSUME NEW i \in 1..Len(s) PROVE s[i] \in Range(Tail(s)) \union {Head(s)}
    BY <1>1 DEF Range
  <2>1. CASE i = 1 BY <2>1, <1>1
  <2>2. CASE i # 1
    <3>1. i - 1 \in 1..Len(s) - 1 /\ (i - 1) + 1 = i BY <2>2, <1>1
    <3> QED BY <3>1, <1>1 DEF Range
  <2> QED BY <2>1, <2>2
<1>5. Tail(s) # <<>> => Tail(s)[Len(Tail(s))] = s[Len(s)]
  <2> HAVE Tail(s) # <<>>
  <2>1. Len(s) - 1 \in 1..Len(s) - 1 /\ (Len(s) - 1) + 1 = Len(s) BY <1>1
  <2> QED BY <2>1, <1>1
<1>6. Tail(s) = <<>> => Head(s) = s[Len(s)]
  <2> HAVE Tail(s) = <<>>
  <2>1. Len(Tail(s)) = 0 BY NoneQueued
  <2>2. Len(s) = 1 BY <2>1, <1>1
  <2> QED BY <2>2, <1>1
<1>7. Head(s) \in Range(s) /\ Head(s) \in S BY <1>1, <1>2 DEF Range
<1> QED BY <1>1, <1>3, <1>4, <1>5, <1>6, <1>7

LEMMA Removed ==
  ASSUME NEW S, NEW s \in Seq(S), NEW i \in DOMAIN s
  PROVE  /\ s[i] \in S /\ s[i] \in Range(s) /\ s # <<>>
         /\ RemoveAt(s, i) \in Seq(S) /\ Len(RemoveAt(s, i)) = Len(s) - 1 /\ Len(s) \in Nat \ {0}
         /\ Range(RemoveAt(s, i)) \subseteq Range(s)
         /\ Range(s) \subseteq Range(RemoveAt(s, i)) \union {s[i]}
<1> DEFINE a == SubSeq(s, 1, i - 1)
           b == SubSeq(s, i + 1, Len(s))
<1>1. i \in 1..Len(s) /\ Len(s) \in Nat \ {0} /\ DOMAIN s = 1..Len(s) /\ s[i] \in S /\ s # <<>> OBVIOUS
<1>2. /\ a \in Seq(S) /\ Len(a) = i - 1 /\ DOMAIN a = 1..i - 1
      /\ \A j \in 1..i - 1 : a[j] = s[j]
  BY <1>1
<1>3. /\ b \in Seq(S) /\ Len(b) = Len(s) - i /\ DOMAIN b = 1..Len(s) - i
      /\ \A j \in 1..Len(s) - i : b[j] = s[i + j]
  BY <1>1
<1>4. RemoveAt(s, i) = a \o b BY DEF RemoveAt
<1> HIDE DEF a, b
<1>5. a \o b \in Seq(S) /\ Range(a \o b) = Range(a) \union Range(b) /\ Len(a \o b) = Len(a) + Len(b)
  BY <1>2, <1>3, Joined
<1>6. Range(a) \subseteq Range(s)
  <2>1. \A j \in 1..i - 1 : j \in 1..Len(s) BY <1>1
  <2> QED BY <1>1, <1>2, <2>1 DEF Range
<1>7. Range(b) \subseteq Range(s)
  <2>1. \A j \in 1..Len(s) - i : i + j \in 1..Len(s) BY <1>1
  <2> QED BY <1>1, <1>3, <2>1 DEF Range
<1>8. Range(s) \subseteq Range(a) \union Range(b) \union {s[i]}
  <2> SUFFICES ASSUME NEW j \in 1..Len(s) PROVE s[j] \in Range(a) \union Range(b) \union {s[i]}
    BY <1>1 DEF Range
  <2>1. CASE j < i
    <3>1. j \in 1..i - 1 BY <2>1, <1>1
    <3> QED BY <3>1, <1>2 DEF Range
  <2>2. CASE j > i
    <3>1. j - i \in 1..Len(s) - i /\ i + (j - i) = j BY <2>2, <1>1
    <3> QED BY <3>1, <1>3 DEF Range
  <2>3. CASE j = i BY <2>3
  <2> QED BY <2>1, <2>2, <2>3, <1>1
<1>9. s[i] \in Range(s) BY <1>1 DEF Range
<1>10. Len(RemoveAt(s, i)) = Len(s) - 1 BY <1>4, <1>5, <1>2, <1>3, <1>1
<1> QED BY <1>1, <1>4, <1>5, <1>6, <1>7, <1>8, <1>9, <1>10

\* the coroutines that wait when their client is disconnected
LEMMA AllLost ==
  ASSUME NEW s \in Seq(Waiter)
  PROVE  /\ Lost(s) \in Seq(Waiter) /\ Len(Lost(s)) = Len(s) /\ DOMAIN Lost(s) = DOMAIN s
         /\ \A i \in DOMAIN s : /\ Lost(s)[i].op = s[i].op /\ Lost(s)[i].of = s[i].of /\ Lost(s)[i].hash = s[i].hash
                                /\ Lost(s)[i].stage # "asking"
                                /\ Lost(s)[i].stage = "disconnecting" <=> s[i].stage = "disconnecting"
<1>1. DOMAIN s = 1..Len(s) /\ Len(s) \in Nat /\ \A i \in DOMAIN s : s[i] \in Waiter OBVIOUS
<1>2. \A i \in DOMAIN s : Lost(s)[i] \in Waiter BY <1>1 DEF Lost, Waiter
<1>3. Lost(s) \in [1..Len(s) -> Waiter] BY <1>1, <1>2 DEF Lost
<1>4. Lost(s) \in Seq(Waiter) /\ Len(Lost(s)) = Len(s) BY <1>1, <1>3
<1> QED BY <1>1, <1>4 DEF Lost, Waiter

------------------------------------------------------------------------------
PageOf == [account |-> {"basics", "awaiting_code", "password", "done"},
           picker |-> {"opening", "picking"},
           wizard |-> {"credentials", "phone", "code", "dialogs", "services", "finish"}]

\* a client is there while anything waits for it; a connection has a key
Attached ==
    /\ client = None => running = <<>>
    /\ client # None => (client.up => client.keyed)

Keyed == client # None /\ client.keyed
Signed == Keyed /\ client.session = ui.phone

DialogShape ==
    /\ DialogTypeOK /\ files \in InitialFiles
    /\ Open => ui.page \in PageOf[kind]
    /\ kind # "wizard" => stored = None
    /\ Attached

Number == {None, ui.phone}

OneNumber ==
    /\ \A r \in Range(requests) : r.of \in Number /\ r.hash \in Number
    /\ \A t \in Range(running) : t.of \in Number /\ t.hash \in Number
    /\ \A s \in Range(inbox) : s.of \in Number
    /\ client # None => client.session \in Number /\ client.twofa \in Number
    /\ ui.hash \in Number /\ ui.blob \in Number

FirstCall ==
    /\ \A r \in Range(requests) : r.op = "connect" \/ (r.op = "send_code" /\ Keyed)
    /\ \A t \in Range(running) : t.op = "connect" \/ (t.op = "send_code" /\ t.stage # "disconnecting" /\ Keyed)
    /\ \A s \in Range(inbox) : s.sig = "error" \/ (s.sig \in {"unauthorized", "code_sent"} /\ Keyed)

LaterCalls ==
    /\ \A r \in Range(requests) : r.op # "connect" /\ (r.op = "snapshot" => Signed)
    /\ \A t \in Range(running) : t.op # "connect" /\ t.stage # "disconnecting"
    /\ \A s \in Range(inbox) : /\ s.sig # "authorized"
                               /\ s.sig = "signed_in" => Signed
                               /\ s.sig = "snapshot" => s.of = ui.phone

AccountHeld ==
    /\ source = [blob |-> None, db |-> FALSE]
    /\ OneNumber
    /\ ui.page = "basics" =>
         /\ Len(requests) + Len(running) + Len(inbox) = IF ui.locked THEN 1 ELSE 0
         /\ FirstCall
         /\ client # None => client.session = None /\ client.twofa = None
         /\ ui.hash = None /\ ui.blob = None
    /\ ui.page # "basics" => ui.locked /\ Keyed /\ LaterCalls

Reconnects == \/ \E r \in Range(requests) : r.op = "connect"
              \/ \E t \in Range(running) : t.stage = "disconnecting"

AllHave == \A a \in Account : None \notin LoadAccountCredentials(a)

Settling ==
    /\ source.blob \in LoadAccountCredentials(ui.account)
    /\ client # None /\ client.session # source.blob => Reconnects
    /\ requests = <<>> /\ running = <<>> =>
         IF inbox = <<>> THEN ui.told \/ ui.list = source.blob
         ELSE inbox[Len(inbox)].sig = "dialogs" => inbox[Len(inbox)].of = source.blob

PickerHeld ==
    /\ source.db = FALSE
    /\ \A r \in Range(requests) : r.op \in {"connect", "dialogs"}
    /\ \A t \in Range(running) : t.op \in {"connect", "dialogs"}
    /\ \A s \in Range(inbox) : s.sig \in {"authorized", "unauthorized", "dialogs", "error"}
    /\ ui.chat = ui.list
    /\ ui.page = "opening" => Quiet /\ client = None
    /\ ui.page = "picking" /\ AllHave => Settling

Own == {None} \union ({stored} \cap Phone)

WizardHeld ==
    /\ source.blob = None
    /\ ~source.db => ui.page = "credentials" /\ Quiet /\ client = None
    /\ ui.page \in {"services", "finish"} => ui.chat \in Phone
    /\ ~unwritten =>
         /\ client # None => client.session = stored
         /\ {ui.list, ui.all, ui.chat, ui.me} \subseteq Own
         /\ \A s \in Range(inbox) : s.sig \in {"me", "dialogs"} => s.of \in Own

DialogInv ==
    /\ DialogShape
    /\ kind = "account" /\ Open => AccountHeld
    /\ kind = "picker" /\ Open => PickerHeld
    /\ kind = "wizard" /\ Open => WizardHeld
    /\ SessionOfAccount /\ FinishedAsOne

------------------------------------------------------------------------------
(* What the worker keeps, whoever calls it.                                     *)

WorkerOK == SessionTypeOK /\ Attached

LEMMA Single == ASSUME NEW S, NEW e \in S PROVE <<e>> \in Seq(S) /\ Range(<<e>>) = {e} /\ Len(<<e>>) = 1
<1>1. <<e>> \in Seq(S) /\ DOMAIN <<e>> = {1} /\ <<e>>[1] = e OBVIOUS
<1> QED BY <1>1 DEF Range

LEMMA Calls ==
  /\ \A op \in Op : \A of, hash \in PhoneOrNone :
       /\ Request(op, of, hash) \in Coroutine
       /\ <<Request(op, of, hash)>> \in Seq(Coroutine) /\ Range(<<Request(op, of, hash)>>) = {Request(op, of, hash)}
       /\ Len(<<Request(op, of, hash)>>) = 1
  /\ \A op \in Op : Call(op) \in Coroutine /\ <<Call(op)>> \in Seq(Coroutine) /\ Range(<<Call(op)>>) = {Call(op)}
                     /\ Len(<<Call(op)>>) = 1
<1>1. \A op \in Op : \A of, hash \in PhoneOrNone : Request(op, of, hash) \in Coroutine BY DEF Request, Coroutine
<1>2. \A op \in Op : Call(op) \in Coroutine BY <1>1 DEF Call, PhoneOrNone
<1> QED BY <1>1, <1>2, Single

LEMMA Called ==
  ASSUME WorkerOK, NEW calls \in Seq(Coroutine), Submit(calls)
  PROVE  /\ requests' \in Seq(Coroutine) /\ Range(requests') = Range(requests) \union Range(calls)
         /\ Len(requests') = Len(requests) + Len(calls)
<1>1. requests \in Seq(Coroutine) /\ requests' = requests \o calls BY DEF WorkerOK, SessionTypeOK, Submit
<1> QED BY <1>1, Joined

LEMMA Connecting ==
  ASSUME WorkerOK, NEW blob \in Session, NEW db \in BOOLEAN, Connect(blob, db)
  PROVE  /\ requests' \in Seq(Coroutine) /\ Range(requests') = Range(requests) \union {Call("connect")}
         /\ Len(requests') = Len(requests) + 1 /\ requests' # <<>>
         /\ source' = [blob |-> blob, db |-> db] /\ source' \in [blob: Session, db: BOOLEAN]
<1>1. Submit(<<Call("connect")>>) BY DEF Connect
<1>2. "connect" \in Op BY DEF Op
<1>3. /\ requests' \in Seq(Coroutine) /\ Range(requests') = Range(requests) \union {Call("connect")}
      /\ Len(requests') = Len(requests) + 1
  BY <1>1, <1>2, Calls, Called
<1>4. Len(requests) \in Nat BY DEF WorkerOK, SessionTypeOK
<1>5. requests' # <<>> BY <1>3, <1>4, NoneQueued
<1> QED BY <1>3, <1>5 DEF Connect

LEMMA NewClients ==
  ASSUME WorkerOK
  PROVE  /\ NewClient \in Client /\ ~NewClient.up /\ NewClient.twofa = None
         /\ NewClient.session = IF source.blob # None THEN source.blob ELSE IF source.db THEN stored ELSE None
BY DEF NewClient, Client, WorkerOK, SessionTypeOK, Session, PhoneOrNone

\* what Start does, by the coroutine that starts
LEMMA Started ==
  ASSUME WorkerOK, Start
  PROVE  /\ WorkerOK' /\ UNCHANGED <<source, stored, unwritten>>
         /\ requests # <<>> /\ requests' = Tail(requests)
         /\ \/ /\ Head(requests).op = "connect" /\ client = None /\ client' = NewClient
               /\ running' = Append(running, Task(Head(requests), "asking")) /\ inbox' = inbox
            \/ /\ Head(requests).op = "connect" /\ client # None /\ client' = [client EXCEPT !.up = FALSE]
               /\ running' = Append(Lost(running), Task(Head(requests), "disconnecting")) /\ inbox' = inbox
            \/ /\ Head(requests).op = "snapshot" /\ client' = client /\ running' = running
               /\ Emit("snapshot", IF client # None /\ client.keyed THEN client.session ELSE None)
            \/ /\ Head(requests).op \notin {"connect", "snapshot"} /\ client = None
               /\ client' = client /\ running' = running /\ Emit("error", None)
            \/ /\ Head(requests).op \notin {"connect", "snapshot"} /\ client # None
               /\ client' = client /\ inbox' = inbox
               /\ \E stage \in {"asking", "lost"} : running' = Append(running, Task(Head(requests), stage))
<1> DEFINE r == Head(requests)
<1>1. requests # <<>> /\ requests' = Tail(requests) /\ UNCHANGED <<source, stored, unwritten>> BY DEF Start
<1>2. r \in Coroutine /\ requests' \in Seq(Coroutine) BY <1>1, Dequeued DEF WorkerOK, SessionTypeOK
<1>3. \A stage \in {"asking", "disconnecting", "lost"} : Task(r, stage) \in Waiter
  BY <1>2 DEF Task, Waiter, Coroutine
<1> HIDE DEF r
<1>4. CASE r.op = "connect" /\ client = None
  <2>1. client' = NewClient /\ running' = Append(running, Task(r, "asking")) /\ inbox' = inbox
    BY <1>4 DEF Start, r
  <2>2. running' \in Seq(Waiter) BY <2>1, <1>3, Queued DEF WorkerOK, SessionTypeOK
  <2>3. client' \in Client /\ client' # None /\ ~client'.up
    BY <2>1, NewClients, StaleIsNobody
  <2> QED BY <2>1, <2>2, <2>3, <1>1, <1>2, <1>4 DEF WorkerOK, SessionTypeOK, Attached, r
<1>5. CASE r.op = "connect" /\ client # None
  <2>1. /\ client' = [client EXCEPT !.up = FALSE] /\ inbox' = inbox
        /\ running' = Append(Lost(running), Task(r, "disconnecting"))
    BY <1>5 DEF Start, r
  <2>2. running' \in Seq(Waiter) BY <2>1, <1>3, Queued, AllLost DEF WorkerOK, SessionTypeOK
  <2>3. client' \in Client /\ ~client'.up BY <2>1, <1>5 DEF Client, WorkerOK, SessionTypeOK
  <2>4. client' # None BY <2>3, StaleIsNobody
  <2> QED BY <2>1, <2>2, <2>3, <2>4, <1>1, <1>2, <1>5 DEF WorkerOK, SessionTypeOK, Attached, r
<1>6. CASE r.op = "snapshot"
  <2> DEFINE of == IF client # None /\ client.keyed THEN client.session ELSE None
  <2>1. client' = client /\ running' = running /\ Emit("snapshot", of) BY <1>6 DEF Start, r
  <2>2. of \in Session BY DEF WorkerOK, SessionTypeOK, Client, Session
  <2>3. Signal("snapshot", of) \in Answered BY <2>2 DEF Signal, Answered
  <2>4. inbox' \in Seq(Answered) BY <2>1, <2>3, Queued DEF Emit, WorkerOK, SessionTypeOK
  <2> QED BY <2>1, <2>4, <1>1, <1>2, <1>6 DEF WorkerOK, SessionTypeOK, Attached, r
<1>7. CASE r.op \notin {"connect", "snapshot"} /\ client = None
  <2>1. client' = client /\ running' = running /\ Emit("error", None) BY <1>7 DEF Start, r
  <2>2. Signal("error", None) \in Answered BY DEF Signal, Answered, Sig, PhoneOrNone
  <2>3. inbox' \in Seq(Answered) BY <2>1, <2>2, Queued DEF Emit, WorkerOK, SessionTypeOK
  <2> QED BY <2>1, <2>3, <1>1, <1>2, <1>7 DEF WorkerOK, SessionTypeOK, Attached, r
<1>8. CASE r.op \notin {"connect", "snapshot"} /\ client # None
  <2>1. client' = client /\ inbox' = inbox /\ \E stage \in {"asking", "lost"} : running' = Append(running, Task(r, stage))
    BY <1>8 DEF Start, r
  <2>2. running' \in Seq(Waiter) BY <2>1, <1>3, Queued DEF WorkerOK, SessionTypeOK
  <2> QED BY <2>1, <2>2, <1>1, <1>2, <1>8 DEF WorkerOK, SessionTypeOK, Attached, r
<1> QED BY <1>4, <1>5, <1>6, <1>7, <1>8

\* the client is replaced: only stages change
LEMMA Replaced ==
  ASSUME WorkerOK, NEW i \in DOMAIN running, Replace(i)
  PROVE  /\ WorkerOK' /\ UNCHANGED <<source, stored, unwritten, requests, inbox>> /\ client' = NewClient
         /\ client # None /\ client' # None
         /\ Len(running') = Len(running)
         /\ \A t \in Range(running') : \E u \in Range(running) :
              t.op = u.op /\ t.of = u.of /\ t.hash = u.hash /\ (t.stage = "disconnecting" => u.stage = "disconnecting")
         /\ running[i] \in Range(running) /\ running[i].stage = "disconnecting" /\ running' # <<>>
<1>1. running \in Seq(Waiter) BY DEF WorkerOK, SessionTypeOK
<1> DEFINE lost == Lost(running)
<1>2. /\ lost \in Seq(Waiter) /\ Len(lost) = Len(running) /\ DOMAIN lost = DOMAIN running
      /\ \A j \in DOMAIN running : /\ lost[j].op = running[j].op /\ lost[j].of = running[j].of
                                   /\ lost[j].hash = running[j].hash
                                   /\ lost[j].stage = "disconnecting" <=> running[j].stage = "disconnecting"
  BY <1>1, AllLost
<1>3. running' = [lost EXCEPT ![i].stage = "asking"] BY DEF Replace
<1> HIDE DEF lost
<1>4. DOMAIN running = 1..Len(running) /\ Len(running) \in Nat \ {0} /\ \A j \in DOMAIN lost : lost[j] \in Waiter
  BY <1>1, <1>2
<1>5. [lost[i] EXCEPT !.stage = "asking"] \in Waiter BY <1>2, <1>4 DEF Waiter
<1>6. \A j \in DOMAIN running :
        running'[j] = IF j = i THEN [lost[i] EXCEPT !.stage = "asking"] ELSE lost[j]
  BY <1>2, <1>3
<1>7. DOMAIN running' = DOMAIN running BY <1>2, <1>3
<1>8. running' \in [1..Len(running) -> Waiter] BY <1>2, <1>3, <1>4, <1>5, <1>6
<1>9. running' \in Seq(Waiter) /\ Len(running') = Len(running) /\ running' # <<>> BY <1>8, <1>4
<1>10. \A j \in DOMAIN running : /\ running'[j].op = running[j].op /\ running'[j].of = running[j].of
                                 /\ running'[j].hash = running[j].hash
                                 /\ running'[j].stage = "disconnecting" => running[j].stage = "disconnecting"
  BY <1>2, <1>4, <1>6 DEF Waiter
<1>11. \A t \in Range(running') : \E u \in Range(running) :
         t.op = u.op /\ t.of = u.of /\ t.hash = u.hash /\ (t.stage = "disconnecting" => u.stage = "disconnecting")
  <2> SUFFICES ASSUME NEW j \in DOMAIN running
               PROVE  \E u \in Range(running) :
                        /\ running'[j].op = u.op /\ running'[j].of = u.of /\ running'[j].hash = u.hash
                        /\ running'[j].stage = "disconnecting" => u.stage = "disconnecting"
    BY <1>7 DEF Range
  <2>1. running[j] \in Range(running) BY DEF Range
  <2> WITNESS running[j] \in Range(running)
  <2> QED BY <1>10
<1>12. client' = NewClient /\ UNCHANGED <<source, stored, unwritten, requests, inbox>> /\ running[i].stage = "disconnecting"
  BY DEF Replace
<1>13. client' \in Client /\ client' # None /\ ~client'.up BY <1>12, NewClients, StaleIsNobody
<1>14. client # None BY <1>4, NoneQueued DEF WorkerOK, Attached
<1>15. running[i] \in Range(running) BY DEF Range
<1> QED BY <1>9, <1>11, <1>12, <1>13, <1>14, <1>15 DEF WorkerOK, SessionTypeOK, Attached

\* the signal a coroutine ends with, and what it does before
Outcome(w, s) ==
    \/ /\ s = Signal("error", None) /\ UNCHANGED <<stored, unwritten, client>>
    \/ /\ w.op = "connect" /\ s = Signal(Welcome, None) /\ UNCHANGED <<stored, unwritten>>
       /\ client' \in Client /\ client'.keyed /\ client'.session = client.session /\ client'.twofa = client.twofa
    \/ /\ w.op = "send_code" /\ s = Signal("code_sent", w.of) /\ UNCHANGED <<stored, unwritten, client>>
    \/ /\ w.op = "sign_in" /\ s = Signal("password_required", None) /\ UNCHANGED <<stored, unwritten>>
       /\ client' = [client EXCEPT !.twofa = w.of]
    \/ /\ w.op \in {"sign_in", "password"} /\ s = Signal("signed_in", None)
       /\ \E as \in Phone :
            /\ client.session \in Phone => as = client.session
            /\ as \in {client.session, w.of, client.twofa}
            /\ client' = [client EXCEPT !.session = as, !.twofa = None]
            /\ IF source.db THEN PersistSessionBlob(as) ELSE UNCHANGED <<stored, unwritten>>
    \/ /\ w.op \in {"me", "dialogs"} /\ s = Signal(w.op, client.session) /\ client.session \in Phone
       /\ UNCHANGED <<stored, unwritten, client>>

LEMMA Finished ==
  ASSUME WorkerOK, NEW i \in DOMAIN running, Answer(i), ~Replace(i)
  PROVE  /\ WorkerOK' /\ UNCHANGED <<source, requests>> /\ client # None /\ client' # None
         /\ running[i] \in Range(running) /\ running' = RemoveAt(running, i) /\ running[i].stage # "disconnecting"
         /\ \E s \in Answered : Outcome(running[i], s) /\ inbox' = Append(inbox, s)
<1> DEFINE w == running[i]
<1>1. /\ running \in Seq(Waiter) /\ inbox \in Seq(Answered) /\ w \in Waiter /\ running # <<>>
      /\ client \in Client /\ client # None /\ stored \in Session /\ unwritten \in BOOLEAN
      /\ w \in Range(running)
  BY Removed DEF WorkerOK, SessionTypeOK, Attached
<1>2. \A sig \in Sig \ {"snapshot"} : \A of \in PhoneOrNone : Signal(sig, of) \in Answered BY DEF Signal, Answered
<1>3. Welcome \in Sig \ {"snapshot"} BY DEF Welcome, Sig
<1> DEFINE done == /\ Ended(i) /\ w.stage # "disconnecting" /\ client' \in Client /\ (client'.up => client'.keyed)
                   /\ stored' \in Session /\ unwritten' \in BOOLEAN
                   /\ \E s \in Answered : Outcome(w, s) /\ inbox' = Append(inbox, s)
<1>4. done
  <2>1. CASE w.stage # "disconnecting" /\ Fail(i)
    <3>1. Ended(i) /\ Emit("error", None) /\ UNCHANGED <<stored, unwritten, client>> BY <2>1 DEF Fail
    <3>2. Signal("error", None) \in Answered BY <1>2 DEF Sig, PhoneOrNone
    <3> QED BY <3>1, <3>2, <2>1, <1>1 DEF Emit, Outcome, WorkerOK, Attached
  <2>2. CASE DoConnect(i)
    <3>1. /\ Ended(i) /\ Emit(Welcome, None) /\ UNCHANGED <<stored, unwritten>> /\ w.op = "connect"
          /\ w.stage # "disconnecting"
          /\ client' \in Client /\ client'.keyed /\ client'.session = client.session /\ client'.twofa = client.twofa
      BY <2>2, <1>1 DEF DoConnect, Client, WorkerOK, Attached
    <3>2. Signal(Welcome, None) \in Answered BY <1>2, <1>3 DEF PhoneOrNone
    <3> QED BY <3>1, <3>2, <1>1 DEF Emit, Outcome
  <2>3. CASE DoSendCode(i)
    <3>1. Ended(i) /\ Emit("code_sent", w.of) /\ UNCHANGED <<stored, unwritten, client>> /\ w.op = "send_code"
          /\ w.stage # "disconnecting"
      BY <2>3 DEF DoSendCode, Asks
    <3>2. Signal("code_sent", w.of) \in Answered BY <1>1, <1>2 DEF Sig, Waiter
    <3> QED BY <3>1, <3>2, <1>1 DEF Emit, Outcome, WorkerOK, Attached
  <2>4. ASSUME NEW as \in Phone, SignedIn(i, as), w.op \in {"sign_in", "password"}, w.stage = "asking",
               client.session \in Phone => as = client.session, as \in {client.session, w.of, client.twofa}
        PROVE  done
    <3>1. /\ client' = [client EXCEPT !.session = as, !.twofa = None] /\ Emit("signed_in", None) /\ Ended(i)
          /\ IF source.db THEN PersistSessionBlob(as) ELSE UNCHANGED <<stored, unwritten>>
      BY <2>4 DEF SignedIn
    <3>2. client' \in Client /\ (client'.up => client'.keyed)
      BY <3>1, <1>1 DEF Client, Session, PhoneOrNone, WorkerOK, Attached
    <3>3. stored' \in Session /\ unwritten' \in BOOLEAN BY <3>1, <1>1 DEF PersistSessionBlob, Session
    <3>4. Signal("signed_in", None) \in Answered BY <1>2 DEF Sig, PhoneOrNone
    <3>5. Outcome(w, Signal("signed_in", None)) BY <3>1, <2>4 DEF Outcome
    <3> QED BY <3>1, <3>2, <3>3, <3>4, <3>5, <2>4 DEF Emit
  <2>5. CASE DoSignIn(i)
    <3>1. w.op = "sign_in" /\ w.stage = "asking" BY <2>5 DEF DoSignIn, Asks
    <3>2. CASE client.session \in Phone /\ SignedIn(i, client.session) BY <3>1, <3>2, <2>4
    <3>3. CASE client.session \notin Phone /\ w.of # None /\ SignedIn(i, w.of)
      <4>1. w.of \in Phone BY <3>3, <1>1 DEF Waiter, PhoneOrNone
      <4> QED BY <4>1, <3>1, <3>3, <2>4
    <3>4. CASE /\ client' = [client EXCEPT !.twofa = w.of] /\ Emit("password_required", None)
               /\ Ended(i) /\ UNCHANGED <<stored, unwritten>>
      <4>1. client' \in Client /\ (client'.up => client'.keyed)
        BY <3>4, <1>1 DEF Client, Waiter, WorkerOK, Attached
      <4>2. Signal("password_required", None) \in Answered BY <1>2 DEF Sig, PhoneOrNone
      <4>3. Outcome(w, Signal("password_required", None)) BY <3>1, <3>4 DEF Outcome
      <4> QED BY <4>1, <4>2, <4>3, <3>1, <3>4, <1>1 DEF Emit
    <3> QED BY <2>5, <3>2, <3>3, <3>4 DEF DoSignIn
  <2>6. CASE DoSignInWithPassword(i)
    <3>1. w.op = "password" /\ w.stage = "asking" BY <2>6 DEF DoSignInWithPassword, Asks
    <3>2. CASE client.session \in Phone /\ SignedIn(i, client.session) BY <3>1, <3>2, <2>4
    <3>3. CASE client.session \notin Phone /\ client.twofa # None /\ SignedIn(i, client.twofa)
      <4>1. client.twofa \in Phone BY <3>3, <1>1 DEF Client, PhoneOrNone
      <4> QED BY <4>1, <3>1, <3>3, <2>4
    <3> QED BY <2>6, <3>2, <3>3 DEF DoSignInWithPassword
  <2>7. CASE DoFetchMe(i) \/ DoListDialogs(i)
    <3>1. /\ w.op \in {"me", "dialogs"} /\ w.stage # "disconnecting" /\ client.session \in Phone
          /\ Emit(w.op, client.session) /\ Ended(i) /\ UNCHANGED <<stored, unwritten, client>>
      BY <2>7 DEF DoFetchMe, DoListDialogs, Asks
    <3>2. Signal(w.op, client.session) \in Answered BY <3>1, <1>2 DEF Sig, PhoneOrNone
    <3>3. Outcome(w, Signal(w.op, client.session)) BY <3>1 DEF Outcome
    <3> QED BY <3>1, <3>2, <3>3, <1>1 DEF Emit, WorkerOK, Attached
  <2> QED BY <2>1, <2>2, <2>3, <2>5, <2>6, <2>7 DEF Answer
<1>5. running' \in Seq(Waiter) /\ running' = RemoveAt(running, i) BY <1>1, <1>4, Removed DEF Ended
<1>6. inbox' \in Seq(Answered) BY <1>1, <1>4, Queued
<1>7. UNCHANGED <<source, requests>> BY <1>4 DEF Ended
<1>8. client' # None BY <1>4, StaleIsNobody
<1> QED BY <1>1, <1>4, <1>5, <1>6, <1>7, <1>8 DEF WorkerOK, SessionTypeOK, Attached

------------------------------------------------------------------------------
(* Add Account.                                                                *)

\* a signal taken from the queue
LEMMA Taken ==
  ASSUME WorkerOK, NEW sig \in Sig, Reply(sig)
  PROVE  /\ Head(inbox) \in Answered /\ Head(inbox) \in Range(inbox) /\ Head(inbox).sig = sig /\ Of = Head(inbox).of
         /\ inbox' \in Seq(Answered) /\ Range(inbox') \subseteq Range(inbox) /\ clicks' = clicks
         /\ Len(inbox) \in Nat \ {0} /\ Len(inbox') = Len(inbox) - 1
         /\ Of \in Session /\ (sig # "snapshot" => Of \in PhoneOrNone)
<1>1. inbox \in Seq(Answered) /\ inbox # <<>> /\ Head(inbox).sig = sig /\ inbox' = Tail(inbox) /\ clicks' = clicks
  BY DEF WorkerOK, SessionTypeOK, Reply
<1>2. Head(inbox) \in Answered BY <1>1, Dequeued
<1>3. Of \in Session /\ (sig # "snapshot" => Of \in PhoneOrNone)
  BY <1>1, <1>2 DEF Of, Answered, Session, PhoneOrNone
<1> QED BY <1>1, <1>2, <1>3, Dequeued DEF Of

AccountGoal ==
    /\ DialogShape' /\ kind' = "account"
    /\ Open' => AccountHeld'
    /\ SessionOfAccount'

LEMMA AccountWorks ==
  ASSUME DialogInv, kind = "account", Worker
  PROVE  AccountGoal
<1>1. Open /\ Work /\ UNCHANGED <<kind, files, ui, saved, clicks>> BY DEF Worker
<1>2. DialogShape /\ AccountHeld /\ SessionOfAccount /\ WorkerOK BY <1>1 DEF DialogInv, DialogShape, DialogTypeOK, WorkerOK
<1>3. /\ requests \in Seq(Coroutine) /\ running \in Seq(Waiter) /\ inbox \in Seq(Answered)
      /\ Len(requests) \in Nat /\ Len(running) \in Nat /\ Len(inbox) \in Nat /\ ui.phone \in Phone
      /\ stored = None /\ client \in Client \union {None}
      /\ NewClient.session = None /\ NewClient.twofa = None /\ NewClient \in Client
  BY <1>2, NewClients DEF WorkerOK, SessionTypeOK, AccountHeld, DialogShape, DialogTypeOK, UI
<1> SUFFICES WorkerOK' /\ UNCHANGED <<source, stored>> /\ AccountHeld'
  BY <1>1, <1>2 DEF AccountGoal, DialogShape, DialogTypeOK, Open, SessionOfAccount, WorkerOK
<1>4. CASE Start
  <2> DEFINE r == Head(requests)
  <2>1. WorkerOK' /\ UNCHANGED <<source, stored, unwritten>> /\ requests # <<>> /\ requests' = Tail(requests)
    BY <1>2, <1>4, Started
  <2>2. /\ r \in Coroutine /\ r \in Range(requests) /\ Range(requests') \subseteq Range(requests)
        /\ Len(requests) >= 1 /\ Len(requests') = Len(requests) - 1
    BY <1>3, <2>1, Dequeued
  <2>3. \A stage \in {"asking", "disconnecting", "lost"} :
          Task(r, stage) \in Waiter /\ Task(r, stage).op = r.op /\ Task(r, stage).of = r.of /\ Task(r, stage).hash = r.hash
            /\ Task(r, stage).stage = stage
    BY <2>2 DEF Task, Waiter, Coroutine
  <2>4. CASE r.op = "connect" /\ client = None
    <3>1. client' = NewClient /\ running' = Append(running, Task(r, "asking")) /\ inbox' = inbox
      BY <2>4, <1>2, <1>4, Started
    <3>2. Range(running') = Range(running) \union {Task(r, "asking")} /\ Len(running') = Len(running) + 1
      BY <3>1, <2>3, <1>3, Queued
    <3>3. ui.page = "basics" BY <2>4, <2>2, <1>2 DEF AccountHeld, LaterCalls
    <3>4. OneNumber' BY <3>1, <3>2, <2>2, <2>3, <1>1, <1>2, <1>3 DEF AccountHeld, OneNumber, Number
    <3>5. FirstCall' /\ Len(requests') + Len(running') + Len(inbox') = IF ui.locked THEN 1 ELSE 0
      BY <3>1, <3>2, <3>3, <2>2, <2>3, <2>4, <1>2, <1>3 DEF AccountHeld, FirstCall, Keyed
    <3> QED BY <3>1, <3>3, <3>4, <3>5, <2>1, <1>1, <1>2, <1>3 DEF AccountHeld
  <2>5. CASE r.op = "connect" /\ client # None
    <3>1. /\ client' = [client EXCEPT !.up = FALSE] /\ inbox' = inbox
          /\ running' = Append(Lost(running), Task(r, "disconnecting"))
      BY <2>5, <1>2, <1>4, Started
    <3>2. ui.page = "basics" BY <2>5, <2>2, <1>2 DEF AccountHeld, LaterCalls
    <3>3. Len(running) = 0 BY <3>2, <2>2, <1>2, <1>3 DEF AccountHeld
    <3>4. running = <<>> BY <3>3, <1>3
    <3>5. Lost(running) \in Seq(Waiter) /\ Range(Lost(running)) = {}  /\ Len(Lost(running)) = 0
      <4>1. Lost(running) \in Seq(Waiter) /\ Len(Lost(running)) = 0 BY <3>3, <1>3, AllLost
      <4>2. Lost(running) = <<>> BY <4>1
      <4> QED BY <4>1, <4>2, NoneQueued
    <3>6. (\A t \in Range(running') : t = Task(r, "disconnecting")) /\ Len(running') = 1
      <4>1. Task(r, "disconnecting") \in Waiter BY <2>3
      <4>2. \A s \in Seq(Waiter) : \A e \in Waiter :
              Range(Append(s, e)) = Range(s) \union {e} /\ Len(Append(s, e)) = Len(s) + 1
        BY Queued
      <4>3. running' = Append(Lost(running), Task(r, "disconnecting")) BY <3>1
      <4>4. Range(running') = Range(Lost(running)) \union {Task(r, "disconnecting")} BY <4>1, <4>2, <4>3, <3>5
      <4>5. Len(running') = Len(Lost(running)) + 1 BY <4>1, <4>2, <4>3, <3>5
      <4> QED BY <4>4, <4>5, <3>5
    <3>7. client'.session = client.session /\ client'.twofa = client.twofa /\ client'.keyed = client.keyed /\ client' # None
      BY <3>1, <2>5, <1>3, StaleIsNobody DEF Client
    <3>8. OneNumber' BY <3>1, <3>6, <3>7, <2>2, <2>3, <2>5, <1>1, <1>2 DEF AccountHeld, OneNumber, Number
    <3>9. FirstCall' /\ Len(requests') + Len(running') + Len(inbox') = IF ui.locked THEN 1 ELSE 0
      BY <3>1, <3>2, <3>3, <3>6, <3>7, <2>2, <2>3, <2>5, <1>2, <1>3 DEF AccountHeld, FirstCall, Keyed
    <3> QED BY <3>1, <3>2, <3>7, <3>8, <3>9, <2>1, <2>5, <1>1, <1>2, <1>3 DEF AccountHeld
  <2>6. CASE r.op = "snapshot"
    <3> DEFINE of == IF client # None /\ client.keyed THEN client.session ELSE None
               s == Signal("snapshot", of)
    <3>1. client' = client /\ running' = running /\ Emit("snapshot", of) BY <2>6, <1>2, <1>4, Started
    <3>2. of \in Session /\ s \in Answered /\ s.sig = "snapshot" /\ s.of = of
      BY <1>3 DEF Client, Session, Signal, Answered
    <3>3. Range(inbox') = Range(inbox) \union {s} BY <3>1, <3>2, <1>3, Queued DEF Emit
    <3>4. ui.page # "basics" BY <2>6, <2>2, <1>2 DEF AccountHeld, FirstCall
    <3>5. Signed /\ of = ui.phone BY <3>4, <2>6, <2>2, <1>2 DEF AccountHeld, LaterCalls, Signed, Keyed
    <3> HIDE DEF s, of
    <3>6. OneNumber' BY <3>1, <3>2, <3>3, <3>5, <2>2, <1>1, <1>2 DEF AccountHeld, OneNumber, Number
    <3>7. LaterCalls'
      BY <3>1, <3>2, <3>3, <3>4, <3>5, <2>2, <1>1, <1>2 DEF AccountHeld, LaterCalls, Signed, Keyed
    <3> QED BY <3>1, <3>4, <3>6, <3>7, <2>1, <1>1, <1>2 DEF AccountHeld, Keyed
  <2>7. CASE r.op \notin {"connect", "snapshot"} /\ client = None
    <3>1. client' = client /\ running' = running /\ Emit("error", None) BY <2>7, <1>2, <1>4, Started
    <3> DEFINE s == Signal("error", None)
    <3>2. s \in Answered /\ s.sig = "error" /\ s.of = None BY DEF Signal, Answered, Sig, PhoneOrNone
    <3>3. Range(inbox') = Range(inbox) \union {s} BY <3>1, <3>2, <1>3, Queued DEF Emit
    <3>4. ui.page # "basics" => FALSE BY <2>7, <1>2 DEF AccountHeld, Keyed
    <3> QED BY <3>4, <2>2, <2>7, <1>2 DEF AccountHeld, FirstCall, Keyed
  <2>8. CASE r.op \notin {"connect", "snapshot"} /\ client # None
    <3>1. PICK stage \in {"asking", "lost"} :
            client' = client /\ inbox' = inbox /\ running' = Append(running, Task(r, stage))
      BY <2>8, <1>2, <1>4, Started
    <3>2. Range(running') = Range(running) \union {Task(r, stage)} /\ Len(running') = Len(running) + 1
      BY <3>1, <2>3, <1>3, Queued
    <3>3. OneNumber' BY <3>1, <3>2, <2>2, <2>3, <1>1, <1>2 DEF AccountHeld, OneNumber, Number
    <3>4. ui.page = "basics" => FirstCall' /\ Len(requests') + Len(running') + Len(inbox') = IF ui.locked THEN 1 ELSE 0
      BY <3>1, <3>2, <2>2, <2>3, <2>8, <1>2, <1>3 DEF AccountHeld, FirstCall, Keyed
    <3>5. ui.page # "basics" => LaterCalls'
      BY <3>1, <3>2, <2>2, <2>3, <2>8, <1>1, <1>2 DEF AccountHeld, LaterCalls, Signed, Keyed
    <3> QED BY <3>1, <3>3, <3>4, <3>5, <2>1, <1>1, <1>2 DEF AccountHeld, Keyed
  <2> QED BY <2>1, <2>4, <2>5, <2>6, <2>7, <2>8
<1>5. ASSUME NEW i \in DOMAIN running, Replace(i)
      PROVE  WorkerOK' /\ UNCHANGED <<source, stored>> /\ AccountHeld'
  <2>1. /\ WorkerOK' /\ UNCHANGED <<source, stored, unwritten, requests, inbox>> /\ client' = NewClient
        /\ client' # None /\ Len(running') = Len(running)
        /\ \A t \in Range(running') : \E u \in Range(running) :
             t.op = u.op /\ t.of = u.of /\ t.hash = u.hash /\ (t.stage = "disconnecting" => u.stage = "disconnecting")
        /\ running[i] \in Range(running) /\ running[i].stage = "disconnecting" /\ running # <<>>
    BY <1>2, <1>5, <1>3, Replaced
  <2>2. ui.page = "basics" BY <2>1, <1>2 DEF AccountHeld, LaterCalls
  <2>3. Len(running) = 1 /\ Len(requests) = 0 /\ Len(inbox) = 0
    BY <2>1, <2>2, <1>2, <1>3 DEF AccountHeld
  <2>4. Range(requests) = {} /\ Range(inbox) = {} BY <2>3, <1>3, NoneQueued
  <2>5. Range(running) = {running[i]} BY <2>3, <1>3 DEF Range
  <2>6. running[i].op = "connect" BY <2>1, <2>2, <1>2 DEF AccountHeld, FirstCall
  <2>7. OneNumber' BY <2>1, <2>4, <1>1, <1>2, <1>3 DEF AccountHeld, OneNumber, Number
  <2>8. FirstCall' BY <2>1, <2>4, <2>5, <2>6 DEF FirstCall
  <2> QED BY <2>1, <2>2, <2>7, <2>8, <1>1, <1>2, <1>3 DEF AccountHeld
<1>6. ASSUME NEW i \in DOMAIN running, Answer(i), ~Replace(i)
      PROVE  WorkerOK' /\ UNCHANGED <<source, stored>> /\ AccountHeld'
  <2> DEFINE w == running[i]
  <2>1. PICK s \in Answered : Outcome(w, s) /\ inbox' = Append(inbox, s) BY <1>2, <1>6, Finished
  <2>2. /\ WorkerOK' /\ UNCHANGED <<source, requests>> /\ client # None /\ client' # None
        /\ w \in Range(running) /\ running' = RemoveAt(running, i) /\ w.stage # "disconnecting"
    BY <1>2, <1>6, Finished
  <2>3. /\ w \in Waiter /\ Range(running') \subseteq Range(running) /\ Len(running') = Len(running) - 1 /\ Len(running) >= 1
        /\ Range(inbox') = Range(inbox) \union {s} /\ Len(inbox') = Len(inbox) + 1
    BY <2>1, <2>2, <1>3, Removed, Queued
  <2> HIDE DEF w
  <2>4. \A sig, of : Signal(sig, of).sig = sig /\ Signal(sig, of).of = of BY DEF Signal
  <2>5. source.db = FALSE BY <1>2 DEF AccountHeld
  <2>6. UNCHANGED stored BY <2>1, <2>5 DEF Outcome
  <2> DEFINE known == /\ s.of \in Number /\ client'.session \in Number /\ client'.twofa \in Number /\ (client'.keyed = client.keyed \/ client'.keyed)
                      /\ client.session = ui.phone => client'.session = ui.phone
                      /\ s.sig = "signed_in" => client'.session = ui.phone
                      /\ s.sig # "snapshot" /\ (s.sig \in {"authorized", "unauthorized"} => w.op = "connect")
  <2>7. known
    <3>1. /\ w.of \in Number /\ client.session \in Number /\ client.twofa \in Number /\ client \in Client
          /\ None \notin Phone /\ None \in Number /\ (\A as \in Phone \cap Number : as = ui.phone)
      BY <2>2, <1>2, <1>3, StaleIsNobody DEF AccountHeld, OneNumber, Number
    <3>2. CASE s = Signal("error", None) /\ client' = client BY <3>1, <3>2, <2>4
    <3>3. CASE /\ w.op = "connect" /\ s = Signal(Welcome, None)
               /\ client'.keyed /\ client'.session = client.session /\ client'.twofa = client.twofa
      BY <3>1, <3>3, <2>4 DEF Welcome
    <3>4. CASE w.op = "send_code" /\ s = Signal("code_sent", w.of) /\ client' = client BY <3>1, <3>4, <2>4
    <3>5. CASE s = Signal("password_required", None) /\ client' = [client EXCEPT !.twofa = w.of]
      BY <3>1, <3>5, <2>4 DEF Client
    <3>6. ASSUME NEW as \in Phone, s = Signal("signed_in", None), as \in {client.session, w.of, client.twofa},
                 client' = [client EXCEPT !.session = as, !.twofa = None]
          PROVE  known
      <4>1. as = ui.phone BY <3>1, <3>6
      <4> QED BY <4>1, <3>1, <3>6, <2>4 DEF Client
    <3>7. CASE w.op \in {"me", "dialogs"} /\ s = Signal(w.op, client.session) /\ client' = client
      BY <3>1, <3>7, <2>4
    <3> QED BY <3>2, <3>3, <3>4, <3>5, <3>6, <3>7, <2>1 DEF Outcome
  <2>8. OneNumber' BY <2>2, <2>3, <2>7, <1>1, <1>2 DEF AccountHeld, OneNumber, Number
  <2>9. CASE ui.page = "basics"
    <3>1. w.op = "connect" \/ (w.op = "send_code" /\ Keyed) BY <2>2, <2>9, <1>2 DEF AccountHeld, FirstCall
    <3>2. /\ Len(requests') + Len(running') + Len(inbox') = IF ui.locked THEN 1 ELSE 0
      BY <2>2, <2>3, <2>9, <1>2, <1>3 DEF AccountHeld
    <3>3. Len(requests') = 0 /\ Len(running') = 0 /\ Range(requests') = {} /\ Range(running') = {} /\ Range(inbox) = {}
      BY <3>2, <2>2, <2>3, <2>9, <1>2, <1>3, NoneQueued DEF WorkerOK, SessionTypeOK, AccountHeld
    <3>4. client.session = None /\ client.twofa = None BY <2>2, <2>9, <1>2 DEF AccountHeld
    <3>5. /\ s.sig = "error" \/ (s.sig \in {"unauthorized", "code_sent"} /\ Keyed')
          /\ client'.session = None /\ client'.twofa = None
      <4>1. client.session \notin Phone BY <3>4, StaleIsNobody
      <4>2. CASE s = Signal("error", None) /\ client' = client BY <3>4, <4>2, <2>4
      <4>3. CASE /\ s = Signal(Welcome, None)
                 /\ client'.keyed /\ client'.session = client.session /\ client'.twofa = client.twofa
        BY <4>1, <4>3, <3>4, <2>2, <2>4 DEF Welcome, Keyed
      <4>4. CASE w.op = "send_code" /\ s = Signal("code_sent", w.of) /\ client' = client
        BY <3>1, <4>4, <3>4, <2>4 DEF Keyed
      <4> QED BY <4>2, <4>3, <4>4, <3>1, <2>1 DEF Outcome
    <3>6. FirstCall' BY <3>3, <3>5, <2>3 DEF FirstCall
    <3> QED BY <3>2, <3>5, <3>6, <2>2, <2>6, <2>8, <2>9, <1>1, <1>2 DEF AccountHeld
  <2>10. CASE ui.page # "basics"
    <3>1. w.op # "connect" BY <2>2, <2>10, <1>2 DEF AccountHeld, LaterCalls
    <3>2. Keyed' /\ (Signed => Signed')
      BY <2>2, <2>7, <2>10, <1>1, <1>2 DEF AccountHeld, Keyed, Signed
    <3>3. LaterCalls' BY <3>1, <3>2, <2>2, <2>3, <2>7, <2>10, <1>1, <1>2 DEF AccountHeld, LaterCalls, Signed
    <3> QED BY <3>2, <3>3, <2>2, <2>6, <2>8, <2>10, <1>1, <1>2 DEF AccountHeld
  <2> QED BY <2>2, <2>6, <2>9, <2>10
<1> QED BY <1>1, <1>4, <1>5, <1>6 DEF Work

\* the answers the dialog waits for
LEMMA AccountHears ==
  ASSUME DialogInv, kind = "account", AccountReply
  PROVE  AccountGoal
<1>1. Open /\ UNCHANGED <<stored, unwritten, client, running, kind, files, saved>> BY DEF AccountReply, Still
<1>2. DialogShape /\ AccountHeld /\ SessionOfAccount /\ WorkerOK BY <1>1 DEF DialogInv, DialogShape, DialogTypeOK, WorkerOK
<1>3. /\ requests \in Seq(Coroutine) /\ running \in Seq(Waiter) /\ inbox \in Seq(Answered) /\ ui \in UI
      /\ Len(requests) \in Nat /\ Len(running) \in Nat /\ Len(inbox) \in Nat /\ ui.phone \in Phone
      /\ ui.page \in PageOf["account"] /\ clicks \in 0..MaxClicks["account"]
  BY <1>1, <1>2 DEF WorkerOK, SessionTypeOK, DialogShape, DialogTypeOK, UI
<1>4. SUFFICES /\ source' = source /\ requests' \in Seq(Coroutine) /\ inbox' \in Seq(Answered) /\ clicks' = clicks
               /\ ui' \in UI /\ ui'.page \in PageOf["account"] /\ AccountHeld'
  BY <1>1, <1>2
  DEF AccountGoal, DialogShape, DialogTypeOK, SessionTypeOK, Attached, Open, SessionOfAccount, WorkerOK
<1> DEFINE h == Head(inbox)
<1>5. ASSUME NEW sig \in Sig, Reply(sig)
      PROVE  /\ h \in Range(inbox) /\ h.sig = sig /\ Of = h.of /\ inbox' \in Seq(Answered) /\ Range(inbox') \subseteq Range(inbox)
             /\ Len(inbox') = Len(inbox) - 1 /\ Len(inbox) >= 1 /\ clicks' = clicks
             /\ Of \in Session /\ (sig # "snapshot" => Of \in PhoneOrNone) /\ Of \in Number
             /\ ui.page = "basics" => /\ Len(inbox') = 0 /\ Len(requests) = 0 /\ Len(running) = 0 /\ ui.locked
                                      /\ Range(inbox') = {} /\ Range(requests) = {} /\ Range(running) = {}
                                      /\ sig = "error" \/ (sig \in {"unauthorized", "code_sent"} /\ Keyed)
             /\ ui.page # "basics" => /\ sig # "authorized" /\ (sig = "signed_in" => Signed)
                                      /\ sig = "snapshot" => Of = ui.phone
  <2>1. /\ h \in Range(inbox) /\ h.sig = sig /\ Of = h.of /\ inbox' \in Seq(Answered) /\ Range(inbox') \subseteq Range(inbox)
        /\ Len(inbox') = Len(inbox) - 1 /\ Len(inbox) >= 1 /\ clicks' = clicks
        /\ Of \in Session /\ (sig # "snapshot" => Of \in PhoneOrNone)
    BY <1>2, <1>3, <1>5, Taken
  <2>2. Of \in Number BY <2>1, <1>2 DEF AccountHeld, OneNumber
  <2>3. ASSUME ui.page = "basics"
        PROVE  /\ Len(inbox') = 0 /\ Len(requests) = 0 /\ Len(running) = 0 /\ ui.locked
               /\ Range(inbox') = {} /\ Range(requests) = {} /\ Range(running) = {}
               /\ sig = "error" \/ (sig \in {"unauthorized", "code_sent"} /\ Keyed)
    <3>1. Len(inbox') = 0 /\ Len(requests) = 0 /\ Len(running) = 0 /\ ui.locked
      BY <2>1, <2>3, <1>2, <1>3 DEF AccountHeld
    <3>2. inbox' = <<>> /\ requests = <<>> /\ running = <<>> BY <3>1, <2>1, <1>3
    <3>3. sig = "error" \/ (sig \in {"unauthorized", "code_sent"} /\ Keyed)
      BY <2>1, <2>3, <1>2 DEF AccountHeld, FirstCall
    <3> QED BY <3>1, <3>2, <3>3, NoneQueued
  <2>4. ui.page # "basics" => /\ sig # "authorized" /\ (sig = "signed_in" => Signed)
                              /\ sig = "snapshot" => Of = ui.phone
    BY <2>1, <1>2 DEF AccountHeld, LaterCalls
  <2> QED BY <2>1, <2>2, <2>3, <2>4
<1> HIDE DEF h
<1>6. CASE AccountConnected
  <2>1. UNCHANGED <<ui, source>> BY <1>6 DEF AccountConnected
  <2>2. "authorized" \in Sig /\ "unauthorized" \in Sig BY DEF Sig
  <2>3. CASE Reply("authorized") /\ Submit(WhoAndWhat) BY <2>2, <2>3, <1>5
  <2>4. CASE Reply("unauthorized") /\ Submit(<<Request("send_code", ui.phone, None)>>)
    <3> DEFINE r == Request("send_code", ui.phone, None)
    <3>0. r \in Coroutine BY <1>3 DEF Request, Coroutine, Op, PhoneOrNone
    <3>1. <<r>> \in Seq(Coroutine) /\ Range(<<r>>) = {r} /\ Len(<<r>>) = 1 BY <3>0, Single
    <3>2. r.op = "send_code" /\ r.of \in Number /\ r.hash \in Number BY DEF Request, Number
    <3> HIDE DEF r
    <3>3. /\ requests' \in Seq(Coroutine) /\ Range(requests') = Range(requests) \union {r}
          /\ Len(requests') = Len(requests) + 1
      BY <3>1, <2>4, <1>2, Called DEF r
    <3>4. OneNumber' BY <3>2, <3>3, <2>1, <2>2, <2>4, <1>1, <1>2, <1>5 DEF AccountHeld, OneNumber, Number
    <3>5. ui.page = "basics" => FirstCall' /\ Len(requests') + Len(running') + Len(inbox') = IF ui.locked THEN 1 ELSE 0
      BY <3>2, <3>3, <2>2, <2>4, <1>1, <1>3, <1>5 DEF FirstCall, Keyed
    <3>6. ui.page # "basics" => LaterCalls'
      BY <3>2, <3>3, <2>1, <2>2, <2>4, <1>1, <1>2, <1>5 DEF AccountHeld, LaterCalls, Signed, Keyed
    <3>7. AccountHeld' BY <3>4, <3>5, <3>6, <2>1, <1>1, <1>2 DEF AccountHeld, Keyed
    <3> QED BY <3>3, <3>7, <2>1, <2>2, <2>4, <1>3, <1>5
  <2> QED BY <2>3, <2>4, <1>6 DEF AccountConnected
<1>7. CASE AccountCodeSent
  <2>1. Reply("code_sent") /\ "code_sent" \in Sig /\ ui' = [ui EXCEPT !.hash = Of, !.page = "awaiting_code"]
        /\ UNCHANGED <<source, requests>>
    BY <1>7 DEF AccountCodeSent, Wait, Sig
  <2>2. ui' \in UI /\ ui'.page = "awaiting_code" /\ ui'.hash = Of /\ ui'.phone = ui.phone /\ ui'.locked = ui.locked
        /\ ui'.blob = ui.blob
    BY <2>1, <1>3, <1>5 DEF UI
  <2>3. OneNumber' BY <2>1, <2>2, <1>1, <1>2, <1>5 DEF AccountHeld, OneNumber, Number
  <2>4. ui.locked /\ Keyed BY <2>1, <1>2, <1>5 DEF AccountHeld
  <2>5. LaterCalls' BY <2>1, <2>2, <1>1, <1>2, <1>5 DEF AccountHeld, LaterCalls, Signed, Keyed
  <2>6. AccountHeld' BY <2>1, <2>2, <2>3, <2>4, <2>5, <1>1, <1>2 DEF AccountHeld, Keyed
  <2> QED BY <2>1, <2>2, <2>6, <1>3, <1>5 DEF PageOf
<1>8. CASE AccountPasswordRequired
  <2>1. Reply("password_required") /\ "password_required" \in Sig /\ ui' = [ui EXCEPT !.page = "password"]
        /\ UNCHANGED <<source, requests>>
    BY <1>8 DEF AccountPasswordRequired, Wait, Sig
  <2>2. ui' \in UI /\ ui'.page = "password" /\ ui'.hash = ui.hash /\ ui'.phone = ui.phone /\ ui'.locked = ui.locked
        /\ ui'.blob = ui.blob
    BY <2>1, <1>3 DEF UI
  <2>3. OneNumber' BY <2>1, <2>2, <1>1, <1>2, <1>5 DEF AccountHeld, OneNumber, Number
  <2>4. ui.page # "basics" /\ ui.locked /\ Keyed BY <2>1, <1>2, <1>5 DEF AccountHeld
  <2>5. LaterCalls' BY <2>1, <2>2, <2>4, <1>1, <1>2, <1>5 DEF AccountHeld, LaterCalls, Signed, Keyed
  <2>6. AccountHeld' BY <2>1, <2>2, <2>3, <2>4, <2>5, <1>1, <1>2 DEF AccountHeld, Keyed
  <2> QED BY <2>1, <2>2, <2>6, <1>3, <1>5 DEF PageOf
<1>9. CASE AccountSignedIn
  <2>1. Reply("signed_in") /\ "signed_in" \in Sig /\ Submit(WhoAndWhat) /\ UNCHANGED <<ui, source>>
    BY <1>9 DEF AccountSignedIn, Sig
  <2>2. WhoAndWhat \in Seq(Coroutine) /\ \A r \in Range(WhoAndWhat) : r.op \in {"me", "snapshot"} /\ r.of = None /\ r.hash = None
    <3>1. Call("me") \in Coroutine /\ Call("snapshot") \in Coroutine BY Calls DEF Op
    <3>2. WhoAndWhat \in Seq(Coroutine) /\ DOMAIN WhoAndWhat = {1, 2}
          /\ WhoAndWhat[1] = Call("me") /\ WhoAndWhat[2] = Call("snapshot")
      BY <3>1 DEF WhoAndWhat
    <3>3. \A r \in Range(WhoAndWhat) : r \in {Call("me"), Call("snapshot")} BY <3>2 DEF Range
    <3> QED BY <3>2, <3>3 DEF Call, Request
  <2>3. requests' \in Seq(Coroutine) /\ Range(requests') = Range(requests) \union Range(WhoAndWhat)
    BY <2>1, <2>2, <1>2, Called
  <2>4. ui.page # "basics" /\ Signed BY <2>1, <1>5
  <2>5. OneNumber' BY <2>1, <2>2, <2>3, <1>1, <1>2, <1>5 DEF AccountHeld, OneNumber, Number
  <2>6. LaterCalls' BY <2>1, <2>2, <2>3, <2>4, <1>1, <1>2, <1>5 DEF AccountHeld, LaterCalls, Signed, Keyed
  <2>7. AccountHeld' BY <2>1, <2>4, <2>5, <2>6, <1>1, <1>2 DEF AccountHeld, Keyed
  <2> QED BY <2>1, <2>3, <2>7, <1>3, <1>5
<1>10. CASE AccountMe
  <2>1. Reply("me") /\ "me" \in Sig /\ ui' = [ui EXCEPT !.me = Of] /\ UNCHANGED <<source, requests>>
    BY <1>10 DEF AccountMe, Wait, Sig
  <2>2. ui' \in UI /\ ui'.page = ui.page /\ ui'.hash = ui.hash /\ ui'.phone = ui.phone /\ ui'.locked = ui.locked
        /\ ui'.blob = ui.blob
    BY <2>1, <1>3, <1>5 DEF UI
  <2>3. OneNumber' BY <2>1, <2>2, <1>1, <1>2, <1>5 DEF AccountHeld, OneNumber, Number
  <2>4. ui.page # "basics" /\ ui.locked /\ Keyed BY <2>1, <1>2, <1>5 DEF AccountHeld
  <2>5. LaterCalls' BY <2>1, <2>2, <2>4, <1>1, <1>2, <1>5 DEF AccountHeld, LaterCalls, Signed, Keyed
  <2>6. AccountHeld' BY <2>1, <2>2, <2>3, <2>4, <2>5, <1>1, <1>2 DEF AccountHeld, Keyed
  <2> QED BY <2>1, <2>2, <2>6, <1>3, <1>5
<1>11. CASE AccountSnapshot
  <2>1. Reply("snapshot") /\ "snapshot" \in Sig /\ UNCHANGED <<source, requests>>
        /\ ui' = IF Of = None THEN Unlocked(ui) ELSE [ui EXCEPT !.blob = Of, !.page = "done"]
    BY <1>11 DEF AccountSnapshot, Wait, Sig
  <2>2. ui.page # "basics" /\ ui.locked /\ Keyed /\ Of = ui.phone /\ Of # None
    BY <2>1, <1>2, <1>3, <1>5, StaleIsNobody DEF AccountHeld
  <2>3. ui' \in UI /\ ui'.page = "done" /\ ui'.hash = ui.hash /\ ui'.phone = ui.phone /\ ui'.locked = ui.locked
        /\ ui'.blob = Of
    BY <2>1, <2>2, <1>3, <1>5 DEF UI
  <2>4. OneNumber' BY <2>1, <2>2, <2>3, <1>1, <1>2, <1>5 DEF AccountHeld, OneNumber, Number
  <2>5. LaterCalls' BY <2>1, <2>2, <2>3, <1>1, <1>2, <1>5 DEF AccountHeld, LaterCalls, Signed, Keyed
  <2>6. AccountHeld' BY <2>1, <2>2, <2>3, <2>4, <2>5, <1>1, <1>2 DEF AccountHeld, Keyed
  <2> QED BY <2>1, <2>3, <2>6, <1>3, <1>5 DEF PageOf
<1>12. CASE AccountError
  <2>1. Reply("error") /\ "error" \in Sig /\ UNCHANGED <<source, requests>>
        /\ ui' = IF ui.page = "basics" THEN Unlocked(ui) ELSE ui
    BY <1>12 DEF AccountError, Wait, Sig
  <2>2. ui' \in UI /\ ui'.page = ui.page /\ ui'.hash = ui.hash /\ ui'.phone = ui.phone
        /\ ui'.locked = (IF ui.page = "basics" THEN FALSE ELSE ui.locked)
        /\ ui'.blob = ui.blob
    BY <2>1, <1>3 DEF UI, Unlocked
  <2>3. OneNumber' BY <2>1, <2>2, <1>1, <1>2, <1>5 DEF AccountHeld, OneNumber, Number
  <2>4. ASSUME ui.page = "basics"
        PROVE  FirstCall' /\ Len(requests') + Len(running') + Len(inbox') = IF ui'.locked THEN 1 ELSE 0
    <3>1. UNCHANGED <<requests, running>> BY <2>1, <1>1
    <3>2. Len(requests') = 0 /\ Len(running') = 0 /\ Len(inbox') = 0 /\ ui'.locked = FALSE
      BY <2>1, <2>2, <2>4, <3>1, <1>5
    <3>3. Range(requests') = {} /\ Range(running') = {} /\ Range(inbox') = {} BY <2>1, <2>4, <3>1, <1>5
    <3> QED BY <3>2, <3>3 DEF FirstCall
  <2>5. ui.page # "basics" => LaterCalls' BY <2>1, <2>2, <1>1, <1>2, <1>5 DEF AccountHeld, LaterCalls, Signed, Keyed
  <2>6. AccountHeld' BY <2>1, <2>2, <2>3, <2>4, <2>5, <1>1, <1>2 DEF AccountHeld, Keyed
  <2> QED BY <2>1, <2>2, <2>6, <1>3, <1>5
<1> QED BY <1>6, <1>7, <1>8, <1>9, <1>10, <1>11, <1>12 DEF AccountReply

\* what the operator does
LEMMA AccountClicks ==
  ASSUME DialogInv, kind = "account", Open,
         (\E p \in Phone : AccountEdit(p)) \/ SubmitBasics \/ SubmitCode \/ SubmitPassword
  PROVE  AccountGoal
<1>1. UNCHANGED <<stored, unwritten, client, running, inbox, kind, files, saved>>
  BY DEF AccountEdit, SubmitBasics, SubmitCode, SubmitPassword, Still
<1>2. DialogShape /\ AccountHeld /\ SessionOfAccount /\ WorkerOK BY DEF DialogInv, DialogShape, DialogTypeOK, WorkerOK
<1>3. /\ requests \in Seq(Coroutine) /\ running \in Seq(Waiter) /\ inbox \in Seq(Answered) /\ ui \in UI
      /\ Len(requests) \in Nat /\ Len(running) \in Nat /\ Len(inbox) \in Nat /\ ui.phone \in Phone
      /\ ui.page \in PageOf["account"] /\ clicks \in 0..MaxClicks["account"]
      /\ MaxClicks["account"] \in Nat
  BY <1>2, DialogAssumption DEF WorkerOK, SessionTypeOK, DialogShape, DialogTypeOK, UI, Open
<1>4. SUFFICES /\ source' = source /\ requests' \in Seq(Coroutine) /\ clicks' \in 0..MaxClicks["account"]
               /\ ui' \in UI /\ ui'.page \in PageOf["account"] /\ AccountHeld'
  BY <1>1, <1>2
  DEF AccountGoal, DialogShape, DialogTypeOK, SessionTypeOK, Attached, Open, SessionOfAccount, WorkerOK
<1>5. ASSUME Click PROVE clicks' \in 0..MaxClicks["account"] BY <1>3, <1>5 DEF Click
<1>6. ASSUME NEW p \in Phone, AccountEdit(p)
      PROVE  /\ source' = source /\ requests' \in Seq(Coroutine) /\ clicks' \in 0..MaxClicks["account"]
             /\ ui' \in UI /\ ui'.page \in PageOf["account"] /\ AccountHeld'
  <2>1. ~ui.locked /\ ui' = [ui EXCEPT !.phone = p] /\ UNCHANGED <<source, requests, clicks>>
    BY <1>6 DEF AccountEdit, Wait
  <2>2. ui' \in UI /\ ui'.page = ui.page /\ ui'.hash = ui.hash /\ ui'.locked = ui.locked /\ ui'.blob = ui.blob
    BY <2>1, <1>3 DEF UI
  <2>3. ui.page = "basics" BY <2>1, <1>2 DEF AccountHeld
  <2>4. Len(requests) = 0 /\ Len(running) = 0 /\ Len(inbox) = 0 BY <2>1, <2>3, <1>2, <1>3 DEF AccountHeld
  <2>5. requests = <<>> /\ running = <<>> /\ inbox = <<>> BY <2>4, <1>3
  <2>6. Range(requests) = {} /\ Range(running) = {} /\ Range(inbox) = {} BY <2>5, NoneQueued
  <2>7. OneNumber' BY <2>1, <2>2, <2>3, <2>6, <1>1, <1>2 DEF AccountHeld, OneNumber, Number
  <2>8. AccountHeld' BY <2>1, <2>2, <2>3, <2>6, <2>7, <1>1, <1>2 DEF AccountHeld, FirstCall
  <2> QED BY <2>1, <2>2, <2>8, <1>3
<1>7. CASE SubmitBasics
  <2>1. /\ ui.page = "basics" /\ ~ui.locked /\ Click /\ ui' = [ui EXCEPT !.locked = TRUE] /\ Connect(None, FALSE)
    BY <1>7 DEF SubmitBasics
  <2>2. ui' \in UI /\ ui'.page = "basics" /\ ui'.locked /\ ui'.hash = ui.hash /\ ui'.phone = ui.phone /\ ui'.blob = ui.blob
    BY <2>1, <1>3 DEF UI
  <2>3. /\ requests' \in Seq(Coroutine) /\ Range(requests') = Range(requests) \union {Call("connect")}
        /\ Len(requests') = Len(requests) + 1 /\ source' = [blob |-> None, db |-> FALSE]
    BY <2>1, <1>2, Connecting DEF Session
  <2>4. Call("connect").op = "connect" /\ Call("connect").of = None /\ Call("connect").hash = None BY DEF Call, Request
  <2>5. source' = source BY <2>3, <1>2 DEF AccountHeld
  <2>6. OneNumber' BY <2>2, <2>3, <2>4, <1>1, <1>2 DEF AccountHeld, OneNumber, Number
  <2>7. FirstCall' BY <2>1, <2>3, <2>4, <1>1, <1>2 DEF AccountHeld, FirstCall, Keyed
  <2>8. Len(requests') + Len(running') + Len(inbox') = 1 BY <2>1, <2>3, <1>1, <1>2, <1>3 DEF AccountHeld
  <2>9. AccountHeld' BY <2>1, <2>2, <2>3, <2>6, <2>7, <2>8, <1>1, <1>2 DEF AccountHeld
  <2> QED BY <2>1, <2>2, <2>3, <2>5, <2>9, <1>5 DEF PageOf
<1>8. ASSUME NEW r \in Coroutine, r.op \in {"sign_in", "password"}, r.of \in Number, r.hash \in Number, Submit(<<r>>),
             ui.page # "basics", Click, UNCHANGED <<ui, source>>
      PROVE  /\ source' = source /\ requests' \in Seq(Coroutine) /\ clicks' \in 0..MaxClicks["account"]
             /\ ui' \in UI /\ ui'.page \in PageOf["account"] /\ AccountHeld'
  <2>1. <<r>> \in Seq(Coroutine) /\ Range(<<r>>) = {r} BY <1>8, Single
  <2>2. requests' \in Seq(Coroutine) /\ Range(requests') = Range(requests) \union {r} BY <2>1, <1>2, <1>8, Called
  <2>3. OneNumber' BY <2>2, <1>1, <1>2, <1>8 DEF AccountHeld, OneNumber, Number
  <2>4. LaterCalls' BY <2>2, <1>1, <1>2, <1>8 DEF AccountHeld, LaterCalls, Signed, Keyed
  <2>5. AccountHeld' BY <2>2, <2>3, <2>4, <1>1, <1>2, <1>8 DEF AccountHeld, Keyed
  <2> QED BY <2>2, <2>5, <1>3, <1>5, <1>8
<1>9. CASE SubmitCode
  <2> DEFINE r == Request("sign_in", ui.phone, ui.hash)
  <2>1. r \in Coroutine /\ r.op = "sign_in" /\ r.of = ui.phone /\ r.hash = ui.hash
    BY <1>3 DEF Request, Coroutine, Op, PhoneOrNone, UI
  <2>2. ui.page # "basics" /\ Click /\ Submit(<<r>>) /\ UNCHANGED <<ui, source>> BY <1>9 DEF SubmitCode
  <2>3. r.of \in Number /\ r.hash \in Number BY <2>1, <1>2 DEF AccountHeld, OneNumber, Number
  <2> QED BY <2>1, <2>2, <2>3, <1>8
<1>10. CASE SubmitPassword
  <2> DEFINE r == Call("password")
  <2>1. r \in Coroutine /\ r.op = "password" /\ r.of \in Number /\ r.hash \in Number
    BY DEF Call, Request, Coroutine, Op, PhoneOrNone, Number
  <2>2. ui.page # "basics" /\ Click /\ Submit(<<r>>) /\ UNCHANGED <<ui, source>> BY <1>10 DEF SubmitPassword
  <2> QED BY <2>1, <2>2, <1>8
<1> QED BY <1>6, <1>7, <1>9, <1>10

------------------------------------------------------------------------------
(* Add Channel.                                                                *)

PickerGoal ==
    /\ DialogShape' /\ kind' = "picker"
    /\ Open' => PickerHeld'

LEMMA Credentials ==
  ASSUME files \in InitialFiles, NEW a \in Account
  PROVE  LoadAccountCredentials(a) \subseteq Session
<1>1. /\ files.sidecar[a] \in Session
      /\ \A d \in files.dbs : d.session \in Session
  BY DialogAssumption
<1>2. DestinationDbForAccount(a) \subseteq files.dbs BY DEF DestinationDbForAccount
<1> QED BY <1>1, <1>2 DEF LoadAccountCredentials, Session

\* the picker starts afresh with an account
LEMMA PickerLoads ==
  ASSUME DialogInv, kind = "picker", Open, NEW a \in Account, NEW blob \in LoadAccountCredentials(a), PickerLoad(a, blob),
         Still, UNCHANGED <<inbox, saved>>, clicks' \in 0..MaxClicks["picker"]
  PROVE  PickerGoal
<1>1. UNCHANGED <<stored, unwritten, client, running, inbox, kind, files>> BY DEF Still
<1>2. DialogShape /\ PickerHeld /\ WorkerOK BY DEF DialogInv, DialogShape, DialogTypeOK, WorkerOK
<1>3. ui \in UI /\ files \in InitialFiles /\ blob \in Session BY <1>2, Credentials DEF DialogShape, DialogTypeOK
<1>4. /\ ui' \in UI /\ ui'.page = "picking" /\ ui'.account = a /\ ui'.list = None /\ ui'.chat = None
      /\ ui'.told = (blob = None)
  <2> DEFINE told == (blob = None)
  <2>1. ui' = [ui EXCEPT !.page = "picking", !.account = a, !.list = None, !.chat = None, !.told = told] BY DEF PickerLoad
  <2>2. told \in BOOLEAN OBVIOUS
  <2>3. None \in PhoneOrNone BY DEF PhoneOrNone
  <2> HIDE DEF told
  <2>4. ui' \in UI /\ ui'.page = "picking" /\ ui'.account = a /\ ui'.list = None /\ ui'.chat = None /\ ui'.told = told
    BY <2>1, <2>2, <2>3, <1>3 DEF UI
  <2> QED BY <2>4 DEF told
<1>5. CASE blob = None
  <2>1. UNCHANGED <<source, requests>> BY <1>5 DEF PickerLoad, Wait
  <2>2. ~AllHave' BY <1>1, <1>5 DEF AllHave, LoadAccountCredentials, DestinationDbForAccount
  <2>3. PickerHeld' BY <2>1, <2>2, <1>1, <1>2, <1>4 DEF PickerHeld
  <2>4. DialogShape' BY <2>1, <1>1, <1>2, <1>4 DEF DialogShape, DialogTypeOK, SessionTypeOK, Attached, PageOf
  <2> QED BY <2>3, <2>4, <1>1 DEF PickerGoal
<1>6. CASE blob # None
  <2>1. Connect(blob, FALSE) BY <1>6 DEF PickerLoad
  <2>2. /\ requests' \in Seq(Coroutine) /\ Range(requests') = Range(requests) \union {Call("connect")}
        /\ requests' # <<>> /\ source' = [blob |-> blob, db |-> FALSE] /\ source' \in [blob: Session, db: BOOLEAN]
    BY <2>1, <1>2, <1>3, Connecting
  <2>3. Call("connect").op = "connect" BY DEF Call, Request
  <2>4. blob \in LoadAccountCredentials(a)' BY <1>1 DEF LoadAccountCredentials, DestinationDbForAccount
  <2>5. Settling' BY <2>2, <2>3, <2>4, <1>4 DEF Settling, Reconnects
  <2>6. PickerHeld' BY <2>2, <2>3, <2>5, <1>1, <1>2, <1>4 DEF PickerHeld
  <2>7. DialogShape' BY <2>2, <1>1, <1>2, <1>4 DEF DialogShape, DialogTypeOK, SessionTypeOK, Attached, PageOf
  <2> QED BY <2>6, <2>7, <1>1 DEF PickerGoal
<1> QED BY <1>5, <1>6

LEMMA PickerClicks ==
  ASSUME DialogInv, kind = "picker", Open, PickerOpened \/ (\E a \in Account : AccountChanged(a))
  PROVE  PickerGoal
<1>1. /\ ui.account \in Account /\ clicks \in 0..MaxClicks["picker"] /\ MaxClicks["picker"] \in Nat
  BY DialogAssumption DEF DialogInv, DialogShape, DialogTypeOK, UI
<1>2. CASE PickerOpened
  <2>1. PICK blob \in LoadAccountCredentials(ui.account) : PickerLoad(ui.account, blob) BY <1>2 DEF PickerOpened
  <2>2. Still /\ UNCHANGED <<inbox, saved, clicks>> BY <1>2 DEF PickerOpened
  <2> QED BY <2>1, <2>2, <1>1, PickerLoads
<1>3. ASSUME NEW a \in Account, AccountChanged(a) PROVE PickerGoal
  <2>1. PICK blob \in LoadAccountCredentials(a) : PickerLoad(a, blob) BY <1>3 DEF AccountChanged
  <2>2. Still /\ UNCHANGED <<inbox, saved>> /\ Click BY <1>3 DEF AccountChanged
  <2>3. clicks' \in 0..MaxClicks["picker"] BY <2>2, <1>1 DEF Click
  <2> QED BY <2>1, <2>2, <2>3, PickerLoads
<1> QED BY <1>2, <1>3

LEMMA PickerWorks ==
  ASSUME DialogInv, kind = "picker", Worker
  PROVE  PickerGoal
<1>1. Open /\ Work /\ UNCHANGED <<kind, files, ui, saved, clicks>> BY DEF Worker
<1>2. DialogShape /\ PickerHeld /\ WorkerOK BY <1>1 DEF DialogInv, DialogShape, DialogTypeOK, WorkerOK
<1>3. /\ requests \in Seq(Coroutine) /\ running \in Seq(Waiter) /\ inbox \in Seq(Answered)
      /\ client \in Client \union {None} /\ source.db = FALSE
      /\ NewClient.session = source.blob /\ NewClient # None
  BY <1>2, NewClients, StaleIsNobody DEF WorkerOK, SessionTypeOK, PickerHeld
<1>4. /\ AllHave' = AllHave /\ LoadAccountCredentials(ui.account)' = LoadAccountCredentials(ui.account)
  BY <1>1 DEF AllHave, LoadAccountCredentials, DestinationDbForAccount
<1> DEFINE pictured == AllHave /\ ui.page = "picking" => Settling
           goal == /\ WorkerOK' /\ UNCHANGED <<source, stored>>
                   /\ \A r \in Range(requests') : r.op \in {"connect", "dialogs"}
                   /\ \A t \in Range(running') : t.op \in {"connect", "dialogs"}
                   /\ \A s \in Range(inbox') : s.sig \in {"authorized", "unauthorized", "dialogs", "error"}
                   /\ ui.page # "opening"
                   /\ Settling => Settling'
<1> SUFFICES goal
  <2>1. goal => DialogShape'
    BY <1>1, <1>2 DEF DialogShape, DialogTypeOK, Open, WorkerOK
  <2>2. goal => PickerHeld' BY <1>1, <1>2, <1>4 DEF PickerHeld
  <2> QED BY <2>1, <2>2, <1>1 DEF PickerGoal
<1>5. CASE Start
  <2> DEFINE r == Head(requests)
  <2>1. WorkerOK' /\ UNCHANGED <<source, stored, unwritten>> /\ requests # <<>> /\ requests' = Tail(requests)
    BY <1>2, <1>5, Started
  <2>2. /\ r \in Coroutine /\ r \in Range(requests) /\ Range(requests') \subseteq Range(requests)
        /\ Range(requests) = Range(requests') \union {r}
    BY <1>3, <2>1, Dequeued
  <2>3. \A stage \in {"asking", "disconnecting", "lost"} :
          Task(r, stage) \in Waiter /\ Task(r, stage).op = r.op /\ Task(r, stage).stage = stage
    BY <2>2 DEF Task, Waiter, Coroutine
  <2>4. r.op \in {"connect", "dialogs"} BY <2>2, <1>2 DEF PickerHeld
  <2>5. ui.page # "opening" BY <2>1, <1>2 DEF PickerHeld, Quiet
  <2>6. CASE r.op = "connect" /\ client = None
    <3>1. client' = NewClient /\ running' = Append(running, Task(r, "asking")) /\ inbox' = inbox
      BY <2>6, <1>2, <1>5, Started
    <3>2. Range(running') = Range(running) \union {Task(r, "asking")} /\ running' # <<>>
      BY <3>1, <2>3, <1>3, Queued
    <3>3. Settling => Settling' BY <3>1, <3>2, <2>1, <1>1, <1>3, <1>4 DEF Settling
    <3> QED BY <3>1, <3>2, <3>3, <2>1, <2>2, <2>3, <2>4, <2>5, <1>2 DEF PickerHeld
  <2>7. CASE r.op = "connect" /\ client # None
    <3>1. inbox' = inbox /\ running' = Append(Lost(running), Task(r, "disconnecting"))
      BY <2>7, <1>2, <1>5, Started
    <3>2. /\ Lost(running) \in Seq(Waiter)
          /\ \A t \in Range(Lost(running)) : \E u \in Range(running) : t.op = u.op
      BY <1>3, AllLost DEF Range
    <3>3. Task(r, "disconnecting") \in Waiter BY <2>3
    <3>4. \A s \in Seq(Waiter) : \A e \in Waiter : Range(Append(s, e)) = Range(s) \union {e} /\ Append(s, e) # <<>>
      BY Queued
    <3>5. Range(running') = Range(Lost(running)) \union {Task(r, "disconnecting")} /\ running' # <<>>
      BY <3>1, <3>2, <3>3, <3>4
    <3>6. Reconnects' BY <3>5, <2>3 DEF Reconnects
    <3>7. Settling => Settling' BY <3>5, <3>6, <2>1, <1>1, <1>4 DEF Settling
    <3>8. \A t \in Range(running') : t.op \in {"connect", "dialogs"} BY <3>2, <3>5, <2>3, <2>4, <1>2 DEF PickerHeld
    <3> QED BY <3>1, <3>7, <3>8, <2>1, <2>2, <2>5, <1>2 DEF PickerHeld
  <2>8. CASE r.op = "dialogs" /\ client = None
    <3>1. client' = client /\ running' = running /\ Emit("error", None) BY <2>8, <1>2, <1>5, Started
    <3> DEFINE s == Signal("error", None)
    <3>2. s \in Answered /\ s.sig = "error" BY DEF Signal, Answered, Sig, PhoneOrNone
    <3> HIDE DEF s
    <3>3. inbox' = Append(inbox, s) BY <3>1 DEF Emit, s
    <3>4. Range(inbox') = Range(inbox) \union {s} /\ inbox' # <<>> /\ inbox'[Len(inbox')] = s
      BY <3>2, <3>3, <1>3, Queued
    <3>5. Settling => Settling' BY <3>1, <3>2, <3>4, <2>1, <2>8, <1>1, <1>4 DEF Settling
    <3> QED BY <3>1, <3>2, <3>4, <3>5, <2>1, <2>2, <2>5, <1>2 DEF PickerHeld
  <2>9. CASE r.op = "dialogs" /\ client # None
    <3>1. PICK stage \in {"asking", "lost"} :
            client' = client /\ inbox' = inbox /\ running' = Append(running, Task(r, stage))
      BY <2>9, <1>2, <1>5, Started
    <3>2. Range(running') = Range(running) \union {Task(r, stage)} /\ running' # <<>>
      BY <3>1, <2>3, <1>3, Queued
    <3>3. Reconnects => Reconnects' BY <3>2, <2>2, <2>9 DEF Reconnects
    <3>4. Settling => Settling' BY <3>1, <3>2, <3>3, <2>1, <1>1, <1>4 DEF Settling
    <3> QED BY <3>1, <3>2, <3>4, <2>1, <2>2, <2>3, <2>4, <2>5, <1>2 DEF PickerHeld
  <2> QED BY <2>4, <2>6, <2>7, <2>8, <2>9
<1>6. ASSUME NEW i \in DOMAIN running, Replace(i) PROVE goal
  <2>1. /\ WorkerOK' /\ UNCHANGED <<source, stored, unwritten, requests, inbox>> /\ client' = NewClient
        /\ \A t \in Range(running') : \E u \in Range(running) : t.op = u.op
        /\ running # <<>> /\ running' # <<>>
    BY <1>2, <1>6, <1>3, Replaced
  <2>2. ui.page # "opening" BY <2>1, <1>2 DEF PickerHeld, Quiet
  <2>3. Settling => Settling' BY <2>1, <1>1, <1>3, <1>4 DEF Settling
  <2> QED BY <2>1, <2>2, <2>3, <1>2 DEF PickerHeld
<1>7. ASSUME NEW i \in DOMAIN running, Answer(i), ~Replace(i) PROVE goal
  <2> DEFINE w == running[i]
  <2>1. PICK s \in Answered : Outcome(w, s) /\ inbox' = Append(inbox, s) BY <1>2, <1>7, Finished
  <2>2. /\ WorkerOK' /\ UNCHANGED <<source, requests>> /\ client # None /\ client' # None
        /\ w \in Range(running) /\ running' = RemoveAt(running, i) /\ w.stage # "disconnecting"
    BY <1>2, <1>7, Finished
  <2>3. /\ Range(running') \subseteq Range(running) /\ running # <<>> /\ Range(running) \subseteq Range(running') \union {w}
    BY <2>2, <1>3, Removed
  <2>4. Range(inbox') = Range(inbox) \union {s} /\ inbox' # <<>> /\ inbox'[Len(inbox')] = s
    BY <2>1, <1>3, Queued
  <2> HIDE DEF w
  <2>5. \A sig, of : Signal(sig, of).sig = sig /\ Signal(sig, of).of = of BY DEF Signal
  <2>6. w.op \in {"connect", "dialogs"} BY <2>2, <1>2 DEF PickerHeld
  <2>7. ui.page # "opening" BY <2>3, <1>2 DEF PickerHeld, Quiet
  <2>8. /\ UNCHANGED stored /\ client'.session = client.session
        /\ s.sig \in {"authorized", "unauthorized", "dialogs", "error"}
        /\ s.sig = "dialogs" => s.of = client.session
    <3>1. CASE s = Signal("error", None) /\ UNCHANGED <<stored, client>> BY <3>1, <2>5
    <3>2. CASE s = Signal(Welcome, None) /\ client'.session = client.session /\ UNCHANGED stored
      BY <3>2, <2>5 DEF Welcome
    <3>3. CASE s = Signal("dialogs", client.session) /\ UNCHANGED <<stored, client>> BY <3>3, <2>5
    <3> QED BY <3>1, <3>2, <3>3, <2>1, <2>6 DEF Outcome
  <2>9. Reconnects => Reconnects' BY <2>2, <2>3 DEF Reconnects
  <2>10. Settling => Settling'
    <3>1. Reconnects' => requests' # <<>> \/ running' # <<>> BY NoneQueued DEF Reconnects
    <3> QED BY <3>1, <2>2, <2>4, <2>8, <2>9, <1>1, <1>4 DEF Settling
  <2> QED BY <2>2, <2>3, <2>4, <2>7, <2>8, <2>10, <1>2 DEF PickerHeld
<1> QED BY <1>1, <1>5, <1>6, <1>7 DEF Work

LEMMA PickerHears ==
  ASSUME DialogInv, kind = "picker", PickerReply
  PROVE  PickerGoal
<1>1. Open /\ UNCHANGED <<stored, unwritten, client, running, kind, files, saved>> BY DEF PickerReply, Still
<1>2. DialogShape /\ PickerHeld /\ WorkerOK BY <1>1 DEF DialogInv, DialogShape, DialogTypeOK, WorkerOK
<1>3. /\ requests \in Seq(Coroutine) /\ inbox \in Seq(Answered) /\ ui \in UI
  BY <1>2 DEF WorkerOK, SessionTypeOK, DialogShape, DialogTypeOK
<1>4. /\ AllHave' = AllHave /\ \A a : LoadAccountCredentials(a)' = LoadAccountCredentials(a)
  BY <1>1 DEF AllHave, LoadAccountCredentials, DestinationDbForAccount
<1> DEFINE goal == /\ source' = source /\ requests' \in Seq(Coroutine) /\ inbox' \in Seq(Answered) /\ clicks' = clicks
                   /\ ui' \in UI /\ ui'.page = "picking" /\ ui'.list = ui'.chat
                   /\ \A r \in Range(requests') : r.op \in {"connect", "dialogs"}
                   /\ Range(inbox') \subseteq Range(inbox)
                   /\ Settling => Settling'
<1> SUFFICES goal
  <2>1. goal => DialogShape'
    BY <1>1, <1>2 DEF DialogShape, DialogTypeOK, SessionTypeOK, Attached, WorkerOK, PageOf
  <2>2. ui.page = "picking"
    <3>1. inbox # <<>> BY DEF PickerReply, PickerConnected, PickerDialogs, PickerError, Reply
    <3> QED BY <3>1, <1>1, <1>2 DEF DialogShape, PageOf, PickerHeld, Quiet
  <2>3. goal => PickerHeld' BY <2>2, <1>1, <1>2, <1>4 DEF PickerHeld
  <2> QED BY <2>1, <2>3, <1>1 DEF PickerGoal
<1>5. inbox # <<>> BY DEF PickerReply, PickerConnected, PickerDialogs, PickerError, Reply
<1>6. ui.page = "picking" BY <1>1, <1>2, <1>5 DEF DialogShape, PageOf, PickerHeld, Quiet
<1>7. ASSUME NEW sig \in Sig, Reply(sig)
      PROVE  /\ inbox' \in Seq(Answered) /\ Range(inbox') \subseteq Range(inbox) /\ clicks' = clicks
             /\ inbox' # <<>> => inbox'[Len(inbox')] = inbox[Len(inbox)]
             /\ inbox' = <<>> => inbox[Len(inbox)].sig = sig /\ inbox[Len(inbox)].of = Of
             /\ sig # "snapshot" => Of \in PhoneOrNone
  BY <1>2, <1>3, <1>5, <1>7, Taken, Dequeued DEF Reply, Of
<1>8. CASE Reply("authorized") /\ Submit(<<Call("dialogs")>>) /\ UNCHANGED <<ui, source>>
  <2>1. "authorized" \in Sig /\ Call("dialogs") \in Coroutine /\ Call("dialogs").op = "dialogs"
    BY DEF Sig, Op, Call, Request, Coroutine, PhoneOrNone
  <2>2. <<Call("dialogs")>> \in Seq(Coroutine) /\ Range(<<Call("dialogs")>>) = {Call("dialogs")} BY <2>1, Single
  <2>3. requests' \in Seq(Coroutine) /\ Range(requests') = Range(requests) \union {Call("dialogs")}
    BY <2>2, <1>2, <1>8, Called
  <2>4. requests' # <<>> BY <2>3, NoneQueued
  <2>5. Reconnects => Reconnects' BY <2>3, <1>1 DEF Reconnects
  <2>6. Settling => Settling' BY <2>4, <2>5, <1>1, <1>4, <1>8 DEF Settling
  <2> QED BY <2>1, <2>3, <2>6, <1>2, <1>3, <1>6, <1>7, <1>8 DEF PickerHeld
<1>9. ASSUME NEW sig \in {"unauthorized", "error"}, Reply(sig), ui' = [ui EXCEPT !.told = TRUE], Wait PROVE goal
  <2>1. sig \in Sig BY DEF Sig
  <2>2. ui' \in UI /\ ui'.told /\ ui'.page = ui.page /\ ui'.list = ui.list /\ ui'.chat = ui.chat /\ ui'.account = ui.account
    BY <1>3, <1>9 DEF UI
  <2>3. UNCHANGED <<source, requests>> BY <1>9 DEF Wait
  <2>4. Settling => Settling' BY <2>1, <2>2, <2>3, <1>1, <1>4, <1>5, <1>7, <1>9 DEF Settling, Reconnects
  <2> QED BY <2>1, <2>2, <2>3, <2>4, <1>2, <1>3, <1>6, <1>7, <1>9 DEF PickerHeld
<1>10. CASE PickerDialogs
  <2>1. /\ "dialogs" \in Sig /\ Reply("dialogs") /\ ui' = [ui EXCEPT !.list = Of, !.chat = Of, !.told = FALSE]
        /\ UNCHANGED <<source, requests>>
    BY <1>10 DEF PickerDialogs, Wait, Sig
  <2>2. Of \in PhoneOrNone BY <2>1, <1>7
  <2>3. ui' \in UI /\ ui'.page = ui.page /\ ui'.list = Of /\ ui'.chat = Of /\ ui'.account = ui.account
    BY <2>1, <2>2, <1>3 DEF UI
  <2>4. Settling => Settling' BY <2>1, <2>3, <1>1, <1>4, <1>5, <1>7 DEF Settling, Reconnects
  <2> QED BY <2>1, <2>3, <2>4, <1>2, <1>3, <1>6, <1>7 DEF PickerHeld
<1> QED BY <1>8, <1>9, <1>10 DEF PickerReply, PickerConnected, PickerError

LEMMA PickerSettled == DialogInv => PickerSettles
BY DEF DialogInv, PickerHeld, PickerSettles, Settling, AllHave, Quiet, Open

------------------------------------------------------------------------------
(* The wizard.                                                                  *)

WizardGoal ==
    /\ DialogShape' /\ kind' = "wizard"
    /\ Open' => WizardHeld'
    /\ FinishedAsOne'

WizardPage == PageOf["wizard"]

LEMMA Pages ==
  /\ Len(Page) = 6
  /\ \A p \in WizardPage : At(p) \in 1..6
  /\ \A p \in WizardPage : At(p) < 6 =>
       /\ Page[At(p) + 1] \in WizardPage \ {"credentials"}
       /\ Page[At(p) + 1] = "services" => p = "dialogs"
       /\ Page[At(p) + 1] = "finish" => p = "services"
       /\ p = "credentials" => Page[At(p) + 1] = "phone"
  /\ \A p \in WizardPage \ {"credentials"} :
       /\ Page[At(p) - 1] \in WizardPage
       /\ Page[At(p) - 1] \in {"services", "finish"} => p = "finish"
<1>1. /\ Len(Page) = 6 /\ DOMAIN Page = 1..6
      /\ Page[1] = "credentials" /\ Page[2] = "phone" /\ Page[3] = "code" /\ Page[4] = "dialogs"
      /\ Page[5] = "services" /\ Page[6] = "finish"
  BY DEF Page
<1>2. 1..6 = {1, 2, 3, 4, 5, 6} OBVIOUS
<1>3. \A p : (\E i \in DOMAIN Page : Page[i] = p) => At(p) \in DOMAIN Page /\ Page[At(p)] = p
  BY DEF At
<1>4. /\ At("credentials") = 1 /\ At("phone") = 2 /\ At("code") = 3 /\ At("dialogs") = 4
      /\ At("services") = 5 /\ At("finish") = 6
  BY <1>1, <1>2, <1>3
<1>5. WizardPage = {"credentials", "phone", "code", "dialogs", "services", "finish"} BY DEF WizardPage, PageOf
<1> QED BY <1>1, <1>4, <1>5

\* a page turned, by its button or by an answer
LEMMA Turned ==
  ASSUME WorkerOK, NEW u \in UI, u.page \in WizardPage, GoNext(u),
         source.blob = None, u.page # "credentials" => source.db,
         u.page \in {"services", "finish"} => u.chat \in Phone
  PROVE  /\ ui' \in UI /\ ui'.page \in WizardPage
         /\ source' \in [blob: Session, db: BOOLEAN] /\ source'.blob = None /\ source'.db
         /\ requests' \in Seq(Coroutine)
         /\ ui'.page \in {"services", "finish"} => ui'.chat \in Phone
         /\ {ui'.list, ui'.all, ui'.chat, ui'.me} \subseteq {None, u.list, u.all, u.chat, u.me}
<1>1. source \in [blob: Session, db: BOOLEAN] /\ requests \in Seq(Coroutine) BY DEF WorkerOK, SessionTypeOK
<1>2. CASE u.page \in {"dialogs", "finish"} /\ ui' = u /\ Wait
  BY <1>1, <1>2 DEF Wait, WizardPage, PageOf
<1>3. ASSUME NEW v \in Validated(u), At(u.page) < Len(Page),
             LET to == Page[At(u.page) + 1] IN ui' = Entered(v, to) /\ Entering(to)
      PROVE  /\ ui' \in UI /\ ui'.page \in WizardPage
             /\ source' \in [blob: Session, db: BOOLEAN] /\ source'.blob = None /\ source'.db
             /\ requests' \in Seq(Coroutine)
             /\ ui'.page \in {"services", "finish"} => ui'.chat \in Phone
             /\ {ui'.list, ui'.all, ui'.chat, ui'.me} \subseteq {None, u.list, u.all, u.chat, u.me}
  <2> DEFINE to == Page[At(u.page) + 1]
  <2>1. to \in WizardPage \ {"credentials"} /\ (to = "services" => u.page = "dialogs") /\ (to = "finish" => u.page = "services")
        /\ (u.page = "credentials" => to = "phone")
    BY <1>3, Pages
  <2>2. ui' = Entered(v, to) /\ Entering(to) BY <1>3
  <2> HIDE DEF to
  <2>3. /\ v \in UI /\ v.page = u.page /\ v.list = u.list /\ v.all = u.all /\ v.me = u.me /\ v.chat \in {u.chat, u.list}
        /\ u.page = "dialogs" => v.chat \in Phone
        /\ u.page # "dialogs" => v.chat = u.chat
    <3>1. CASE u.page # "dialogs" BY <1>3, <3>1 DEF Validated
    <3>2. CASE u.page = "dialogs"
      <4>1. u.list # None /\ v = [u EXCEPT !.chat = u.list] BY <1>3, <3>2 DEF Validated
      <4>2. u.list \in Phone BY <4>1 DEF UI, PhoneOrNone
      <4> QED BY <4>1, <4>2, <3>2 DEF UI
    <3> QED BY <3>1, <3>2
  <2>4. /\ ui' \in UI /\ ui'.page = to /\ ui'.all = v.all /\ ui'.me = v.me /\ ui'.chat = v.chat
        /\ ui'.list \in {None, v.list}
    <3>1. to \in {"phone", "code", "dialogs", "services", "finish"} BY <2>1 DEF WizardPage, PageOf
    <3>2. CASE to = "phone"
      <4>1. ui' = [v EXCEPT !.page = to, !.sent = FALSE] BY <3>2, <2>2 DEF Entered
      <4> QED BY <4>1, <3>1, <2>3 DEF UI
    <3>3. CASE to = "code"
      <4>1. ui' = [v EXCEPT !.page = to, !.signed = FALSE, !.password = FALSE] BY <3>3, <2>2 DEF Entered
      <4> QED BY <4>1, <3>1, <2>3 DEF UI
    <3>4. CASE to = "dialogs"
      <4>1. ui' = [v EXCEPT !.page = to, !.list = None] BY <3>4, <2>2 DEF Entered
      <4>2. None \in PhoneOrNone BY DEF PhoneOrNone
      <4>3. ui' \in UI /\ ui'.page = to BY <4>1, <4>2, <3>1, <2>3 DEF UI
      <4>4. ui'.list = None /\ ui'.all = v.all /\ ui'.me = v.me /\ ui'.chat = v.chat
        <5>1. v \in UI BY <2>3
        <5> QED BY <4>1, <5>1 DEF UI
      <4> QED BY <4>3, <4>4
    <3>5. CASE to \in {"services", "finish"}
      <4>1. ui' = [v EXCEPT !.page = to] BY <3>5, <2>2 DEF Entered
      <4> QED BY <4>1, <3>1, <2>3 DEF UI
    <3> QED BY <3>1, <3>2, <3>3, <3>4, <3>5
  <2>5. /\ source' \in [blob: Session, db: BOOLEAN] /\ source'.blob = None /\ source'.db
        /\ requests' \in Seq(Coroutine)
    <3>1. CASE to = "phone"
      <4>1. Connect(None, TRUE) BY <3>1, <2>2 DEF Entering
      <4>2. None \in Session /\ TRUE \in BOOLEAN BY DEF Session
      <4>3. /\ source' = [blob |-> None, db |-> TRUE] /\ source' \in [blob: Session, db: BOOLEAN]
            /\ requests' \in Seq(Coroutine)
        BY <4>1, <4>2, Connecting
      <4> QED BY <4>3
    <3>2. CASE to = "dialogs"
      <4>1. Submit(<<Call("me"), Call("dialogs")>>) /\ UNCHANGED source BY <3>2, <2>2 DEF Entering
      <4>2. Call("me") \in Coroutine /\ Call("dialogs") \in Coroutine BY Calls DEF Op
      <4>3. <<Call("me"), Call("dialogs")>> \in Seq(Coroutine) BY <4>2
      <4>4. u.page # "credentials"
        BY <2>1, <3>2
      <4>5. requests' \in Seq(Coroutine) BY <4>1, <4>3, Called
      <4> QED BY <4>1, <4>4, <4>5, <1>1
    <3>3. CASE to \notin {"phone", "dialogs"}
      <4>1. Wait BY <3>3, <2>2 DEF Entering
      <4>2. u.page # "credentials" BY <2>1, <3>3
      <4> QED BY <4>1, <4>2, <1>1 DEF Wait
    <3> QED BY <3>1, <3>2, <3>3
  <2>6. ui'.page \in {"services", "finish"} => ui'.chat \in Phone BY <2>1, <2>3, <2>4
  <2> QED BY <2>1, <2>3, <2>4, <2>5, <2>6
<1> QED BY <1>2, <1>3 DEF GoNext

\* what an action of the dialog must show: the worker's client and the database are not its own
LEMMA WizardSteps ==
  ASSUME DialogInv, kind = "wizard", Open, UNCHANGED <<stored, unwritten, client, running, kind, files, saved>>,
         source' \in [blob: Session, db: BOOLEAN], source'.blob = None,
         source'.db \/ (source' = source /\ requests' = requests /\ inbox' = inbox /\ ui'.page = "credentials"),
         requests' \in Seq(Coroutine), inbox' \in Seq(Answered), Range(inbox') \subseteq Range(inbox),
         clicks' \in 0..MaxClicks["wizard"],
         ui' \in UI, ui'.page \in WizardPage,
         ui'.page \in {"services", "finish"} => ui'.chat \in Phone,
         ~unwritten => {ui'.list, ui'.all, ui'.chat, ui'.me} \subseteq Own
  PROVE  WizardGoal
<1>1. DialogShape /\ WizardHeld /\ FinishedAsOne BY DEF DialogInv
<1>2. DialogShape' BY <1>1 DEF DialogShape, DialogTypeOK, SessionTypeOK, Attached, WizardPage
<1>3. Own' = Own BY DEF Own
<1>4. WizardHeld' BY <1>1, <1>3 DEF WizardHeld, Quiet
<1>5. FinishedAsOne' BY <1>1 DEF FinishedAsOne
<1> QED BY <1>2, <1>4, <1>5 DEF WizardGoal

LEMMA Emitted ==
  ASSUME WorkerOK, NEW sig \in Sig, NEW of \in Session, sig # "snapshot" => of \in PhoneOrNone, Emit(sig, of)
  PROVE  \A s \in Range(inbox') : s \in Range(inbox) \/ s.sig = sig
<1>1. Signal(sig, of) \in Answered /\ Signal(sig, of).sig = sig BY DEF Signal, Answered
<1>2. inbox \in Seq(Answered) /\ inbox' = Append(inbox, Signal(sig, of)) BY DEF WorkerOK, SessionTypeOK, Emit
<1>3. Range(inbox') = Range(inbox) \union {Signal(sig, of)} BY <1>1, <1>2, Queued
<1> QED BY <1>1, <1>3

LEMMA WizardWorks ==
  ASSUME DialogInv, kind = "wizard", Worker
  PROVE  WizardGoal
<1>1. Open /\ Work /\ UNCHANGED <<kind, files, ui, saved, clicks>> BY DEF Worker
<1>2. DialogShape /\ WizardHeld /\ FinishedAsOne /\ WorkerOK
  BY <1>1 DEF DialogInv, DialogShape, DialogTypeOK, WorkerOK
<1>3. /\ requests \in Seq(Coroutine) /\ running \in Seq(Waiter) /\ inbox \in Seq(Answered)
      /\ client = None \/ client \in Client
      /\ source.blob = None /\ source.db \in BOOLEAN /\ (requests # <<>> \/ running # <<>> => source.db)
      /\ source.db => NewClient.session = stored
      /\ stored \in Session
  BY <1>2, NewClients DEF WorkerOK, SessionTypeOK, WizardHeld, Quiet
<1> DEFINE goal == /\ WorkerOK' /\ source' = source /\ source.db
                   /\ unwritten => unwritten'
                   /\ ~unwritten' => /\ client' # None => client'.session = stored'
                                     /\ Own \subseteq Own'
                                     /\ \A s \in Range(inbox') : s.sig \in {"me", "dialogs"} => s.of \in Own'
<1> SUFFICES goal
  <2>1. goal => DialogShape' BY <1>1, <1>2 DEF DialogShape, DialogTypeOK, Open, WorkerOK
  <2>2. goal => WizardHeld' BY <1>1, <1>2 DEF WizardHeld
  <2>3. goal => FinishedAsOne' BY <1>1, <1>2 DEF FinishedAsOne
  <2> QED BY <2>1, <2>2, <2>3, <1>1 DEF WizardGoal
<1>4. ~unwritten => /\ client # None => client.session = stored
                    /\ \A s \in Range(inbox) : s.sig \in {"me", "dialogs"} => s.of \in Own
  BY <1>2 DEF WizardHeld
<1>5. CASE Start
  <2> DEFINE r == Head(requests)
  <2>1. WorkerOK' /\ UNCHANGED <<source, stored, unwritten>> /\ requests # <<>> BY <1>2, <1>5, Started
  <2>2. source.db /\ Own' = Own BY <2>1, <1>3 DEF Own
  <2>3. ~unwritten /\ client' # None => client'.session = stored
    BY <2>2, <1>2, <1>3, <1>4, <1>5, Started DEF Client
  <2> DEFINE quiet == \A s \in Range(inbox') : s.sig \in {"me", "dialogs"} => s \in Range(inbox)
  <2>4. quiet
    <3>1. CASE inbox' = inbox BY <3>1
    <3>2. ASSUME NEW of \in Session, Emit("snapshot", of) PROVE quiet BY <3>2, <1>2, Emitted DEF Sig
    <3>3. CASE Emit("error", None) BY <3>3, <1>2, Emitted DEF Sig, Session, PhoneOrNone
    <3>4. client # None => client.session \in Session BY <1>3 DEF Client
    <3>5. None \in Session BY DEF Session
    <3> QED BY <3>1, <3>2, <3>3, <3>4, <3>5, <1>2, <1>5, Started
  <2> QED BY <2>1, <2>2, <2>3, <2>4, <1>4
<1>6. ASSUME NEW i \in DOMAIN running, Replace(i) PROVE goal
  <2>1. /\ WorkerOK' /\ UNCHANGED <<source, stored, unwritten, requests, inbox>> /\ client' = NewClient /\ running # <<>>
    BY <1>2, <1>6, <1>3, Replaced, Removed
  <2>2. Own' = Own BY <2>1 DEF Own
  <2> QED BY <2>1, <2>2, <1>3, <1>4
<1>7. ASSUME NEW i \in DOMAIN running, Answer(i), ~Replace(i) PROVE goal
  <2> DEFINE w == running[i]
  <2>1. PICK s \in Answered : Outcome(w, s) /\ inbox' = Append(inbox, s) BY <1>2, <1>7, Finished
  <2>2. /\ WorkerOK' /\ UNCHANGED <<source, requests>> /\ client # None /\ w \in Range(running)
    BY <1>2, <1>7, Finished
  <2>3. running # <<>> BY <2>2, NoneQueued
  <2>4. source.db /\ client \in Client BY <2>2, <2>3, <1>3
  <2>5. Range(inbox') = Range(inbox) \union {s} BY <2>1, <1>3, Queued
  <2> HIDE DEF w
  <2>6. \A sig, of : Signal(sig, of).sig = sig /\ Signal(sig, of).of = of BY DEF Signal
  <2>7. CASE client'.session = client.session /\ UNCHANGED <<stored, unwritten>> /\ s.sig \notin {"me", "dialogs"}
    <3>1. Own' = Own BY <2>7 DEF Own
    <3> QED BY <3>1, <2>2, <2>4, <2>5, <2>7, <1>4
  <2>8. CASE s = Signal("error", None) /\ UNCHANGED <<stored, unwritten, client>>
    BY <2>6, <2>7, <2>8
  <2>9. CASE s = Signal(Welcome, None) /\ UNCHANGED <<stored, unwritten>> /\ client'.session = client.session
    BY <2>6, <2>7, <2>9 DEF Welcome
  <2>10. CASE s = Signal("code_sent", w.of) /\ UNCHANGED <<stored, unwritten, client>>
    BY <2>6, <2>7, <2>10
  <2>11. CASE s = Signal("password_required", None) /\ UNCHANGED <<stored, unwritten>> /\ client' = [client EXCEPT !.twofa = w.of]
    BY <2>4, <2>6, <2>7, <2>11 DEF Client
  <2>12. ASSUME NEW as \in Phone, s = Signal("signed_in", None), client.session \in Phone => as = client.session,
                client' = [client EXCEPT !.session = as, !.twofa = None], PersistSessionBlob(as)
         PROVE  goal
    <3>1. client'.session = as BY <2>4, <2>12 DEF Client
    <3>2. (unwritten => unwritten') /\ (~unwritten' => ~unwritten /\ stored' = as) BY <2>12 DEF PersistSessionBlob
    <3>3. ~unwritten' => Own \subseteq Own' BY <3>2, <2>2, <2>12, <1>4 DEF Own
    <3>4. s.sig = "signed_in" BY <2>6, <2>12
    <3> QED BY <3>1, <3>2, <3>3, <3>4, <2>2, <2>4, <2>5, <1>4
  <2>13. CASE /\ w.op \in {"me", "dialogs"} /\ s = Signal(w.op, client.session) /\ client.session \in Phone
              /\ UNCHANGED <<stored, unwritten, client>>
    <3>1. Own' = Own BY <2>13 DEF Own
    <3>2. ~unwritten => s.of \in Own BY <2>2, <2>6, <2>13, <1>4 DEF Own
    <3> QED BY <3>1, <3>2, <2>2, <2>4, <2>5, <2>13, <1>4
  <2> QED BY <2>1, <2>4, <2>8, <2>9, <2>10, <2>11, <2>12, <2>13 DEF Outcome
<1> QED BY <1>1, <1>5, <1>6, <1>7 DEF Work

LEMMA WizardHears ==
  ASSUME DialogInv, kind = "wizard", WizardReply
  PROVE  WizardGoal
<1>1. Open /\ UNCHANGED <<stored, unwritten, client, running, kind, files, saved>> BY DEF WizardReply, InWizard, Still
<1>2. DialogShape /\ WizardHeld /\ WorkerOK BY <1>1 DEF DialogInv, DialogShape, DialogTypeOK, WorkerOK
<1>3. /\ requests \in Seq(Coroutine) /\ inbox \in Seq(Answered) /\ ui \in UI /\ ui.page \in WizardPage
      /\ source \in [blob: Session, db: BOOLEAN] /\ source.blob = None
      /\ clicks \in 0..MaxClicks["wizard"]
      /\ ui.page \in {"services", "finish"} => ui.chat \in Phone
      /\ ui.page # "credentials" => source.db
      /\ ~unwritten => {ui.list, ui.all, ui.chat, ui.me} \subseteq Own
  BY <1>1, <1>2 DEF WorkerOK, SessionTypeOK, DialogShape, DialogTypeOK, WizardHeld, WizardPage
<1>4. None \in Own BY DEF Own
<1>5. ASSUME NEW sig \in Sig, Reply(sig)
      PROVE  /\ inbox' \in Seq(Answered) /\ Range(inbox') \subseteq Range(inbox) /\ clicks' = clicks /\ source.db
             /\ sig # "snapshot" => Of \in PhoneOrNone
             /\ sig \in {"me", "dialogs"} /\ ~unwritten => Of \in Own
  <2>1. /\ inbox' \in Seq(Answered) /\ Range(inbox') \subseteq Range(inbox) /\ clicks' = clicks
        /\ sig # "snapshot" => Of \in PhoneOrNone
        /\ Head(inbox) \in Range(inbox) /\ Head(inbox).sig = sig /\ Of = Head(inbox).of /\ inbox # <<>>
    BY <1>2, <1>5, Taken DEF Reply
  <2>2. source.db BY <2>1, <1>2 DEF WizardHeld, Quiet
  <2>3. sig \in {"me", "dialogs"} /\ ~unwritten => Of \in Own BY <2>1, <1>2 DEF WizardHeld
  <2> QED BY <2>1, <2>2, <2>3
<1>6. ASSUME NEW sig \in Sig, Reply(sig), UNCHANGED <<source, requests>>, ui' \in UI, ui'.page = ui.page, ui'.chat = ui.chat,
             ~unwritten => {ui'.list, ui'.all, ui'.me} \subseteq Own
      PROVE  WizardGoal
  <2>1. ~unwritten => {ui'.list, ui'.all, ui'.chat, ui'.me} \subseteq Own BY <1>3, <1>6
  <2> QED BY <2>1, <1>1, <1>3, <1>5, <1>6, WizardSteps
<1>7. ASSUME NEW sig \in Sig, Reply(sig), NEW u \in UI, u.page = ui.page, u.list = ui.list, u.all = ui.all,
             u.chat = ui.chat, u.me = ui.me, GoNext(u)
      PROVE  WizardGoal
  <2>1. /\ ui' \in UI /\ ui'.page \in WizardPage
        /\ source' \in [blob: Session, db: BOOLEAN] /\ source'.blob = None /\ source'.db
        /\ requests' \in Seq(Coroutine)
        /\ ui'.page \in {"services", "finish"} => ui'.chat \in Phone
        /\ {ui'.list, ui'.all, ui'.chat, ui'.me} \subseteq {None, u.list, u.all, u.chat, u.me}
    BY <1>2, <1>3, <1>7, Turned
  <2>2. ~unwritten => {ui'.list, ui'.all, ui'.chat, ui'.me} \subseteq Own BY <2>1, <1>3, <1>4, <1>7
  <2> QED BY <2>1, <2>2, <1>1, <1>3, <1>5, <1>7, WizardSteps
<1>8. CASE WizardConnected
  <2>1. \E sig \in {"authorized", "unauthorized"} : Reply(sig) BY <1>8 DEF WizardConnected
  <2>2. UNCHANGED <<source, requests>> BY <1>8 DEF WizardConnected, Wait
  <2>3. CASE ui' = ui BY <2>1, <2>2, <2>3, <1>3, <1>6 DEF Sig
  <2>4. ASSUME NEW sent \in BOOLEAN, ui' = [ui EXCEPT !.sent = sent] PROVE WizardGoal
    <3>1. ui' \in UI /\ ui'.page = ui.page /\ ui'.chat = ui.chat /\ ui'.list = ui.list /\ ui'.all = ui.all /\ ui'.me = ui.me
      BY <2>4, <1>3 DEF UI
    <3> QED BY <3>1, <2>1, <2>2, <1>3, <1>6 DEF Sig
  <2>5. (ui.sent \/ Hears("phone")) \in BOOLEAN OBVIOUS
  <2> QED BY <2>3, <2>4, <2>5, <1>8 DEF WizardConnected
<1>9. CASE WizardCodeSent
  <2>1. Reply("code_sent") /\ "code_sent" \in Sig BY <1>9 DEF WizardCodeSent, Sig
  <2>2. CASE Hears("phone")
    <3> DEFINE u == [ui EXCEPT !.hash = Of, !.sent = TRUE]
    <3>1. GoNext(u) BY <2>2, <1>9 DEF WizardCodeSent
    <3>2. u \in UI /\ u.page = ui.page /\ u.list = ui.list /\ u.all = ui.all /\ u.chat = ui.chat /\ u.me = ui.me
      BY <2>1, <1>3, <1>5 DEF UI
    <3> HIDE DEF u
    <3> QED BY <3>1, <3>2, <2>1, <1>7
  <2>3. CASE ~Hears("phone")
    <3>1. ui' = ui /\ UNCHANGED <<source, requests>> BY <2>3, <1>9 DEF WizardCodeSent, Wait
    <3> QED BY <3>1, <2>1, <1>3, <1>6
  <2> QED BY <2>2, <2>3
<1>10. CASE WizardPasswordRequired
  <2>1. Reply("password_required") /\ "password_required" \in Sig /\ UNCHANGED <<source, requests>>
    BY <1>10 DEF WizardPasswordRequired, Wait, Sig
  <2>2. ASSUME NEW password \in BOOLEAN, ui' = [ui EXCEPT !.password = password] PROVE WizardGoal
    <3>1. ui' \in UI /\ ui'.page = ui.page /\ ui'.chat = ui.chat /\ ui'.list = ui.list /\ ui'.all = ui.all /\ ui'.me = ui.me
      BY <2>2, <1>3 DEF UI
    <3> QED BY <3>1, <2>1, <1>3, <1>6
  <2>3. (ui.password \/ Hears("code")) \in BOOLEAN OBVIOUS
  <2> QED BY <2>2, <2>3, <1>10 DEF WizardPasswordRequired
<1>11. CASE WizardSignedIn
  <2>1. Reply("signed_in") /\ "signed_in" \in Sig BY <1>11 DEF WizardSignedIn, Sig
  <2>2. CASE Hears("code")
    <3> DEFINE u == [ui EXCEPT !.signed = TRUE]
    <3>1. GoNext(u) BY <2>2, <1>11 DEF WizardSignedIn
    <3>2. u \in UI /\ u.page = ui.page /\ u.list = ui.list /\ u.all = ui.all /\ u.chat = ui.chat /\ u.me = ui.me
      BY <1>3 DEF UI
    <3> HIDE DEF u
    <3> QED BY <3>1, <3>2, <2>1, <1>7
  <2>3. CASE ~Hears("code")
    <3>1. ui' = ui /\ UNCHANGED <<source, requests>> BY <2>3, <1>11 DEF WizardSignedIn, Wait
    <3> QED BY <3>1, <2>1, <1>3, <1>6
  <2> QED BY <2>2, <2>3
<1>12. CASE WizardMe
  <2> DEFINE me == IF Hears("dialogs") THEN Of ELSE ui.me
  <2>1. Reply("me") /\ "me" \in Sig /\ UNCHANGED <<source, requests>> /\ ui' = [ui EXCEPT !.me = me]
    BY <1>12 DEF WizardMe, Wait, Sig
  <2>2. me \in PhoneOrNone /\ (~unwritten => me \in Own) BY <2>1, <1>3, <1>5 DEF UI
  <2> HIDE DEF me
  <2>3. ui' \in UI /\ ui'.page = ui.page /\ ui'.chat = ui.chat /\ ui'.list = ui.list /\ ui'.all = ui.all /\ ui'.me = me
    BY <2>1, <2>2, <1>3 DEF UI
  <2> QED BY <2>1, <2>2, <2>3, <1>3, <1>6
<1>13. CASE WizardDialogs
  <2> DEFINE list == IF Hears("dialogs") THEN Of ELSE ui.list
             all == IF Hears("dialogs") THEN Of ELSE ui.all
  <2>1. Reply("dialogs") /\ "dialogs" \in Sig /\ UNCHANGED <<source, requests>> /\ ui' = [ui EXCEPT !.list = list, !.all = all]
    BY <1>13 DEF WizardDialogs, Wait, Sig
  <2>2. {list, all} \subseteq PhoneOrNone /\ (~unwritten => {list, all} \subseteq Own) BY <2>1, <1>3, <1>5 DEF UI
  <2> HIDE DEF list, all
  <2>3. ui' \in UI /\ ui'.page = ui.page /\ ui'.chat = ui.chat /\ ui'.list = list /\ ui'.all = all /\ ui'.me = ui.me
    BY <2>1, <2>2, <1>3 DEF UI
  <2> QED BY <2>1, <2>2, <2>3, <1>3, <1>6
<1>14. CASE WizardError
  <2>1. Reply("error") /\ "error" \in Sig /\ UNCHANGED <<source, requests, ui>> BY <1>14 DEF WizardError, Wait, Sig
  <2> QED BY <2>1, <1>3, <1>6
<1> QED BY <1>8, <1>9, <1>10, <1>11, <1>12, <1>13, <1>14 DEF WizardReply

LEMMA WizardClicks ==
  ASSUME DialogInv, kind = "wizard", Open,
         (\E p \in Phone : WizardEdit(p)) \/ WizardNext \/ WizardBack \/ SendCode \/ SubmitLogin \/ ApplyFilter
  PROVE  WizardGoal
<1>1. UNCHANGED <<stored, unwritten, client, running, inbox, kind, files, saved>>
  BY DEF WizardEdit, WizardNext, WizardBack, SendCode, SubmitLogin, ApplyFilter, Still
<1>2. DialogShape /\ WizardHeld /\ WorkerOK BY DEF DialogInv, DialogShape, DialogTypeOK, WorkerOK
<1>3. /\ requests \in Seq(Coroutine) /\ inbox \in Seq(Answered) /\ ui \in UI /\ ui.page \in WizardPage
      /\ source \in [blob: Session, db: BOOLEAN] /\ source.blob = None
      /\ clicks \in 0..MaxClicks["wizard"] /\ MaxClicks["wizard"] \in Nat
      /\ ui.page \in {"services", "finish"} => ui.chat \in Phone
      /\ ui.page # "credentials" => source.db
      /\ ~unwritten => {ui.list, ui.all, ui.chat, ui.me} \subseteq Own
  BY <1>2, DialogAssumption DEF WorkerOK, SessionTypeOK, DialogShape, DialogTypeOK, WizardHeld, WizardPage
<1>4. None \in Own BY DEF Own
<1>5. Click => clicks' \in 0..MaxClicks["wizard"] BY <1>3 DEF Click
<1>6. ASSUME source' = source, source.db, requests' \in Seq(Coroutine), clicks' \in 0..MaxClicks["wizard"],
             ui' \in UI, ui'.page = ui.page, ui'.chat = ui.chat, ui'.me = ui.me, {ui'.list, ui'.all} \subseteq {ui.list, ui.all}
      PROVE  WizardGoal
  <2>1. ~unwritten => {ui'.list, ui'.all, ui'.chat, ui'.me} \subseteq Own BY <1>3, <1>6
  <2> QED BY <2>1, <1>1, <1>3, <1>6, WizardSteps
<1>7. ASSUME NEW p \in Phone, WizardEdit(p) PROVE WizardGoal
  <2>1. ui.page = "phone" /\ ui' = [ui EXCEPT !.phone = p] /\ UNCHANGED <<source, requests, clicks>>
    BY <1>7 DEF WizardEdit, On, Wait
  <2>2. ui' \in UI /\ ui'.page = ui.page /\ ui'.chat = ui.chat /\ ui'.list = ui.list /\ ui'.all = ui.all /\ ui'.me = ui.me
    BY <2>1, <1>3 DEF UI
  <2> QED BY <2>1, <2>2, <1>3, <1>6
<1>8. CASE WizardNext
  <2>1. GoNext(ui) /\ UNCHANGED clicks BY <1>8 DEF WizardNext
  <2>2. /\ ui' \in UI /\ ui'.page \in WizardPage
        /\ source' \in [blob: Session, db: BOOLEAN] /\ source'.blob = None /\ source'.db
        /\ requests' \in Seq(Coroutine)
        /\ ui'.page \in {"services", "finish"} => ui'.chat \in Phone
        /\ {ui'.list, ui'.all, ui'.chat, ui'.me} \subseteq {None, ui.list, ui.all, ui.chat, ui.me}
    BY <2>1, <1>2, <1>3, Turned
  <2>3. ~unwritten => {ui'.list, ui'.all, ui'.chat, ui'.me} \subseteq Own BY <2>2, <1>3, <1>4
  <2> QED BY <2>1, <2>2, <2>3, <1>1, <1>3, WizardSteps
<1>9. CASE WizardBack
  <2>1. /\ ui.page # "credentials" /\ Click /\ UNCHANGED <<source, requests>>
        /\ ui' = [ui EXCEPT !.page = Page[At(ui.page) - 1]]
    BY <1>9 DEF WizardBack, Wait
  <2>2. /\ Page[At(ui.page) - 1] \in WizardPage
        /\ Page[At(ui.page) - 1] \in {"services", "finish"} => ui.page = "finish"
    BY <2>1, <1>3, Pages
  <2>3. WizardPage \subseteq {"basics", "awaiting_code", "password", "done", "opening", "picking", "credentials", "phone",
                           "code", "dialogs", "services", "finish", "closed"}
    BY DEF WizardPage, PageOf
  <2>4. /\ ui' \in UI /\ ui'.page = Page[At(ui.page) - 1]
        /\ ui'.chat = ui.chat /\ ui'.list = ui.list /\ ui'.all = ui.all /\ ui'.me = ui.me
    BY <2>1, <2>2, <2>3, <1>3 DEF UI
  <2> QED BY <2>1, <2>2, <2>4, <1>1, <1>3, <1>5, WizardSteps
<1>10. ASSUME NEW r \in Coroutine, Submit(<<r>>), UNCHANGED source, source.db, Click,
              ui' \in UI, ui'.page = ui.page, ui'.chat = ui.chat, ui'.list = ui.list, ui'.all = ui.all, ui'.me = ui.me
       PROVE  WizardGoal
  <2>1. <<r>> \in Seq(Coroutine) BY <1>10
  <2>2. requests' \in Seq(Coroutine) BY <2>1, <1>2, <1>10, Called
  <2> QED BY <2>2, <1>3, <1>5, <1>6, <1>10
<1>11. CASE SendCode
  <2>1. /\ ui.page = "phone" /\ Click /\ ui' = [ui EXCEPT !.asked = ui.phone] /\ UNCHANGED source
        /\ Submit(<<Request("send_code", ui.phone, None)>>)
    BY <1>11 DEF SendCode, On
  <2>2. ui' \in UI /\ ui'.page = ui.page /\ ui'.chat = ui.chat /\ ui'.list = ui.list /\ ui'.all = ui.all /\ ui'.me = ui.me
    BY <2>1, <1>3 DEF UI, PhoneOrNone
  <2>3. Request("send_code", ui.phone, None) \in Coroutine BY <1>3 DEF UI, Request, Coroutine, Op, PhoneOrNone
  <2> QED BY <2>1, <2>2, <2>3, <1>3, <1>10
<1>12. CASE SubmitLogin
  <2> DEFINE r == IF ui.password THEN Call("password") ELSE Request("sign_in", ui.asked, ui.hash)
  <2>1. ui.page = "code" /\ Click /\ UNCHANGED <<ui, source>> /\ Submit(<<r>>) BY <1>12 DEF SubmitLogin, On
  <2>2. r \in Coroutine
    <3>1. Call("password") \in Coroutine BY Calls DEF Op
    <3>2. Request("sign_in", ui.asked, ui.hash) \in Coroutine BY <1>3 DEF UI, Request, Coroutine, Op, PhoneOrNone
    <3> QED BY <3>1, <3>2
  <2> HIDE DEF r
  <2> QED BY <2>1, <2>2, <1>3, <1>10
<1>13. CASE ApplyFilter
  <2>1. ui.page = "dialogs" /\ ui' = [ui EXCEPT !.list = ui.all] /\ UNCHANGED <<source, requests, clicks>>
    BY <1>13 DEF ApplyFilter, On, Wait
  <2>2. ui' \in UI /\ ui'.page = ui.page /\ ui'.chat = ui.chat /\ ui'.list = ui.all /\ ui'.all = ui.all /\ ui'.me = ui.me
    BY <2>1, <1>3 DEF UI
  <2> QED BY <2>1, <2>2, <1>3, <1>6
<1> QED BY <1>7, <1>8, <1>9, <1>11, <1>12, <1>13

------------------------------------------------------------------------------
(* All three together.                                                          *)

\* a dialog that is closed holds on to nothing
LEMMA Closing ==
  ASSUME DialogInv, Open, Gone, saved' \in [phone: PhoneOrNone, session: Session, chat: PhoneOrNone, me: PhoneOrNone],
         SessionOfAccount', FinishedAsOne'
  PROVE  DialogInv'
<1>1. DialogShape BY DEF DialogInv
<1>2. /\ ui' = Blank("closed") /\ requests' = <<>> /\ running' = <<>> /\ inbox' = <<>> /\ client' = None
      /\ UNCHANGED <<source, stored, unwritten, kind, files, clicks>>
  BY DEF Gone
<1>3. ui' \in UI /\ ui'.page = "closed"
  <2>1. (CHOOSE p \in Phone : TRUE) \in Phone BY StaleIsNobody
  <2>2. (CHOOSE a \in Account : TRUE) \in Account BY DialogAssumption
  <2> QED BY <2>1, <2>2, <1>2 DEF Blank, UI, PhoneOrNone, Session
<1>4. requests' \in Seq(Coroutine) /\ running' \in Seq(Waiter) /\ inbox' \in Seq(Answered) BY <1>2, NoneQueued
<1>5. DialogShape' BY <1>1, <1>2, <1>3, <1>4 DEF DialogShape, DialogTypeOK, SessionTypeOK, Attached, Open
<1>6. ~Open' BY <1>3 DEF Open
<1> QED BY <1>5, <1>6 DEF DialogInv

LEMMA Opening == DialogInit => DialogInv
<1> SUFFICES ASSUME DialogInit PROVE DialogInv OBVIOUS
<1>1. /\ source = [blob |-> None, db |-> FALSE] /\ stored \in {None, Stale, CHOOSE p \in Phone : TRUE} /\ unwritten = FALSE
      /\ client = None /\ requests = <<>> /\ running = <<>> /\ inbox = <<>>
      /\ kind \in {"account", "picker", "wizard"} /\ (kind # "wizard" => stored = None)
      /\ ui = Blank(FirstPage[kind]) /\ saved = Nothing /\ clicks = 0
  BY DEF DialogInit, SessionInit
<1>2. (CHOOSE p \in Phone : TRUE) \in Phone /\ (CHOOSE a \in Account : TRUE) \in Account
  BY StaleIsNobody, DialogAssumption
<1>3. files \in InitialFiles BY DialogAssumption DEF DialogInit
<1>4. /\ kind = "account" => FirstPage[kind] = "basics"
      /\ kind = "picker" => FirstPage[kind] = "opening"
      /\ kind = "wizard" => FirstPage[kind] = "credentials"
  BY DEF FirstPage
<1>5. /\ ui \in UI /\ ui.page = FirstPage[kind] /\ ui.locked = FALSE /\ ui.hash = None /\ ui.blob = None
      /\ ui.list = None /\ ui.all = None /\ ui.chat = None /\ ui.me = None
  BY <1>1, <1>2, <1>4 DEF Blank, UI, PhoneOrNone, Session
<1>6. DialogShape
  <2>1. clicks \in 0..MaxClicks[kind] BY <1>1, DialogAssumption
  <2>2. stored \in Session /\ source \in [blob: Session, db: BOOLEAN] BY <1>1, <1>2 DEF Session
  <2>3. requests \in Seq(Coroutine) /\ running \in Seq(Waiter) /\ inbox \in Seq(Answered) BY <1>1, NoneQueued
  <2>4. saved \in [phone: PhoneOrNone, session: Session, chat: PhoneOrNone, me: PhoneOrNone]
    BY <1>1 DEF Nothing, PhoneOrNone, Session
  <2>5. Attached BY <1>1 DEF Attached
  <2>6. ui.page \in PageOf[kind] BY <1>1, <1>4, <1>5 DEF PageOf
  <2> QED BY <2>1, <2>2, <2>3, <2>4, <2>5, <2>6, <1>1, <1>3, <1>5 DEF DialogShape, DialogTypeOK, SessionTypeOK
<1>7. Range(requests) = {} /\ Range(running) = {} /\ Range(inbox) = {} /\ Len(requests) = 0 /\ Len(running) = 0 /\ Len(inbox) = 0
  BY <1>1, NoneQueued
<1>8. kind = "account" => AccountHeld
  BY <1>1, <1>4, <1>5, <1>7 DEF AccountHeld, OneNumber, Number, FirstCall
<1>9. kind = "picker" => PickerHeld BY <1>1, <1>4, <1>5, <1>7 DEF PickerHeld, Quiet
<1>10. kind = "wizard" => WizardHeld BY <1>1, <1>4, <1>5, <1>7 DEF WizardHeld, Quiet, Own
<1>11. SessionOfAccount /\ FinishedAsOne BY <1>1 DEF SessionOfAccount, FinishedAsOne
<1> QED BY <1>6, <1>8, <1>9, <1>10, <1>11 DEF DialogInv

LEMMA DialogSteps == DialogInv /\ [DialogNext]_dialogVars => DialogInv'
<1> SUFFICES ASSUME DialogInv, [DialogNext]_dialogVars PROVE DialogInv' OBVIOUS
<1>1. DialogShape /\ SessionOfAccount /\ FinishedAsOne /\ kind \in {"account", "picker", "wizard"}
  BY DEF DialogInv, DialogShape, DialogTypeOK
<1>2. ASSUME kind = "account", AccountGoal PROVE DialogInv'
  BY <1>2 DEF AccountGoal, DialogInv, FinishedAsOne
<1>3. ASSUME kind = "picker", PickerGoal PROVE DialogInv'
  BY <1>3 DEF PickerGoal, DialogInv, SessionOfAccount, FinishedAsOne
<1>4. ASSUME kind = "wizard", WizardGoal PROVE DialogInv'
  BY <1>4 DEF WizardGoal, DialogInv, SessionOfAccount
<1>5. CASE Worker
  <2>1. CASE kind = "account" BY <2>1, <1>2, <1>5, AccountWorks
  <2>2. CASE kind = "picker" BY <2>2, <1>3, <1>5, PickerWorks
  <2>3. CASE kind = "wizard" BY <2>3, <1>4, <1>5, WizardWorks
  <2> QED BY <2>1, <2>2, <2>3, <1>1
<1>6. CASE HandleReply
  <2>1. CASE AccountReply
    <3>1. kind = "account" BY <2>1 DEF AccountReply
    <3> QED BY <3>1, <2>1, <1>2, AccountHears
  <2>2. CASE PickerReply
    <3>1. kind = "picker" BY <2>2 DEF PickerReply
    <3> QED BY <3>1, <2>2, <1>3, PickerHears
  <2>3. CASE WizardReply
    <3>1. kind = "wizard" BY <2>3 DEF WizardReply, InWizard
    <3> QED BY <3>1, <2>3, <1>4, WizardHears
  <2> QED BY <2>1, <2>2, <2>3, <1>6 DEF HandleReply
<1>7. CASE (\E p \in Phone : AccountEdit(p)) \/ SubmitBasics \/ SubmitCode \/ SubmitPassword
  <2>1. kind = "account" /\ Open BY <1>7 DEF AccountEdit, SubmitBasics, SubmitCode, SubmitPassword, Open
  <2> QED BY <2>1, <1>2, <1>7, AccountClicks
<1>8. CASE PickerOpened \/ (\E a \in Account : AccountChanged(a))
  <2>1. kind = "picker" /\ Open BY <1>8 DEF PickerOpened, AccountChanged, Open
  <2> QED BY <2>1, <1>3, <1>8, PickerClicks
<1>9. CASE (\E p \in Phone : WizardEdit(p)) \/ WizardNext \/ WizardBack \/ SendCode \/ SubmitLogin \/ ApplyFilter
  <2>1. kind = "wizard" /\ Open
    BY <1>9 DEF WizardEdit, WizardNext, WizardBack, SendCode, SubmitLogin, ApplyFilter, On, InWizard
  <2> QED BY <2>1, <1>4, <1>9, WizardClicks
<1>10. CASE AccountOk
  <2>1. /\ kind = "account" /\ Open /\ ui.blob # None /\ Gone
        /\ saved' = [Nothing EXCEPT !.phone = ui.phone, !.session = ui.blob]
    BY <1>10 DEF AccountOk
  <2>2. ui.phone \in Phone /\ ui.blob \in Session BY <1>1 DEF DialogShape, DialogTypeOK, UI
  <2>3. ui.blob = ui.phone BY <2>1 DEF DialogInv, AccountHeld, OneNumber, Number
  <2>4. saved' = [phone |-> ui.phone, session |-> ui.blob, chat |-> None, me |-> None] BY <2>1 DEF Nothing
  <2>5. saved' \in [phone: PhoneOrNone, session: Session, chat: PhoneOrNone, me: PhoneOrNone]
    BY <2>2, <2>4 DEF PhoneOrNone
  <2>6. kind' = "account" BY <2>1 DEF Gone
  <2>7. SessionOfAccount' /\ FinishedAsOne' BY <2>3, <2>4, <2>6 DEF SessionOfAccount, FinishedAsOne
  <2> QED BY <2>1, <2>5, <2>7, Closing
<1>11. CASE PickerOk
  <2>1. /\ kind = "picker" /\ Open /\ Gone
        /\ saved' = [Nothing EXCEPT !.phone = files.phone[ui.account], !.chat = ui.chat]
    BY <1>11 DEF PickerOk
  <2>2. ui.account \in Account /\ ui.chat \in PhoneOrNone /\ files \in InitialFiles
    BY <1>1 DEF DialogShape, DialogTypeOK, UI
  <2>3. files.phone[ui.account] \in PhoneOrNone BY <2>2, DialogAssumption
  <2>4. saved' = [phone |-> files.phone[ui.account], session |-> None, chat |-> ui.chat, me |-> None] BY <2>1 DEF Nothing
  <2>5. saved' \in [phone: PhoneOrNone, session: Session, chat: PhoneOrNone, me: PhoneOrNone]
    BY <2>2, <2>3, <2>4 DEF PhoneOrNone, Session
  <2>6. kind' = "picker" BY <2>1 DEF Gone
  <2>7. SessionOfAccount' /\ FinishedAsOne' BY <2>6 DEF SessionOfAccount, FinishedAsOne
  <2> QED BY <2>1, <2>5, <2>7, Closing
<1>12. CASE WizardFinish
  <2>1. /\ kind = "wizard" /\ Open /\ ui.page = "finish" /\ Gone
        /\ saved' = [phone |-> ui.asked, session |-> stored, chat |-> ui.chat, me |-> ui.me]
    BY <1>12 DEF WizardFinish, On, InWizard
  <2>2. saved' \in [phone: PhoneOrNone, session: Session, chat: PhoneOrNone, me: PhoneOrNone]
    BY <2>1, <1>1 DEF DialogShape, DialogTypeOK, SessionTypeOK, UI
  <2>3. WizardHeld BY <2>1 DEF DialogInv
  <2>4. ui.chat \in Phone BY <2>1, <2>3 DEF WizardHeld
  <2>5. ~unwritten => stored = ui.chat /\ ui.me \in {None, ui.chat}
    BY <2>3, <2>4, StaleIsNobody DEF WizardHeld, Own
  <2>6. kind' = "wizard" /\ unwritten' = unwritten BY <2>1 DEF Gone
  <2>7. SessionOfAccount' /\ FinishedAsOne' BY <2>1, <2>4, <2>5, <2>6 DEF SessionOfAccount, FinishedAsOne
  <2> QED BY <2>1, <2>2, <2>7, Closing
<1>13. CASE Close
  <2>1. Open /\ Gone /\ UNCHANGED saved BY <1>13 DEF Close
  <2>2. UNCHANGED <<kind, unwritten>> BY <2>1 DEF Gone
  <2>3. saved' \in [phone: PhoneOrNone, session: Session, chat: PhoneOrNone, me: PhoneOrNone]
    BY <2>1, <1>1 DEF DialogShape, DialogTypeOK
  <2>4. SessionOfAccount' /\ FinishedAsOne' BY <2>1, <2>2, <1>1 DEF SessionOfAccount, FinishedAsOne
  <2> QED BY <2>1, <2>3, <2>4, Closing
<1>14. CASE UNCHANGED dialogVars
  <2>1. UNCHANGED <<source, stored, unwritten, client, requests, running, inbox, kind, files, ui, saved, clicks>>
    BY <1>14 DEF dialogVars
  <2> QED BY <2>1
      DEF DialogInv, DialogShape, DialogTypeOK, SessionTypeOK, Attached, Open, SessionOfAccount, FinishedAsOne,
          AccountHeld, OneNumber, Number, FirstCall, LaterCalls, Keyed, Signed, PickerHeld, Settling, Reconnects, AllHave,
          LoadAccountCredentials, DestinationDbForAccount, Quiet, WizardHeld, Own
<1> QED BY <1>5, <1>6, <1>7, <1>8, <1>9, <1>10, <1>11, <1>12, <1>13, <1>14 DEF DialogNext

\* Whatever is clicked, answered late or twice and however often, each of the three dialogs is of one Telegram user.
THEOREM DialogsOfOneUser == DialogSpec => []OneUser
<1>1. DialogInv => OneUser BY PickerSettled DEF DialogInv, OneUser
<1> QED BY <1>1, Opening, DialogSteps, PTL DEF DialogSpec

\* The session's state and the dialogs' fields keep their shape (telegram_session.py, v2_config_view.py,
\* telegram_wizard.py).
THEOREM DialogsTyped == DialogSpec => []DialogTypeOK
<1>1. DialogInv => DialogTypeOK BY DEF DialogInv, DialogShape
<1> QED BY <1>1, Opening, DialogSteps, PTL DEF DialogSpec
=============================================================================
