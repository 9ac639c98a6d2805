------------------------------ MODULE RoutingFile ------------------------------
(* The routing file stacks_config.json (config_v2.py) as data: the entities,   *)
(* the lookups the services make in it, and the pure transforms with which the *)
(* panel derives a new configuration from one it holds.                        *)
(* An entity's display name and its id are one here (ids are slugs of names);  *)
(* display fields, ports, paths and the numbers of a route (sizing, execution  *)
(* rules) are left out: a transform of those alone gives the same value.  Sets *)
(* stand for the file's lists: where the code takes "the first", the model     *)
(* fixes one by CHOOSE.                                                        *)
EXTENDS Naturals, FiniteSets

CONSTANTS Name,     \* the slugs that name accounts, profiles, destinations, bots, channels
          Chat,     \* Telegram chats
          NoChat,   \* the chat_id 0
          Nowhere   \* no fallback destination, no binding target, no account id

Channel == [id: Name, account: Name, profile: Name, chat: Chat \union {NoChat}, enabled: BOOLEAN, halted: BOOLEAN]

\* a route made in the matrix is named after its cell, one made with its channel after the channel
RouteId == {<<c>> : c \in Name} \union (Name \X Name)

Route == [id: RouteId, channel: Name, destination: Name, halted: BOOLEAN,
          fallback: Name \union {Nowhere}]

ASSUME NoneIsNothing == NoChat \notin Chat /\ Nowhere \notin Name \union RouteId

Scope == {"global", "destination", "channel", "route"}
Target == Name \union RouteId \union {Nowhere}

\* <<n>> for a binding made with channel n, <<bot, scope, target>> for one made in the bindings tab
BotBinding == [id: {<<n>> : n \in Name} \union (Name \X Scope \X Target),
               bot: Name, scope: Scope, target: Target]

ConfigV2 == [accounts: SUBSET Name, profiles: SUBSET Name, channels: SUBSET Channel,
             destinations: SUBSET Name, bots: SUBSET Name, routes: SUBSET Route,
             bindings: SUBSET BotBinding]

Empty == [accounts |-> {}, profiles |-> {}, channels |-> {}, destinations |-> {}, bots |-> {},
          routes |-> {}, bindings |-> {}]

Ids(entities) == {e.id : e \in entities}

------------------------------------------------------------------------------
(* Lookups.  No operator clears Route.enabled: every route of the file is on.  *)

RoutesOf(cfg, c) == {r \in cfg.routes : r.channel = c}
RoutesTo(cfg, d) == {r \in cfg.routes : r.destination = d}

BindingsForDestination(cfg, d) ==
    {b \in cfg.bindings :
        \/ b.scope = "global"
        \/ b.scope = "destination" /\ b.target = d
        \/ b.scope = "channel" /\ b.target \in {r.channel : r \in RoutesTo(cfg, d)}
        \/ b.scope = "route" /\ b.target \in Ids(RoutesTo(cfg, d))}

\* changed: a bot of a channel asks for the destinations the channel is named after
DestinationsForBotDirect(cfg, bot) ==
    LET mine == {b \in cfg.bindings : b.bot = bot}
    IN  IF \E b \in mine : b.scope = "global" THEN cfg.destinations
        ELSE cfg.destinations \intersect
               UNION {CASE b.scope \in {"destination", "channel"} -> {b.target}
                        [] b.scope = "route" -> {r.destination : r \in {q \in cfg.routes : q.id = b.target}}
                      : b \in mine}

DestinationsForBot(cfg, bot) ==
    LET mine == {b \in cfg.bindings : b.bot = bot}
    IN  IF \E b \in mine : b.scope = "global" THEN cfg.destinations
        ELSE cfg.destinations \intersect
               UNION {CASE b.scope = "destination" -> {b.target}
                        [] b.scope = "channel"     -> {r.destination : r \in RoutesOf(cfg, b.target)}
                        [] b.scope = "route"       -> {r.destination : r \in {q \in cfg.routes : q.id = b.target}}
                      : b \in mine}

\* two bots that would both write to the operator about one destination
DetectBindingOverlaps(cfg) ==
    UNION {LET told == {b.bot : b \in BindingsForDestination(cfg, d)}
           IN  {<<d, pair>> : pair \in {p \in SUBSET told : Cardinality(p) = 2}} : d \in cfg.destinations}

------------------------------------------------------------------------------
(* Transforms: Can... is the validation, the other operator the new value.     *)

WithChannelHalted(cfg, c, halted) ==
    [cfg EXCEPT !.channels = {IF ch.id = c THEN [ch EXCEPT !.halted = halted] ELSE ch : ch \in @}]

WithRouteHalted(cfg, r, halted) ==
    [cfg EXCEPT !.routes = {IF rt.id = r THEN [rt EXCEPT !.halted = halted] ELSE rt : rt \in @}]

WithAccountAdded(cfg, n)     == [cfg EXCEPT !.accounts = @ \union {n}]
WithProfileAdded(cfg, n)     == [cfg EXCEPT !.profiles = @ \union {n}]
WithDestinationAdded(cfg, n) == [cfg EXCEPT !.destinations = @ \union {n}]
WithBotAdded(cfg, n)         == [cfg EXCEPT !.bots = @ \union {n}]

CanAddRoute(cfg, c, d) ==
    /\ c \in Ids(cfg.channels) /\ d \in cfg.destinations
    /\ ~\E r \in cfg.routes : r.channel = c /\ r.destination = d
    /\ <<c, d>> \notin Ids(cfg.routes)

NewRoute(id, c, d) == [id |-> id, channel |-> c, destination |-> d, halted |-> FALSE,
                       fallback |-> Nowhere]

WithRouteAdded(cfg, c, d) == [cfg EXCEPT !.routes = @ \union {NewRoute(<<c, d>>, c, d)}]

\* a route takes the bindings scoped to it along; several at once when a cascade removes them
WithRoutesRemoved(cfg, ids) ==
    [cfg EXCEPT !.routes = {r \in @ : r.id \notin ids},
                !.bindings = {b \in @ : ~(b.scope = "route" /\ b.target \in ids)}]

WithRouteRemoved(cfg, r) == WithRoutesRemoved(cfg, {r})

\* changed: the routes go without the bindings scoped to them
WithChannelsRemovedShallow(cfg, cs) ==
    [cfg EXCEPT !.channels = {c \in @ : c.id \notin cs},
                !.routes = {r \in @ : r.channel \notin cs},
                !.bindings = {b \in @ : ~(b.scope = "channel" /\ b.target \in cs)}]

WithChannelsRemoved(cfg, cs) ==
    [WithRoutesRemoved(cfg, Ids({r \in cfg.routes : r.channel \in cs})) EXCEPT
        !.channels = {c \in @ : c.id \notin cs},
        !.bindings = {b \in @ : ~(b.scope = "channel" /\ b.target \in cs)}]

WithChannelRemoved(cfg, c) == WithChannelsRemoved(cfg, {c})

WithAccountRemoved(cfg, a) ==
    [WithChannelsRemoved(cfg, Ids({c \in cfg.channels : c.account = a})) EXCEPT !.accounts = @ \ {a}]

CanRemoveProfile(cfg, p) == p \in cfg.profiles /\ ~\E c \in cfg.channels : c.profile = p
WithProfileRemoved(cfg, p) == [cfg EXCEPT !.profiles = @ \ {p}]

WithDestinationRemoved(cfg, d) ==
    [WithRoutesRemoved(cfg, Ids(RoutesTo(cfg, d))) EXCEPT
        !.destinations = @ \ {d},
        !.bindings = {b \in @ : ~(b.scope = "destination" /\ b.target = d)}]

WithBotRemoved(cfg, b) ==
    [cfg EXCEPT !.bots = @ \ {b}, !.bindings = {x \in @ : x.bot # b}]

\* sizing and execution rules
WithRouteSizing(cfg, r) == cfg
WithRouteRules(cfg, r) == cfg

CanFailOver(cfg, r, f) ==
    f # Nowhere => f \in cfg.destinations /\ \A rt \in cfg.routes : rt.id = r => rt.destination # f

WithRouteFailover(cfg, r, f) ==
    [cfg EXCEPT !.routes = {IF rt.id = r THEN [rt EXCEPT !.fallback = f] ELSE rt : rt \in @}]

TargetKnown(cfg, scope, t) ==
    CASE scope = "global"      -> t = Nowhere
      [] scope = "destination" -> t \in cfg.destinations
      [] scope = "channel"     -> t \in Ids(cfg.channels)
      [] scope = "route"       -> t \in Ids(cfg.routes)

CanAddBinding(cfg, bot, scope, t) ==
    /\ bot \in cfg.bots /\ TargetKnown(cfg, scope, t)
    /\ <<bot, scope, t>> \notin Ids(cfg.bindings)
    /\ ~\E b \in cfg.bindings : b.bot = bot /\ b.scope = scope /\ b.target = t

NewBinding(id, bot, scope, t) == [id |-> id, bot |-> bot, scope |-> scope, target |-> t]

WithBindingAdded(cfg, bot, scope, t) ==
    [cfg EXCEPT !.bindings = @ \union {NewBinding(<<bot, scope, t>>, bot, scope, t)}]

WithBindingRemoved(cfg, id) == [cfg EXCEPT !.bindings = {b \in @ : b.id # id}]

NewChannel(id, account, profile, chat) ==
    [id |-> id, account |-> account, profile |-> profile, chat |-> chat,
     enabled |-> TRUE, halted |-> FALSE]

\* Add Channel wires a channel, its route and a binding of the bot in one go; ids are made unique
CanAddChannel(cfg, n, chat, account, profile, d, bot) ==
    /\ account \in cfg.accounts /\ profile \in cfg.profiles
    /\ d \in cfg.destinations /\ bot \in cfg.bots
    /\ \A c \in cfg.channels : c.chat # chat
    /\ n \notin Ids(cfg.channels) /\ <<n>> \notin Ids(cfg.routes) \union Ids(cfg.bindings)

ApplyAddChannel(cfg, n, chat, account, profile, d, bot) ==
    [cfg EXCEPT !.channels = @ \union {NewChannel(n, account, profile, chat)},
                !.routes = @ \union {NewRoute(<<n>>, n, d)},
                !.bindings = @ \union {NewBinding(<<n>>, bot, "destination", d)}]

------------------------------------------------------------------------------
(* The setup wizard names all its entities after the stack.                    *)

ComposeWizardEntities(cfg, n) ==
    [cfg EXCEPT !.accounts = @ \union {n}, !.profiles = @ \union {n},
                !.destinations = @ \union {n}, !.bots = @ \union {n}]

FinalizeWizardChannel(cfg, n, chat) ==
    [cfg EXCEPT
        !.channels = IF n \in Ids(@) \/ chat = NoChat THEN @ ELSE @ \union {NewChannel(n, n, n, chat)},
        !.routes = IF <<n>> \in Ids(@) \/ chat = NoChat THEN @ ELSE @ \union {NewRoute(<<n>>, n, n)},
        !.bindings = IF <<n>> \in Ids(@) THEN @ ELSE @ \union {NewBinding(<<n>>, n, "destination", n)}]

------------------------------------------------------------------------------
(* The Windows services a configuration asks for (v2_service_spec.py).         *)

\* account: the --account-id of a listener; db: the destination whose database the service is given
Entry(role, of, db, account) == [role |-> role, of |-> of, db |-> db, account |-> account]

Served(cfg) == {d \in cfg.destinations : RoutesTo(cfg, d) # {}}

DeriveServiceSpec(cfg) ==
    LET bots(d) == {b.bot : b \in BindingsForDestination(cfg, d)} \intersect cfg.bots
        heard(c) == {r.destination : r \in RoutesOf(cfg, c.id)} \intersect Served(cfg)
        live(a) == {c \in cfg.channels : c.enabled /\ c.account = a /\ heard(c) # {}}
    IN  {Entry("api", d, d, Nowhere) : d \in Served(cfg)}
        \union {Entry("bot", b, CHOOSE d \in Served(cfg) : b \in bots(d), Nowhere)
                  : b \in UNION {bots(d) : d \in Served(cfg)}}
        \union {Entry("listener", a, CHOOSE d \in UNION {heard(c) : c \in live(a)} : TRUE, a)
                  : a \in {x \in cfg.accounts : live(x) # {}}}

ServiceName(e) == <<e.role, e.of>>

\* what the services of one destination are to the rest of the panel (stack_registry._stacks_from_v2)
StackServices(cfg, d) ==
    LET carried == {c \in cfg.channels : \E r \in RoutesTo(cfg, d) : r.channel = c.id}
    IN  {<<"api", d>>}
        \union {<<"bot", b>> : b \in {x.bot : x \in BindingsForDestination(cfg, d)} \intersect cfg.bots}
        \union {<<"listener", a>> : a \in {c.account : c \in carried} \intersect cfg.accounts}
=============================================================================
