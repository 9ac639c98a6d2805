----------------------------- MODULE ListenerStart -----------------------------
(* What a listener service takes and where it sends it, as decided when it     *)
(* starts: from the routing file and its --account-id (shared_listener.py), or, *)
(* for an account with one enabled channel, by the single-stack listener from   *)
(* the settings of the database it was registered with (listener.py), which a   *)
(* save of the routing file has filled (v2_db_sync.py).  Also the file a first  *)
(* start of the panel makes of the version 1 list of stacks                     *)
(* (migrations/config_v1_to_v2.py).  Hosts, ports, tokens and the AI key are    *)
(* taken as set; every account is taken as signed in.                           *)
EXTENDS RoutingFile

\* messages of the chat are handed to the destination's API as the channel's; Nowhere: as no channel's
Leg == [chat: Chat \union {NoChat}, channel: Name \union {Nowhere}, destination: Name]

\* the one account a process serves; none: it refuses to start
AccountServed(cfg, given) ==
    IF given # Nowhere THEN cfg.accounts \intersect {given}
    ELSE IF Cardinality(cfg.accounts) = 1 THEN cfg.accounts ELSE {}

ChannelsServed(cfg, given) ==
    {c \in cfg.channels : c.enabled /\ c.account \in AccountServed(cfg, given)}

\* several channels: one handler each, one leg for each route that leads somewhere
MultiLegs(cfg, live) ==
    UNION {{[chat |-> c.chat, channel |-> c.id, destination |-> r.destination]
              : r \in {x \in RoutesOf(cfg, c.id) : x.destination \in cfg.destinations}} : c \in live}

\* the channel whose chat and account a save writes into a destination's settings; none: they stay
SyncedFrom(cfg, d) ==
    LET fed == {c \in cfg.channels : c.enabled /\ \E r \in RoutesTo(cfg, d) : r.channel = c.id}
        first == CHOOSE c \in fed : TRUE
    IN  IF fed = {} THEN {} ELSE {x \in {first} : x.account \in cfg.accounts /\ x.chat # NoChat}

\* the database that gets the account's session before the single-stack listener reads its own
SessionAt(cfg, c) ==
    LET heard == {r.destination : r \in RoutesOf(cfg, c.id)} \intersect cfg.destinations
    IN  IF heard = {} THEN {} ELSE {CHOOSE d \in heard : TRUE}

\* the API is used only where a single route leads to the database, else the message is handled in the
\* listener itself, for no channel
DispatchTarget(cfg, db) ==
    IF Cardinality(RoutesTo(cfg, db)) = 1 THEN CHOOSE c \in {r.channel : r \in RoutesTo(cfg, db)} : TRUE
    ELSE Nowhere

SingleLegs(cfg, c, db) ==
    IF db \notin SessionAt(cfg, c) THEN {}
    ELSE {[chat |-> s.chat, channel |-> DispatchTarget(cfg, db), destination |-> db] : s \in SyncedFrom(cfg, db)}

\* changed: the single-stack listener is chosen by the number of accounts
LegsByAccounts(cfg, i) ==
    LET live == ChannelsServed(cfg, i.account)
    IN  IF live = {} THEN {}
        ELSE IF Cardinality(cfg.accounts) > 1 THEN MultiLegs(cfg, live)
        ELSE SingleLegs(cfg, CHOOSE c \in live : TRUE, i.db)

Legs(cfg, i) ==
    LET live == ChannelsServed(cfg, i.account)
    IN  IF Cardinality(live) > 1 THEN MultiLegs(cfg, live)
        ELSE UNION {SingleLegs(cfg, c, i.db) : c \in live}

------------------------------------------------------------------------------
(* A version 1 stack: its name, and the phone and chat of its settings.        *)

V1Stack == [name: Name, phone: Name \union {Nowhere}, chat: Chat \union {NoChat}]

\* stacks of one phone share an account; one without a phone gets an account of its own
MigratedAccount(s) == IF s.phone # Nowhere THEN s.phone ELSE s.name

Migrate(stacks) ==
    LET names == {s.name : s \in stacks}
    IN  [accounts |-> {MigratedAccount(s) : s \in stacks},
         profiles |-> names, destinations |-> names, bots |-> names,
         channels |-> {NewChannel(s.name, MigratedAccount(s), s.name, s.chat) : s \in stacks},
         routes |-> {NewRoute(<<n>>, n, n) : n \in names},
         bindings |-> {NewBinding(<<n>>, n, "destination", n) : n \in names}]
=============================================================================
