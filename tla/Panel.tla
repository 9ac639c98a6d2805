-------------------------------- MODULE Panel --------------------------------
(* The desktop panel's hold on the routing file and on the Windows services.   *)
(* Three views edit the file (gui/views/v2_config_view.py, routes_matrix_view,  *)
(* bot_bindings_view): each keeps the configuration it last loaded, derives the *)
(* new one from that copy and writes the whole file.  A view reloads when its   *)
(* own change is saved, on its Refresh button and when the panel switches to    *)
(* another stack; nothing tells it of a change another view made.  The setup    *)
(* wizard is modal and loads the file afresh before each of its two writes.     *)
(* The Services tab registers and unregisters what its rows, read from the file *)
(* at its last refresh, name; starting and stopping what is registered changes  *)
(* no registration and is left out.  The panel is the only instance on the      *)
(* machine.  Saving may fail: the view then reloads or stays as it is.          *)
EXTENDS ListenerStart

CONSTANTS Absent,       \* no file, or one that cannot be read
          InitialFile,  \* configurations the panel may find when it starts
          V1Files,      \* lists of version 1 stacks it may find instead
          MaxWrites      \* bound: writes of the file and changes of registrations

\* Every route leads from a channel to a destination, every binding belongs to a bot and aims at something.
References(cfg) ==
    /\ \A r \in cfg.routes : r.channel \in Ids(cfg.channels) /\ r.destination \in cfg.destinations
    /\ \A b \in cfg.bindings : b.bot \in cfg.bots /\ TargetKnown(cfg, b.scope, b.target)

\* A cell of the matrix is one route.
Cells(cfg) == \A r, q \in cfg.routes : r.channel = q.channel /\ r.destination = q.destination => r = q

\* A file the program has written, and channels with ids of their own.
Sound(cfg) ==
    /\ cfg \in ConfigV2 /\ IsFiniteSet(cfg.channels)
    /\ \A c, e \in cfg.channels : c.id = e.id => c = e
    /\ References(cfg) /\ Cells(cfg)

\* What the panel finds is such a file, or a list of stacks with a name each.
ASSUME FileAssumption ==
    /\ Absent \notin ConfigV2 /\ "closed" \notin Name
    /\ \A cfg \in InitialFile \ {Absent} : Sound(cfg)
    /\ \A stacks \in V1Files : stacks \subseteq V1Stack /\ IsFiniteSet(stacks)
    /\ \A stacks \in V1Files : \A s, t \in stacks : s.name = t.name => s = t
    /\ MaxWrites \in Nat \ {0}

VARIABLES file,       \* stacks_config.json
          copy,       \* what each view last loaded
          wizard,     \* the stack the open wizard has composed, or "closed"
          rows,       \* the entries behind the rows of the Services tab
          installed,  \* the entries registered with NSSM
          covered,    \* the file as it was at the last complete Install ALL, while nothing is uninstalled
                      \* and nothing of another file is installed
          writes       \* writes of the file so far

vars == <<file, copy, wizard, rows, installed, covered, writes>>
services == <<rows, installed, covered>>

View == {"entities", "routes", "bindings"}
Spec0(cfg) == IF cfg = Absent THEN {} ELSE DeriveServiceSpec(cfg)

\* V2 Config takes a file it cannot load for an empty one, the other two stay empty-handed
Loaded(v, cfg) == IF cfg = Absent /\ v = "entities" THEN Empty ELSE cfg

TypeOK ==
    /\ file \in ConfigV2 \union {Absent}
    /\ copy \in [View -> ConfigV2 \union {Absent}]
    /\ wizard \in {"closed"} \union Name
    /\ rows \union installed \subseteq
         [role: {"api", "bot", "listener"}, of: Name, db: Name, account: Name \union {Nowhere}]
    /\ covered \in ConfigV2 \union {Absent}
    /\ writes \in 0..MaxWrites

Init ==
    /\ \/ file \in InitialFile /\ writes = 0
       \/ \E stacks \in V1Files : file = Migrate(stacks) /\ writes = 1
    /\ copy = [v \in View |-> Loaded(v, file)]
    /\ wizard = "closed"
    /\ rows = Spec0(file)
    /\ installed = {} /\ covered = Absent

------------------------------------------------------------------------------
(* What the tables and dialogs offer, from the view's copy.                    *)

ChannelRows(cfg) == cfg.channels
RouteRows(cfg)   == cfg.routes
BindingRows(cfg) == cfg.bindings
Cell(cfg, c, d)  == {r \in cfg.routes : r.channel = c /\ r.destination = d}

\* Add Channel needs one of each prerequisite and lists what the copy has
AddChannelOffers(cfg) ==
    [account: cfg.accounts, profile: cfg.profiles, destination: cfg.destinations, bot: cfg.bots]

\* the chat picked from the account's dialogs, or typed where they cannot be listed; 0 is refused
ResolvedChat == Chat

\* every destination but the route's own
FallbackOffers(cfg, r) == (cfg.destinations \ {r.destination}) \union {Nowhere}

BindingOffers(cfg, scope) ==
    CASE scope = "global"      -> {Nowhere}
      [] scope = "destination" -> cfg.destinations
      [] scope = "channel"     -> Ids(cfg.channels)
      [] scope = "route"       -> Ids(cfg.routes)

\* the form takes any text for the account and the profile and any number for the chat; its two
\* switches do what the toggles do, its id is locked
ChannelForm(ch) ==
    [id: {ch.id}, account: Name, profile: Name, chat: Chat, enabled: {ch.enabled}, halted: {ch.halted}]

------------------------------------------------------------------------------
(* Editing.  A save goes out from the view's copy, whatever the file holds.    *)

SaveV2(cfg) ==
    /\ writes < MaxWrites
    /\ file' = cfg
    /\ writes' = writes + 1

\* the view ends up with what it wrote: it reloads, or keeps the new configuration as its copy
SaveFrom(v, cfg) ==
    /\ SaveV2(cfg)
    /\ copy' = [copy EXCEPT ![v] = cfg]
    /\ UNCHANGED <<wizard, services>>

Holds(v) == wizard = "closed" /\ copy[v] # Absent

\* the Refresh button, a change of stack, or the fallback of a save that failed
Refresh(v) ==
    /\ wizard = "closed"
    /\ copy' = [copy EXCEPT ![v] = Loaded(v, file)]
    /\ UNCHANGED <<file, wizard, services, writes>>

ToggleChannelEnabled(c) ==
    /\ Holds("entities")
    /\ c \in Ids(ChannelRows(copy["entities"]))
    /\ SaveFrom("entities", [copy["entities"] EXCEPT !.channels =
         {IF ch.id = c THEN [ch EXCEPT !.enabled = ~@] ELSE ch : ch \in @}])

ToggleChannelHalt(c) ==
    /\ Holds("entities")
    /\ \E ch \in ChannelRows(copy["entities"]) :
         ch.id = c /\ SaveFrom("entities", WithChannelHalted(copy["entities"], c, ~ch.halted))

ToggleRouteHalt(r) ==
    /\ Holds("entities")
    /\ \E rt \in RouteRows(copy["entities"]) :
         rt.id = r /\ SaveFrom("entities", WithRouteHalted(copy["entities"], r, ~rt.halted))

AddAccount(n) ==
    /\ Holds("entities") /\ n \notin copy["entities"].accounts
    /\ SaveFrom("entities", WithAccountAdded(copy["entities"], n))

AddProfile(n) ==
    /\ Holds("entities") /\ n \notin copy["entities"].profiles
    /\ SaveFrom("entities", WithProfileAdded(copy["entities"], n))

AddDestination(n) ==
    /\ Holds("entities") /\ n \notin copy["entities"].destinations
    /\ SaveFrom("entities", WithDestinationAdded(copy["entities"], n))

AddBot(n) ==
    /\ Holds("entities") /\ n \notin copy["entities"].bots
    /\ SaveFrom("entities", WithBotAdded(copy["entities"], n))

AddChannel(n) ==
    /\ Holds("entities")
    /\ LET cfg == copy["entities"]
       IN \E o \in AddChannelOffers(cfg), chat \in ResolvedChat :
            /\ CanAddChannel(cfg, n, chat, o.account, o.profile, o.destination, o.bot)
            /\ SaveFrom("entities",
                 ApplyAddChannel(cfg, n, chat, o.account, o.profile, o.destination, o.bot))

\* the form of any other entity rewrites the file without changing what the model keeps
EditOther ==
    /\ Holds("entities") /\ copy["entities"] # Empty
    /\ SaveFrom("entities", copy["entities"])

EditChannel(c) ==
    /\ Holds("entities")
    /\ \E ch \in copy["entities"].channels :
         /\ ch.id = c
         /\ \E new \in ChannelForm(ch) :
              SaveFrom("entities", [copy["entities"] EXCEPT !.channels = (@ \ {ch}) \union {new}])

RemoveAccount(n) ==
    /\ Holds("entities") /\ n \in copy["entities"].accounts
    /\ SaveFrom("entities", WithAccountRemoved(copy["entities"], n))

RemoveProfile(n) ==
    /\ Holds("entities") /\ CanRemoveProfile(copy["entities"], n)
    /\ SaveFrom("entities", WithProfileRemoved(copy["entities"], n))

RemoveChannel(n) ==
    /\ Holds("entities") /\ n \in Ids(copy["entities"].channels)
    /\ SaveFrom("entities", WithChannelRemoved(copy["entities"], n))

RemoveDestination(n) ==
    /\ Holds("entities") /\ n \in copy["entities"].destinations
    /\ SaveFrom("entities", WithDestinationRemoved(copy["entities"], n))

RemoveBot(n) ==
    /\ Holds("entities") /\ n \in copy["entities"].bots
    /\ SaveFrom("entities", WithBotRemoved(copy["entities"], n))

\* ticking a cell of the matrix makes the route, unticking it removes every route's id the cell shows
CheckCell(c, d) ==
    /\ Holds("routes")
    /\ CanAddRoute(copy["routes"], c, d)
    /\ SaveFrom("routes", WithRouteAdded(copy["routes"], c, d))

UncheckCell(c, d) ==
    /\ Holds("routes")
    /\ \E r \in Cell(copy["routes"], c, d) :
         SaveFrom("routes", WithRouteRemoved(copy["routes"], r.id))

ResizeCell(c, d) ==
    /\ Holds("routes")
    /\ \E r \in Cell(copy["routes"], c, d) :
         SaveFrom("routes", WithRouteSizing(copy["routes"], r.id))

EditRules(c, d) ==
    /\ Holds("routes")
    /\ LET cfg == copy["routes"]
       IN \E r \in Cell(cfg, c, d) : \E f \in FallbackOffers(cfg, r) :
            /\ CanFailOver(cfg, r.id, f)
            /\ SaveFrom("routes", WithRouteFailover(WithRouteRules(cfg, r.id), r.id, f))

AddBinding(bot, scope) ==
    /\ Holds("bindings")
    /\ LET cfg == copy["bindings"]
       IN \E t \in BindingOffers(cfg, scope) :
            /\ CanAddBinding(cfg, bot, scope, t)
            /\ SaveFrom("bindings", WithBindingAdded(cfg, bot, scope, t))

RemoveBinding ==
    /\ Holds("bindings")
    /\ \E b \in BindingRows(copy["bindings"]) :
         SaveFrom("bindings", WithBindingRemoved(copy["bindings"], b.id))

------------------------------------------------------------------------------
(* The wizard.                                                                 *)

\* leaving the identity page; going back and choosing another name composes another stack
Compose(n) ==
    /\ LET cfg == IF file = Absent THEN Empty ELSE file
       IN  /\ n \notin cfg.destinations
           /\ SaveV2(ComposeWizardEntities(cfg, n))
    /\ wizard' = n
    /\ UNCHANGED <<copy, services>>

Register(new) ==
    /\ writes < MaxWrites /\ writes' = writes + 1
    /\ installed' = {i \in installed : \A e \in new : ServiceName(i) # ServiceName(e)} \union new

\* the services page: no route leads to the new destination yet, so nothing is derived for it
\* and the three services are registered by name, the listener without an account
WizardInstall ==
    /\ wizard \in Name
    /\ LET n == wizard
           trio == {Entry(r, n, n, Nowhere) : r \in {"api", "bot", "listener"}}
           names == {ServiceName(e) : e \in trio}
           mine == {e \in Spec0(file) : ServiceName(e) \in names}
           fit == {ServiceName(i) : i \in {x \in installed : x.db = n}}
       IN  ~(names \subseteq fit) /\ Register(IF mine = {} THEN trio ELSE mine)
    /\ covered' = IF covered = file THEN covered ELSE Absent
    /\ UNCHANGED <<file, copy, wizard, rows>>

\* the chat may be missing; the panel then switches to the new stack and every view reloads
Finish(chat) ==
    /\ wizard \in Name
    /\ file # Absent
    /\ SaveV2(FinalizeWizardChannel(file, wizard, chat))
    /\ wizard' = "closed"
    /\ copy' = [v \in View |-> file']
    /\ rows' = Spec0(file')
    /\ UNCHANGED <<installed, covered>>

Cancel ==
    /\ wizard \in Name /\ wizard' = "closed"
    /\ UNCHANGED <<file, copy, services, writes>>

------------------------------------------------------------------------------
(* The Services tab.                                                           *)

RefreshRows ==
    /\ wizard = "closed"
    /\ rows' = Spec0(file)
    /\ UNCHANGED <<file, copy, wizard, installed, covered, writes>>

\* one elevated pass over the file's own specification; where a registration fails the rest goes on,
\* as when rows are installed one by one
InstallAll ==
    /\ wizard = "closed"
    /\ Spec0(file) # {}
    /\ Register(Spec0(file))
    /\ covered' = file
    /\ UNCHANGED <<file, copy, wizard, rows>>

\* a row registers the entry it was built from
InstallRow ==
    /\ wizard = "closed"
    /\ \E e \in rows :
         /\ Register({e})
         /\ covered' = IF e \in Spec0(covered) THEN covered ELSE Absent
    /\ UNCHANGED <<file, copy, wizard, rows>>

Unregister(names) ==
    /\ writes < MaxWrites /\ writes' = writes + 1
    /\ installed' = {i \in installed : ServiceName(i) \notin names}
    /\ covered' = Absent
    /\ UNCHANGED <<file, copy, wizard, rows>>

UninstallRow == wizard = "closed" /\ \E e \in rows : Unregister({ServiceName(e)})

UninstallAll == wizard = "closed" /\ rows # {} /\ Unregister({ServiceName(e) : e \in rows})

------------------------------------------------------------------------------
Edit ==
    \/ \E c \in Name : \/ ToggleChannelEnabled(c) \/ ToggleChannelHalt(c) \/ EditChannel(c)
    \/ \E r \in RouteId : ToggleRouteHalt(r)
    \/ \E n \in Name : \/ AddAccount(n) \/ AddProfile(n) \/ AddDestination(n) \/ AddBot(n) \/ AddChannel(n)
                       \/ RemoveAccount(n) \/ RemoveProfile(n) \/ RemoveChannel(n)
                       \/ RemoveDestination(n) \/ RemoveBot(n)
    \/ EditOther
    \/ \E c, d \in Name : CheckCell(c, d) \/ UncheckCell(c, d) \/ ResizeCell(c, d) \/ EditRules(c, d)
    \/ \E b \in Name, s \in Scope : AddBinding(b, s)
    \/ RemoveBinding

Wizard == (\E n \in Name : Compose(n)) \/ WizardInstall
          \/ (\E chat \in Chat \union {NoChat} : Finish(chat)) \/ Cancel

Services == RefreshRows \/ InstallAll \/ InstallRow \/ UninstallRow \/ UninstallAll

Next == Edit \/ (\E v \in View : Refresh(v)) \/ Wizard \/ Services

Spec == Init /\ [][Next]_vars

------------------------------------------------------------------------------
(* Properties.                                                                 *)

\* Whatever views of whatever age save, every route of the file leads from a channel to a destination
\* it holds, and every binding belongs to a bot and aims at something it holds: the removals cascade
\* through channels, routes and the bindings scoped to each (config_v2.py with_..._removed).
Wired == file # Absent => References(file)

\* A cell of the matrix is one route: no channel is copied twice to one destination (and a signal
\* traded twice there), whichever of the matrix, Add Channel and the wizard made the routes.
OneRoutePerCell == file # Absent => Cells(file)

\* After a complete Install ALL, and as long as the file is the one it installed, a route of an enabled
\* channel of a known account is served from end to end: its destination's API and the bots that tail it
\* are registered, and the listener registered under the account, started on this file, hands the
\* channel's messages to that destination as the channel's.  For the only enabled channel of its account,
\* which the single-stack listener takes, that is so where the route shares neither end with another
\* (v2_service_spec.py, shared_listener.main, listener._resolve_api_dispatch_target, v2_db_sync.py).
LegServed ==
    covered = file /\ file # Absent =>
        \A c \in file.channels, r \in file.routes :
            c.enabled /\ r.channel = c.id /\ c.account \in file.accounts =>
                /\ Entry("api", r.destination, r.destination, Nowhere) \in installed
                /\ \A b \in file.bots :
                     r.destination \in DestinationsForBot(file, b) =>
                         \E i \in installed : ServiceName(i) = <<"bot", b>>
                /\ \E i \in installed :
                     /\ i.role = "listener" /\ i.account = c.account
                     /\ \/ c.chat = NoChat
                        \/ Cardinality(ChannelsServed(file, c.account)) = 1
                             /\ RoutesOf(file, c.id) \union RoutesTo(file, r.destination) # {r}
                        \/ [chat |-> c.chat, channel |-> c.id, destination |-> r.destination] \in Legs(file, i)

\* After a complete Install ALL the start-up check of a stack whose channels are all enabled finds every
\* service it looks for (stack_registry._stacks_from_v2 against v2_service_spec.derive_v2_service_spec).
StackStarts ==
    covered = file /\ file # Absent =>
        \A d \in file.destinations :
            (\E r \in RoutesTo(file, d) : TRUE)
              /\ (\A c \in file.channels : RoutesOf(file, c.id) \intersect RoutesTo(file, d) # {} => c.enabled)
            => StackServices(file, d) \subseteq {ServiceName(i) : i \in installed}

\* A complete Install ALL covers the file it was made from: its routes are served end to end and the
\* start-up check of its stacks passes, until the file or the registrations change.
InstallCovers == LegServed /\ StackStarts

\* The bindings tab warns of exactly the pairs of bots that would both write to the operator about one
\* destination (config_v2.detect_binding_overlaps against destinations_for_bot, which each bot asks).
OverlapWarned ==
    file # Absent =>
        \A d \in file.destinations, b, c \in file.bots :
            b # c => ( d \in DestinationsForBot(file, b) \intersect DestinationsForBot(file, c)
                       <=> <<d, {b, c}>> \in DetectBindingOverlaps(file) )

\* The file keeps its references and its cells whichever views write it, and the warning reads it as its bots do.
FileSound == Wired /\ OneRoutePerCell /\ OverlapWarned
=============================================================================
