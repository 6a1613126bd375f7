--------------------------- MODULE EngineSession ---------------------------
(***************************************************************************)
(* A TUI and the AudioEngine, which edit the audio graph together: the TUI *)
(* thread puts commands into one queue, the engine applies them between    *)
(* two buffers and puts lists for the TUI into the other one.  graphs[0]   *)
(* is the engine's graph and graphs[k] that of the instrument with id k.   *)
(* Only a module of type "filter" has ports whose names can be typed.      *)
(* A scope is a number that was typed: the id of an instrument or only the *)
(* first digit of one, which is taken as well.                             *)
(***************************************************************************)
EXTENDS AudioGraph, FiniteSets

CONSTANTS
  Ids,            (* ids of modules, and first digits of ids              *)
  FirstGraph,     (* the engine's graph when the TUI starts               *)
  FirstType,      (* types of its modules                                 *)
  FirstId,        (* the next id that ModuleFactory gives                 *)
  TypedIds,       (* ids that are typed after delete                      *)
  TypedPairs,     (* pairs of ids typed after connect and disconnect      *)
  CommandRoom,    (* items a queue holds: 1023                            *)
  EventRoom,
  MaxTyped        (* bound: commands typed                                *)

(***************************************************************************)
(* Names are compared by the digits of the id that they contain.           *)
(***************************************************************************)
Width(k) == IF k < 10 THEN 10 ELSE 100
NameContains(m, k) ==
  \E shift \in {1, 10} : m \div shift > 0 /\ (m \div shift) % Width(k) = k

(* "instrument_" and the digits of k are found in "instrument_" and m.     *)
StartsWith(m, k) == k > 0 /\ k \in {m, m \div 10}

GraphType ==
  [modules : Seq(Ids), connections : Seq(Ids \X Ids), links : Seq(Ids \X Ids), order : Seq(Ids)]

(* AudioEngine puts its graph together by addModule and connect: nothing   *)
(* is in it twice, and every connection carries the signal.                *)
PutTogether(g) ==
  /\ g \in GraphType
  /\ IsInjective(g.modules)
  /\ \A m \in ToSet(g.modules) : m < FirstId
  /\ \A c \in ToSet(g.connections) :
       Count(g.connections, c) = 1 /\ HasModule(g, c[1]) /\ HasModule(g, c[2])
  /\ g.links = g.connections
  /\ g = UpdateExecutionOrder(g)

ASSUME EngineSessionAssumption ==
  /\ Ids \subseteq 1 .. 99
  /\ FirstId \in 10 .. 99   \* new ids have two digits: none contains another
  /\ {FirstId + i : i \in 0 .. MaxTyped} \subseteq Ids
  /\ \A m \in Ids : m \div 10 \in {0} \cup Ids
  /\ PutTogether(FirstGraph)
  /\ FirstType \in [ToSet(FirstGraph.modules) -> {"filter", "other"}]
  /\ TypedIds \subseteq Ids
  /\ TypedPairs \subseteq Ids \X Ids
  /\ CommandRoom \in Nat \ {0}
  /\ EventRoom \in Nat \ {0}
  /\ MaxTyped \in Nat

VARIABLES
  graphs,      (* by scope                                                *)
  type,        (* of each module that was ever made, by id                *)
  nextId,      (* of ModuleFactory                                        *)
  terminated,  (* an exception or an invalid cast has ended the engine    *)
  commands,    (* the two queues                                          *)
  events,
  scopesList,  (* of the TUI                                              *)
  shown,       (* modules of the last list of modules                     *)
  widget,      (* ConnectionWidget: its names and its connections         *)
  typed,       (* commands typed so far                                   *)
  refused,     (* history: a full queue refused something                 *)
  doubled,     (* history: pairs that were connected twice at a time      *)
  hasty        (* history: a scope was entered before the lists had come, *)
               (* or from inside another scope                            *)

engineVars == <<graphs, type, nextId, terminated, doubled>>
tuiVars == <<scopesList, shown, widget, typed, hasty>>
sessionVars == <<engineVars, commands, events, tuiVars, refused>>

Scopes == {0} \cup Ids
Scope == Last(scopesList)

(* TUI::init has asked for both lists.                                     *)
SessionInit ==
  /\ graphs = [k \in Scopes |-> IF k = 0 THEN FirstGraph ELSE EmptyGraph]
  /\ type = FirstType
  /\ nextId = FirstId
  /\ terminated = FALSE
  /\ commands = << [kind |-> "modules", scope |-> 0], [kind |-> "connections", scope |-> 0] >>
  /\ events = << >>
  /\ scopesList = <<0>>
  /\ shown = {}
  /\ widget = [names |-> {}, connections |-> << >>]
  /\ typed = 0
  /\ refused = FALSE
  /\ doubled = {}
  /\ hasty = FALSE

-----------------------------------------------------------------------------
(* Producer::push: whether the queue took the item is not looked at.       *)
Pushed(queue, room, items) ==
  IF Len(queue) + Len(items) <= room
  THEN queue \o items
  ELSE queue \o SubSeq(items, 1, room - Len(queue))

Push(items) ==
  /\ commands' = Pushed(commands, CommandRoom, items)
  /\ refused' = (refused \/ Len(commands) + Len(items) > CommandRoom)

Emit(items) ==
  /\ events' = Pushed(events, EventRoom, items)
  /\ refused' = (refused \/ Len(events) + Len(items) > EventRoom)

(* getScopedAudioGraph: that of the first instrument of the engine's graph *)
(* that k stands for, or else the engine's graph itself.                   *)
ScopedInstruments(gs, ty, k) ==
  Keep(gs[0].modules,
       {m \in ToSet(gs[0].modules) : ty[m] = "instrument" /\ StartsWith(m, k)})

ScopedGraph(gs, ty, k) ==
  LET named == ScopedInstruments(gs, ty, k)
  IN  IF named = << >> THEN 0 ELSE Head(named)

(* getScopedParams looks for the digits in all names, takes every module   *)
(* that has them for an instrument, and lists what all of those hold.      *)
ScopedModules(gs, k) ==
  IF k = 0 THEN ToSet(gs[0].modules)
  ELSE UNION {ToSet(gs[m].modules) : m \in {n \in ToSet(gs[0].modules) : NameContains(n, k)}}

(* Its static_cast of a module that is no instrument: undefined behaviour. *)
CastsOther(gs, ty, k) ==
  k # 0 /\ \E m \in ToSet(gs[0].modules) : NameContains(m, k) /\ ty[m] # "instrument"

ModuleList(gs, k) == [kind |-> "modules", modules |-> ScopedModules(gs, k)]

(* getConnectionInfos finds its graph as getScopedAudioGraph does.         *)
ListedConnections(gs, ty, k) == gs[ScopedGraph(gs, ty, k)].connections

ConnectionList(gs, ty, k) ==
  [kind |-> "connections", names |-> ScopedModules(gs, k),
   connections |-> ListedConnections(gs, ty, k)]

BothLists(gs, ty, k) == <<ModuleList(gs, k), ConnectionList(gs, ty, k)>>
OnlyModules(gs, ty, k) == <<ModuleList(gs, k)>>  \* mutant: the connections are not told
ListsOf(gs, ty, k) == BothLists(gs, ty, k)

(* The answer to a command: what is read from a module that is no          *)
(* instrument ends the engine or happens to be empty.                      *)
Answer(k, lists) ==
  /\ terminated' \in {FALSE, CastsOther(graphs', type', k)}
  /\ IF terminated' THEN UNCHANGED <<events, refused>> ELSE Emit(lists)

IsInstrument(m) == type[m] = "instrument"

-----------------------------------------------------------------------------
(* The commands, applied by the engine.                                    *)
CreateModule(c) ==
  LET k == ScopedGraph(graphs, type, c.scope)
  IN  /\ graphs' = [graphs EXCEPT ![k] = AddModule(@, nextId)]
      /\ type' = [m \in DOMAIN type \cup {nextId} |->
                    IF m = nextId THEN c.type ELSE type[m]]
      /\ nextId' = nextId + 1
      /\ Answer(c.scope, ListsOf(graphs', type', c.scope))
      /\ UNCHANGED doubled

(* The modules of a graph whose names contain an id.                       *)
Named(k, id) == Keep(graphs[k].modules, {m \in Ids : NameContains(m, id)})

(* The first of them; its graph goes with it.                              *)
DeleteModule(c) ==
  LET k == ScopedGraph(graphs, type, c.scope)
      named == Named(k, c.id)
  IN  /\ UNCHANGED <<type, nextId, doubled>>
      /\ IF named = << >>
         THEN UNCHANGED <<graphs, terminated, events, refused>>
         ELSE /\ graphs' = [graphs EXCEPT ![k] = RemoveModule(@, Head(named)),
                                          ![Head(named)] = EmptyGraph]
              /\ Answer(c.scope, ListsOf(graphs', type', c.scope))

(* createConnection and removeConnection: of the modules whose names       *)
(* contain the id, the last one decides, even if it has no such port.      *)
PortNamed(k, id) ==
  LET named == Named(k, id)
  IN  IF named # << >> /\ type[Last(named)] = "filter" THEN {Last(named)} ELSE {}

PairsNamed(k, pair) == PortNamed(k, pair[1]) \X PortNamed(k, pair[2])

ConnectTold(c) == Answer(c.scope, <<ConnectionList(graphs', type', c.scope)>>)

CreateConnection(c) ==
  LET k == ScopedGraph(graphs, type, c.scope)
      pairs == PairsNamed(k, c.pair)
  IN  /\ UNCHANGED <<type, nextId>>
      /\ IF pairs = {}
         THEN UNCHANGED <<graphs, doubled>>
         ELSE \E p \in pairs :
                /\ graphs' = [graphs EXCEPT ![k] = Connect(@, p)]
                /\ doubled' = IF HasConnection(graphs[k], p) THEN doubled \cup {p} ELSE doubled
      /\ ConnectTold(c)

(* Nothing catches the exception of a connection that does not exist.      *)
RemoveConnection(c) ==
  LET k == ScopedGraph(graphs, type, c.scope)
      pairs == PairsNamed(k, c.pair)
  IN  /\ UNCHANGED <<type, nextId, doubled>>
      /\ IF \E p \in pairs : ~ HasConnection(graphs[k], p)
         THEN terminated' = TRUE /\ UNCHANGED <<graphs, events, refused>>
         ELSE /\ graphs' = [graphs EXCEPT ![k] =
                              IF pairs = {} THEN @ ELSE Disconnect(@, CHOOSE p \in pairs : TRUE)]
              /\ ConnectTold(c)

(* GetModuleList and GetConnectionList.                                    *)
ListScope(c, lists) == UNCHANGED <<graphs, type, nextId, doubled>> /\ Answer(c.scope, lists)

(* AudioEngine::start, processAll: one command.                            *)
Apply(c) ==
  CASE c.kind = "create" -> CreateModule(c)
    [] c.kind = "delete" -> DeleteModule(c)
    [] c.kind = "connect" -> CreateConnection(c)
    [] c.kind = "disconnect" -> RemoveConnection(c)
    [] c.kind = "modules" -> ListScope(c, <<ModuleList(graphs, c.scope)>>)
    [] c.kind = "connections" -> ListScope(c, <<ConnectionList(graphs, type, c.scope)>>)

EngineApplies ==
  /\ ~ terminated
  /\ commands # << >>
  /\ Apply(Head(commands))
  /\ commands' = Tail(commands)
  /\ UNCHANGED tuiVars

-----------------------------------------------------------------------------
(* TUI::commandHandler.                                                    *)
Typed ==
  {[kind |-> "create", type |-> t, scope |-> Scope] : t \in {"filter", "instrument"}}
    \cup {[kind |-> "delete", id |-> i, scope |-> Scope] : i \in TypedIds}
    \cup {[kind |-> k, pair |-> p, scope |-> Scope] :
            k \in {"connect", "disconnect"}, p \in TypedPairs}

TypesOne == typed < MaxTyped /\ typed' = typed + 1

TypeCommand ==
  /\ TypesOne
  /\ \E c \in Typed : Push(<<c>>)
  /\ UNCHANGED <<engineVars, events, scopesList, shown, widget, hasty>>

Ask(k) == Push(<< [kind |-> "modules", scope |-> k], [kind |-> "connections", scope |-> k] >>)

AskOld(k) == Ask(Scope)  \* mutant: the scope before this one
AskFor(k) == Ask(k)

UpToDate == commands = << >> /\ events = << >>

(* enter: of the names in the widget, one has to contain "instrument_" and *)
(* what was typed.                                                         *)
TypeEnter ==
  /\ TypesOne
  /\ \E m \in widget.names : IsInstrument(m) /\ \E k \in Ids :
       /\ StartsWith(m, k)
       /\ scopesList' = Append(scopesList, k)
       /\ AskFor(k)
  /\ hasty' = (hasty \/ ~ UpToDate \/ Scope # 0)
  /\ UNCHANGED <<engineVars, events, shown, widget>>

TypeExit ==
  /\ TypesOne
  /\ Len(scopesList) > 1
  /\ scopesList' = Front(scopesList)
  /\ AskFor(Last(scopesList'))
  /\ UNCHANGED <<engineVars, events, shown, widget, hasty>>

(* TUI::processEvents: one event.                                          *)
HandleEvent ==
  /\ events # << >>
  /\ LET e == Head(events)
     IN  IF e.kind = "modules"
         THEN shown' = e.modules /\ UNCHANGED widget
         ELSE /\ widget' = [names |-> e.names, connections |-> e.connections]
              /\ UNCHANGED shown
  /\ events' = Tail(events)
  /\ UNCHANGED <<engineVars, commands, scopesList, typed, refused, hasty>>

SessionNext == EngineApplies \/ TypeCommand \/ TypeEnter \/ TypeExit \/ HandleEvent

SessionSpec == SessionInit /\ [][SessionNext]_sessionVars

-----------------------------------------------------------------------------
(* Every module is in one graph at most, an instrument has a graph only    *)
(* while it is a module of one, and the queues keep their bounds.          *)
SessionTypeOK ==
  /\ graphs \in [Scopes -> GraphType]
  /\ \A m \in Ids : Cardinality({k \in Scopes : HasModule(graphs[k], m)}) <= 1
  /\ \A k \in Ids : graphs[k] # EmptyGraph =>
       k \in DOMAIN type /\ IsInstrument(k) /\ HasModule(graphs[0], k)
  /\ Len(commands) <= CommandRoom
  /\ Len(events) <= EventRoom
  /\ terminated \in BOOLEAN
  /\ scopesList \in Seq(Scopes)
  /\ shown \subseteq Ids /\ widget.names \subseteq Ids

(***************************************************************************)
(* Whatever is added, removed and connected in whatever sequence, the      *)
(* execution order of every graph keeps what AudioGraph.hpp promises: each *)
(* module after those that feed it; a cycle stops the whole graph.         *)
(***************************************************************************)
OrdersAreSound == \A k \in Scopes : OrderIsSound(graphs[k])

(***************************************************************************)
(* A module of a graph sends its signal along connections that are listed  *)
(* and, since removeModule disconnects no port, to modules that have been  *)
(* deleted: never to a module of its own or another graph that the list    *)
(* does not name, nor to one that is yet to come.                          *)
(***************************************************************************)
IsDeleted(m) == m < nextId /\ \A k \in Scopes : ~ HasModule(graphs[k], m)

SignalsAreListed == \A k \in Scopes : \A l \in UnlistedLinks(graphs[k]) : IsDeleted(l[2])

(***************************************************************************)
(* A connection that is listed carries the signal, unless the same two     *)
(* ports were once connected twice at a time: removing one of the two then *)
(* cuts both, while the other one stays in the list.                       *)
(***************************************************************************)
ListedCarriesSignal ==
  \A k \in Scopes : \A c \in ToSet(graphs[k].connections) :
    c \notin doubled => c \in ToSet(graphs[k].links)

(* Lists and ports tell the same, but for the links to deleted modules.    *)
SignalsFollowList == SignalsAreListed /\ ListedCarriesSignal

(***************************************************************************)
(* When everything typed has been applied and shown, the TUI shows the     *)
(* modules and the connections of the scope it is in, although commands    *)
(* and lists of other scopes were still under way when it changed scope,   *)
(* and a command that fails tells nothing.  Not so when a queue was full,  *)
(* when the engine has ended, or in a scope whose list is undefined.       *)
(***************************************************************************)
ShownIsCurrent ==
  UpToDate /\ ~ refused /\ ~ terminated /\ ~ CastsOther(graphs, type, Scope) =>
    /\ shown = ScopedModules(graphs, Scope)
    /\ widget = [names |-> shown, connections |-> ListedConnections(graphs, type, Scope)]

(***************************************************************************)
(* What is typed in a scope goes to an instrument of the engine's graph,   *)
(* and to no other one when the scope is the id of one, although others    *)
(* are created and deleted: unless the scope was entered too early, with   *)
(* its deletion under way, or from inside another instrument, or after a   *)
(* list was lost.  In such a scope it goes to the engine's graph, unseen.  *)
(***************************************************************************)
EditedGraph == ScopedGraph(graphs, type, Scope)

ScopeIsLive ==
  Scope # 0 /\ ~ hasty /\ ~ refused /\ ~ terminated =>
    /\ EditedGraph # 0
    /\ Scope \in DOMAIN type /\ IsInstrument(Scope) => EditedGraph = Scope

(***************************************************************************)
(* The scope is the id of an instrument: the TUI answers "Scope id not     *)
(* found" to an id that is none's.  Not so: the beginning of one will do.  *)
(***************************************************************************)
ScopeIsNamed == Scope # 0 => Scope \in DOMAIN type /\ IsInstrument(Scope)

(***************************************************************************)
(* AudioGraph.hpp says of removeModule that it removes a module by its id  *)
(* and throws if the id is not found.                                      *)
(***************************************************************************)
DeletesWhatIsNamed ==
  [][\A k \in Scopes, m \in Ids :
       HasModule(graphs[k], m) /\ ~ HasModule(graphs[k]', m) =>
         Head(commands).kind = "delete" /\ Head(commands).id = m]_sessionVars
=============================================================================
