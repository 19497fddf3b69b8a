--------------------------- MODULE ModuleManager ---------------------------
(***************************************************************************)
(* Loading, unloading and reloading modules: src/modulemanager.cpp,        *)
(* src/modules.cpp, src/service.cpp, src/extensible.cpp, src/cull.cpp and  *)
(* the commands of modules/core/loadmodule.cpp and reloadmodule.cpp.       *)
(*                                                                         *)
(* Every load makes an instance of the module, numbered in the order of    *)
(* creation.  An instance is shared: the map of modules, the lists of      *)
(* event handlers and the queued actions hold it, and it is destroyed when *)
(* the last of them lets go and the cull list is applied.  Only then do    *)
(* its commands leave the command table.                                   *)
(***************************************************************************)
EXTENDS Integers, Sequences, FiniteSets, SequencesExt

CONSTANTS
    File,           \* the module files
    Offers,         \* [File -> Seq(names)]: the services in the order of construction
    CommandName, ExtName, ModeName, ServiceName,
    OnlineUser,     \* the users that come and go
    ExtOrder,       \* the extensions in the order of their names
    ExtValue,       \* what an extension can hold
    Opaque,         \* the values that have no serialized form
    MaxInstance     \* bound: instances that are ever made

VARIABLES
    modules,        \* ModuleManager::Modules, 0 where the file is not loaded
    fileOf,         \* the file of each instance
    dyingMods,      \* instances that have been told to go
    registry,       \* who provides a command, extension or mode, or 0
    providers,      \* ModuleManager::Services, in the order of insertion
    reference,      \* the value of a dynamic reference to the service, or 0
    handlers,       \* EventHandlers of a hook that every module implements
    extensions,     \* the extensions of each user, by item: <<instance, name>>
    modeset,        \* the modes of each user
    online, quitting,
    queue,          \* AtomicActions
    culls,          \* GlobalCulls
    libraries,      \* instances whose DLLManager has the library open
    alive,          \* instances that are not destroyed
    step,           \* where the main loop is
    saved,          \* DataKeeper: what was saved of each user
    before,         \* history: what each user had when a reload began
    late,           \* history: instances that ran a command when already unloaded
    unmapped,       \* history: instances destroyed without their library
    taken           \* history: files whose reload found a name taken

moduleVars ==
    <<modules, fileOf, dyingMods, registry, providers, reference, handlers, extensions, modeset,
      online, quitting, queue, culls, libraries, alive, step, saved, before, late, unmapped, taken>>

loopVars == <<online, quitting, late, unmapped>>

Instance == 1..MaxInstance
Registrable == CommandName \cup ExtName \cup ModeName
Applying == {"culls", "unloadApply", "reloadApply"}

ExtsOf(f) == ExtName \cap ToSet(Offers[f])
HasCommand(f) == ToSet(Offers[f]) \cap CommandName # {}

(* The extensions exts of an object by name, as far as the instance i owns them *)
DataOf(exts, i) == [n \in {x \in ExtName : <<i, x>> \in DOMAIN exts} |-> exts[<<i, n>>]]

Omit(f, keys) == [k \in DOMAIN f \ keys |-> f[k]]
With(f, k, v) == [x \in DOMAIN f \cup {k} |-> IF x = k THEN v ELSE f[x]]

-----------------------------------------------------------------------------
ModulesInit ==
    /\ modules = [f \in File |-> 0]
    /\ fileOf = <<>>
    /\ dyingMods = {}
    /\ registry = [n \in Registrable |-> 0]
    /\ providers = [s \in ServiceName |-> <<>>]
    /\ reference = [s \in ServiceName |-> 0]
    /\ handlers = <<>>
    /\ extensions = [u \in OnlineUser |-> <<>>]
    /\ modeset = [u \in OnlineUser |-> {}]
    /\ online = {} /\ quitting = {}
    /\ queue = <<>> /\ culls = <<>>
    /\ libraries = {} /\ alive = {}
    /\ step = "events"
    /\ saved = <<>> /\ before = <<>>
    /\ late = {} /\ unmapped = {} /\ taken = {}

(* dynamic_reference_base::resolve, for every reference *)
Resolved(ps) == [s \in ServiceName |-> IF ps[s] = <<>> THEN 0 ELSE Head(ps[s])]

(* Extensible::UnhookExtensions *)
UnhookExtensions(exts, items) == Omit(exts, items)

(* ModuleManager::DoSafeUnload: modes go first, then what the extensions   *)
(* hold, then the services; the commands stay until the instance goes.     *)
DoSafeUnload(i) ==
    LET mine == {n \in Registrable : registry[n] = i}
        items == {<<i, n>> : n \in mine \cap ExtName}
    IN  /\ modeset' = [u \in OnlineUser |-> IF u \in online THEN modeset[u] \ mine ELSE modeset[u]]
        /\ extensions' =
             [u \in OnlineUser |-> IF u \in online THEN UnhookExtensions(extensions[u], items)
                                                   ELSE extensions[u]]
        /\ registry' =
             [n \in Registrable |-> IF n \in mine \ CommandName THEN 0 ELSE registry[n]]
        /\ providers' = [s \in ServiceName |-> SelectSeq(providers[s], LAMBDA j : j # i)]
        /\ reference' = Resolved(providers')
        /\ handlers' = SelectSeq(handlers, LAMBDA j : j # i)
        /\ modules' = [modules EXCEPT ![fileOf[i]] = 0]

(* The services that AddServices registers before the first that is taken *)
Fitting(f) ==
    LET refused == {k \in DOMAIN Offers[f] : /\ Offers[f][k] \in Registrable
                                             /\ registry[Offers[f][k]] # 0}
    IN  {k \in DOMAIN Offers[f] : \A r \in refused : k < r}

(* ModuleManager::Load in which the new instance stays *)
LoadDone(f) ==
    LET i == Len(fileOf) + 1 IN
    /\ i \in Instance
    /\ modules[f] = 0
    /\ Fitting(f) = DOMAIN Offers[f]
    /\ fileOf' = Append(fileOf, f)
    /\ modules' = [modules EXCEPT ![f] = i]
    /\ handlers' = Append(handlers, i)
    /\ registry' = [n \in Registrable |-> IF n \in ToSet(Offers[f]) THEN i ELSE registry[n]]
    /\ providers' =
         [s \in ServiceName |-> IF s \in ToSet(Offers[f]) THEN Append(providers[s], i)
                                                          ELSE providers[s]]
    /\ reference' = Resolved(providers')
    /\ libraries' = libraries \cup {i}
    /\ alive' = alive \cup {i}

(* ModuleManager::Load in which a service is refused or init() or          *)
(* ReadConfig() throws: DoSafeUnload undoes the registrations, the library *)
(* is culled and then the instance, which was the last to be held here.    *)
LoadThrows(f) ==
    LET i == Len(fileOf) + 1 IN
    /\ i \in Instance
    /\ modules[f] = 0
    /\ fileOf' = Append(fileOf, f)
    /\ registry' =
         [n \in Registrable |-> IF n \in CommandName /\ \E k \in Fitting(f) : Offers[f][k] = n
                               THEN i ELSE registry[n]]
    /\ libraries' = libraries \cup {i}
    /\ alive' = alive \cup {i}
    /\ UNCHANGED <<modules, handlers, providers, reference>>

FailedCulls(i) == << <<"library", i>>, <<"module", i>> >>

-----------------------------------------------------------------------------
(* What happens while the socket engine dispatches events *)

(* CommandLoadmodule::Handle *)
CommandLoadmodule(f) ==
    /\ step = "events"
    /\ \/ LoadDone(f) /\ UNCHANGED culls
       \/ LoadThrows(f) /\ culls' = culls \o FailedCulls(Len(fileOf'))
    /\ UNCHANGED <<dyingMods, extensions, modeset, queue, step, saved, before, taken, loopVars>>

(* CommandUnloadmodule::Handle and CommandReloadmodule::Handle: CanUnload  *)
(* marks the instance, which the action then holds.                        *)
QueueAction(op, f) ==
    /\ step = "events"
    /\ modules[f] # 0 /\ modules[f] \notin dyingMods
    /\ dyingMods' = dyingMods \cup {modules[f]}
    /\ queue' = Append(queue, <<op, modules[f]>>)
    /\ UNCHANGED <<modules, fileOf, registry, providers, reference, handlers, extensions, modeset,
                   culls, libraries, alive, step, saved, before, taken, loopVars>>

(* Code of the instance i sets or unsets an extension of its own on u *)
SetExtension(i, u) ==
    /\ \E n \in ExtsOf(fileOf[i]) :
          \/ \E v \in ExtValue : extensions' = [extensions EXCEPT ![u] = With(@, <<i, n>>, v)]
          \/ extensions' = [extensions EXCEPT ![u] = Omit(@, {<<i, n>>})]
    /\ UNCHANGED <<modules, fileOf, dyingMods, registry, providers, reference, handlers, modeset,
                   queue, culls, libraries, alive, step, saved, before, taken, online, quitting,
                   unmapped>>

(* CommandParser::ProcessCommand finds the handler by name alone *)
ProcessCommand(c, u) ==
    /\ step = "events"
    /\ u \in online
    /\ registry[c] # 0
    /\ SetExtension(registry[c], u)
    /\ late' = IF modules[fileOf[registry[c]]] = registry[c] THEN late ELSE late \cup {registry[c]}

(* FOREACH_MOD passes over modules that are dying *)
ForEachMod(i, u) ==
    /\ step = "events"
    /\ u \in online
    /\ i \in ToSet(handlers) \ dyingMods
    /\ SetExtension(i, u)
    /\ UNCHANGED late

ChangeMode(m, u) ==
    /\ step = "events"
    /\ u \in online
    /\ registry[m] # 0
    /\ \E on \in {{}, {m}} : modeset' = [modeset EXCEPT ![u] = (@ \ {m}) \cup on]
    /\ UNCHANGED <<modules, fileOf, dyingMods, registry, providers, reference, handlers, extensions,
                   queue, culls, libraries, alive, step, saved, before, taken, loopVars>>

UserComes(u) ==
    /\ step = "events"
    /\ u \notin online \cup quitting
    /\ online' = online \cup {u}
    /\ UNCHANGED <<modules, fileOf, dyingMods, registry, providers, reference, handlers, extensions,
                   modeset, queue, culls, libraries, alive, step, saved, taken, quitting, before,
                   late, unmapped>>

UserQuits(u) ==
    /\ step = "events"
    /\ u \in online
    /\ online' = online \ {u}
    /\ quitting' = quitting \cup {u}
    /\ UNCHANGED <<modules, fileOf, dyingMods, registry, providers, reference, handlers, extensions,
                   modeset, queue, culls, libraries, alive, step, saved, taken, before, late, unmapped>>

-----------------------------------------------------------------------------
(* CullList::Apply.  Users that quit free their extensions before anything *)
(* of the list is deleted.                                                 *)
ApplyGlobalCulls ==
    /\ step = "events"
    /\ step' = "culls"
    /\ quitting' = {}
    /\ extensions' = [u \in OnlineUser |-> IF u \in quitting THEN <<>> ELSE extensions[u]]
    /\ modeset' = [u \in OnlineUser |-> IF u \in quitting THEN {} ELSE modeset[u]]
    /\ UNCHANGED <<modules, fileOf, dyingMods, registry, providers, reference, handlers, queue, culls,
                   libraries, alive, saved, taken, online, before, late, unmapped>>

Mapped(f) == \E j \in libraries : fileOf[j] = f

(* CommandParser::RemoveCommand, for each command of the instance i, and without it *)
RemoveCommandsMutant(i) == registry
RemoveCommands(i) ==
    [n \in Registrable |-> IF n \in CommandName /\ registry[n] = i THEN 0 ELSE registry[n]]

(* The next deletion of Apply.  An action lets go of its instance, which   *)
(* is then culled in turn; Module::Cull puts the library after the module, *)
(* unless it is already on the list.                                       *)
DeleteCulled ==
    /\ step \in Applying
    /\ culls # <<>>
    /\ LET kind == Head(culls)[1]
           i == Head(culls)[2]
       IN  \/ /\ kind = "action"
              /\ culls' = Append(Tail(culls), <<"module", i>>)
              /\ UNCHANGED <<registry, libraries, alive, unmapped>>
           \/ /\ kind = "module"
              /\ culls' = IF i \in libraries THEN Append(Tail(culls), <<"library", i>>) ELSE Tail(culls)
              /\ alive' = alive \ {i}
              /\ registry' = RemoveCommands(i)
              /\ unmapped' = IF Mapped(fileOf[i]) THEN unmapped ELSE unmapped \cup {i}
              /\ UNCHANGED libraries
           \/ /\ kind = "library"
              /\ culls' = Tail(culls)
              /\ libraries' = libraries \ {i}
              /\ UNCHANGED <<registry, alive, unmapped>>
    /\ UNCHANGED <<modules, fileOf, dyingMods, providers, reference, handlers, extensions, modeset,
                   queue, step, saved, taken, online, quitting, before, late>>

(* The list is empty: the main loop, UnloadAction or ReloadAction goes on *)
ApplyDone ==
    /\ step \in Applying
    /\ culls = <<>>
    /\ \/ step = "culls" /\ step' = "actions" /\ UNCHANGED <<culls, queue>>
       \/ /\ step = "unloadApply" /\ step' = "actions"
          /\ culls' = << <<"action", Head(queue)[2]>> >>
          /\ queue' = Tail(queue)
       \/ step = "reloadApply" /\ step' = "reloadLoad" /\ UNCHANGED <<culls, queue>>
    /\ UNCHANGED <<modules, fileOf, dyingMods, registry, providers, reference, handlers, extensions,
                   modeset, libraries, alive, saved, before, taken, loopVars>>

-----------------------------------------------------------------------------
(* AtomicActions.Run *)

ActionsDone ==
    /\ step = "actions"
    /\ queue = <<>>
    /\ step' = "events"
    /\ UNCHANGED <<modules, fileOf, dyingMods, registry, providers, reference, handlers, extensions,
                   modeset, queue, culls, libraries, alive, saved, before, taken, loopVars>>

(* UnloadAction::Call, up to its GlobalCulls.Apply *)
UnloadAction ==
    /\ step = "actions"
    /\ queue # <<>> /\ Head(queue)[1] = "unload"
    /\ DoSafeUnload(Head(queue)[2])
    /\ step' = "unloadApply"
    /\ UNCHANGED <<fileOf, dyingMods, queue, culls, libraries, alive, saved, before, taken, loopVars>>

(* DataKeeper::handledexts, in the order of the map of extensions *)
HandledExts(f) == SelectSeq(ExtOrder, LAMBDA n : n \in ExtsOf(f))

(* DataKeeper::SaveExtensions: the values that have a serialized form, in  *)
(* order; the position stored with each is that of the first extension.    *)
SaveExtensions(u, i) ==
    LET set == SelectSeq(HandledExts(fileOf[i]),
                         LAMBDA n : /\ <<i, n>> \in DOMAIN extensions[u]
                                    /\ extensions[u][<<i, n>>] \notin Opaque)
    IN  [k \in DOMAIN set |-> [index |-> 1, value |-> extensions[u][<<i, set[k]>>]]]

(* DataKeeper::RestoreExtensions for the instance i *)
RestoreExtensions(u, i, list) ==
    FoldLeft(LAMBDA exts, d : With(exts, <<i, HandledExts(fileOf[i])[d.index]>>, d.value),
             extensions[u], list)

(* ReloadAction::Call, up to its GlobalCulls.Apply *)
ReloadAction ==
    /\ step = "actions"
    /\ queue # <<>> /\ Head(queue)[1] = "reload"
    /\ LET i == Head(queue)[2] IN
         /\ saved' = [u \in online |-> [modes |-> {m \in modeset[u] : registry[m] = i},
                                        exts |-> SaveExtensions(u, i)]]
         /\ before' = [u \in online |-> [modes |-> modeset[u], data |-> DataOf(extensions[u], i)]]
         /\ DoSafeUnload(i)
    /\ step' = "reloadApply"
    /\ UNCHANGED <<fileOf, dyingMods, queue, culls, libraries, alive, taken, online, quitting, late,
                   unmapped>>

(* The rest of ReloadAction::Call when the file cannot be loaded: it is    *)
(* missing or no module, or Load throws.  DataKeeper::Fail restores        *)
(* nothing of the users.                                                   *)
ReloadFails ==
    /\ step = "reloadLoad"
    /\ LET i == Head(queue)[2]
           f == fileOf[i]
       IN  \/ /\ culls' = << <<"action", i>> >>
              /\ UNCHANGED <<taken, fileOf, modules, handlers, registry, providers, reference, libraries, alive>>
           \/ /\ LoadThrows(f)
              /\ culls' = FailedCulls(Len(fileOf')) \o << <<"action", i>> >>
              /\ taken' = IF Fitting(f) = DOMAIN Offers[f] THEN taken ELSE taken \cup {f}
    /\ queue' = Tail(queue)
    /\ step' = "actions"
    /\ saved' = <<>> /\ before' = <<>>
    /\ UNCHANGED <<dyingMods, extensions, modeset, loopVars>>

ReloadLoads ==
    /\ step = "reloadLoad"
    /\ LoadDone(fileOf[Head(queue)[2]])
    /\ step' = "restore"
    /\ UNCHANGED <<dyingMods, extensions, modeset, queue, culls, saved, before, taken, loopVars>>

(* DataKeeper::RestoreModes adds the modes that were saved to those that   *)
(* the user has, or forgets them.                                          *)
RestoreModesMutant(u, list) == modeset[u]
RestoreModes(u, list) == modeset[u] \cup list

(* DataKeeper::Restore for the users that are still there *)
Restore ==
    /\ step = "restore"
    /\ LET i == modules[fileOf[Head(queue)[2]]] IN
         /\ extensions' =
              [u \in OnlineUser |-> IF u \in online THEN RestoreExtensions(u, i, saved[u].exts)
                                                     ELSE extensions[u]]
         /\ modeset' = [u \in OnlineUser |-> IF u \in online THEN RestoreModes(u, saved[u].modes)
                                                              ELSE modeset[u]]
    /\ culls' = << <<"action", Head(queue)[2]>> >>
    /\ queue' = Tail(queue)
    /\ step' = "actions"
    /\ saved' = <<>> /\ before' = <<>>
    /\ UNCHANGED <<modules, fileOf, dyingMods, registry, providers, reference, handlers, libraries, alive,
                   taken, loopVars>>

-----------------------------------------------------------------------------
EventStep ==
    \/ \E f \in File : CommandLoadmodule(f)
    \/ \E f \in File, op \in {"unload", "reload"} : QueueAction(op, f)
    \/ \E c \in CommandName, u \in OnlineUser : ProcessCommand(c, u)
    \/ \E i \in Instance, u \in OnlineUser : ForEachMod(i, u)
    \/ \E m \in ModeName, u \in OnlineUser : ChangeMode(m, u)
    \/ \E u \in OnlineUser : UserComes(u)
    \/ \E u \in OnlineUser : UserQuits(u)

(* The main loop goes on by itself *)
LoopStep ==
    \/ ApplyGlobalCulls
    \/ DeleteCulled
    \/ ApplyDone
    \/ ActionsDone
    \/ UnloadAction
    \/ ReloadAction
    \/ ReloadFails
    \/ ReloadLoads
    \/ Restore

ModulesNext == EventStep \/ LoopStep

ModulesSpec == ModulesInit /\ [][ModulesNext]_moduleVars

-----------------------------------------------------------------------------
ModulesTypeOK ==
    /\ modules \in [File -> 0..MaxInstance]
    /\ fileOf \in Seq(File) /\ Len(fileOf) <= MaxInstance
    /\ dyingMods \subseteq Instance /\ libraries \subseteq Instance /\ alive \subseteq Instance
    /\ registry \in [Registrable -> 0..MaxInstance]
    /\ reference \in [ServiceName -> 0..MaxInstance]
    /\ modeset \in [OnlineUser -> SUBSET ModeName]
    /\ online \cap quitting = {}

IsLoaded(i) == modules[fileOf[i]] = i

(* What is loaded is registered as a whole and what is registered is       *)
(* loaded: DoSafeUnload and the failure path of Load leave no extension,   *)
(* mode, service, reference or event handler of an instance behind, and no *)
(* mode set that nobody handles; a reference is to the first provider.     *)
RegistriesCurrent ==
    /\ \A n \in ExtName \cup ModeName : registry[n] # 0 => IsLoaded(registry[n])
    /\ \A s \in ServiceName : \A i \in ToSet(providers[s]) : IsLoaded(i)
    /\ reference = Resolved(providers)
    /\ ToSet(handlers) = {modules[f] : f \in File} \ {0}
    /\ \A f \in File : modules[f] # 0 =>
          /\ \A n \in ToSet(Offers[f]) \cap Registrable : registry[n] = modules[f]
          /\ \A s \in ToSet(Offers[f]) \cap ServiceName : modules[f] \in ToSet(providers[s])
    /\ \A u \in online : \A m \in modeset[u] : registry[m] # 0

(* A destroyed instance is not reachable: not by a command, an action, an  *)
(* event or a user's extensions, unless a command of it ran in the loop    *)
(* between its unloading and its destruction and left data behind.         *)
NothingDangles ==
    /\ \A c \in CommandName : registry[c] # 0 => registry[c] \in alive
    /\ \A f \in File : modules[f] # 0 => modules[f] \in alive \cap libraries
    /\ \A k \in DOMAIN queue : queue[k][2] \in alive
    /\ \A u \in online \cup quitting : \A item \in DOMAIN extensions[u] :
          item[1] \in alive \cup late

(* The code of an instance is still mapped when the instance is destroyed, *)
(* save for instances that never were loaded because Load threw.           *)
CodeOutlivesModule == \A i \in unmapped : i \notin dyingMods

(* A reload never finds a name taken of a module that has no commands:     *)
(* its old instance has given up all of them before the new one asks.      *)
PlainReloads == \A f \in File : HasCommand(f) \/ f \notin taken

(* CullList and AtomicActions: modules are kept as long as they are used   *)
(* and then leave as a whole (RegistriesCurrent, NothingDangles,           *)
(* CodeOutlivesModule, PlainReloads).                                      *)
ModulesKept ==
    ModulesTypeOK /\ RegistriesCurrent /\ NothingDangles /\ CodeOutlivesModule /\ PlainReloads

(* A reload that finds the file in order brings the module back unless it  *)
(* has commands, and gives the users that are still there the modes of the *)
(* module and, if the module has a single extension, the data that can be  *)
(* serialized.                                                             *)
ReloadKeepsData ==
    [][step = "restore" /\ step' = "actions" =>
         LET i == modules[fileOf[Head(queue)[2]]]
             f == fileOf[i]
             opaque(u) == {n \in DOMAIN before[u].data : before[u].data[n] \in Opaque}
         IN  \A u \in online :
               /\ modeset'[u] = before[u].modes
               /\ Cardinality(ExtsOf(f)) = 1 =>
                    DataOf(extensions'[u], i) = Omit(before[u].data, opaque(u))]_moduleVars

(* docs/conf/help.example.conf:720, of RELOADMODULE: "Unloads and reloads  *)
(* a module on the local server."  No name that the new instance offers is *)
(* still taken by the one it replaces.                                     *)
ReloadFindsItsNamesFree == \A f \in File : f \notin taken
=============================================================================
