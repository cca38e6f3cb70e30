------------------------------- MODULE PM -----------------------------------
(***************************************************************************)
(* ArkApi::PluginManager (src/NewPlayerProtectionHooks.h, lines 636-1035): *)
(* the plugin folders, loaded_plugins_, and the operations that load,      *)
(* unload and hot-reload plugins.                                          *)
(*                                                                         *)
(* A plugin's folder holds <name>.dll and, when an update was dropped in,  *)
(* <name>.dll.ArkApi; a file is modelled by the version of the build it    *)
(* holds, 0 when it is absent.  An entry of loaded_plugins_ is modelled by *)
(* the version of the .dll it was loaded from (0: no entry), and alive     *)
(* says whether the plugin's code is active: Plugin_Init ran and           *)
(* Plugin_Unload has not run since.                                        *)
(*                                                                         *)
(* Console commands and the timer callback run on the game thread, so     *)
(* each of them is one step.  LoadLibrary and FreeLibrary may fail; a      *)
(* failure is a fault, and a run allows at most MaxFaults of them.  The    *)
(* clock matters only through the reload throttle: due says that           *)
(* next_reload_check_ has passed.                                          *)
(***************************************************************************)
EXTENDS Naturals

CONSTANTS
    Plugins,            \* the plugin folders under ArkApi/Plugins
    MaxVersion,         \* builds are numbered 1..MaxVersion
    BadVersions,        \* builds whose MinApiVersion exceeds API_VERSION
    MaxFaults,          \* bound on LoadLibrary / FreeLibrary failures
    AutomaticPluginReloading  \* config.json settings value

ASSUME PMAssumption ==
    /\ MaxVersion \in Nat /\ MaxFaults \in Nat
    /\ BadVersions \subseteq 1..MaxVersion
    /\ AutomaticPluginReloading \in BOOLEAN

VARIABLES
    dll,        \* version in <p>.dll, 0 if absent
    pending,    \* version in <p>.dll.ArkApi, 0 if absent
    loaded,     \* loaded_plugins_: version loaded for p, 0 if no entry
    alive,      \* Plugin_Init ran and Plugin_Unload has not run since
    started,    \* LoadAllPlugins has run
    due,        \* time(NULL) >= next_reload_check_
    faults      \* library failures so far (model bound)

vars == <<dll, pending, loaded, alive, started, due, faults>>

Versions == 1..MaxVersion
NoFault == <<>>

TypeOK ==
    /\ dll \in [Plugins -> 0..MaxVersion]
    /\ pending \in [Plugins -> 0..MaxVersion]
    /\ loaded \in [Plugins -> 0..MaxVersion]
    /\ alive \in [Plugins -> BOOLEAN]
    /\ started \in BOOLEAN /\ due \in BOOLEAN
    /\ faults \in 0..MaxFaults

(* The faults a step may suffer: none, or one library call of one plugin. *)
Faults(stages) ==
    {NoFault} \cup (IF faults < MaxFaults THEN Plugins \X stages ELSE {})

CountFault(f) == faults' = IF f = NoFault THEN faults ELSE faults + 1

(* The build a folder offers: the update if there is one. *)
Newest(p) == IF pending[p] # 0 THEN pending[p] ELSE dll[p]

(* Mutant: LoadPlugin without the MinApiVersion check. *)
LoadOKNoApiCheck(d, l, f, p) ==
    /\ d # 0
    /\ l = 0
    /\ f # <<p, "LoadLibrary">>

(* LoadPlugin on a folder whose .dll holds d, with entry l: it throws when
   the .dll is absent, the plugin is loaded, the build needs a newer API
   or LoadLibrary fails; otherwise Plugin_Init runs and the entry is added. *)
LoadOK(d, l, f, p) ==
    /\ d # 0
    /\ l = 0
    /\ d \notin BadVersions
    /\ f # <<p, "LoadLibrary">>

(* LoadAllPlugins: every folder's update is copied over its .dll and
   removed, then LoadPlugin is tried; an exception skips the folder. *)
LoadAllPlugins ==
    /\ ~started
    /\ \E f \in Faults({"LoadLibrary"}) :
        /\ dll' = [p \in Plugins |-> Newest(p)]
        /\ pending' = [p \in Plugins |-> 0]
        /\ loaded' = [p \in Plugins |->
                        IF LoadOK(Newest(p), loaded[p], f, p) THEN Newest(p) ELSE loaded[p]]
        /\ alive' = [p \in Plugins |-> alive[p] \/ LoadOK(Newest(p), loaded[p], f, p)]
        /\ CountFault(f)
    /\ started' = TRUE
    /\ UNCHANGED due

(* The plugins.load console command: LoadPlugin(p). *)
LoadPluginCmd(p) ==
    /\ started
    /\ \E f \in Faults({"LoadLibrary"}) :
        /\ LoadOK(dll[p], loaded[p], f, p)
        /\ loaded' = [loaded EXCEPT ![p] = dll[p]]
        /\ alive' = [alive EXCEPT ![p] = TRUE]
        /\ CountFault(f)
    /\ UNCHANGED <<dll, pending, started, due>>

(* The plugins.unload console command: UnloadPlugin(p).  Plugin_Unload runs
   before FreeLibrary; when FreeLibrary fails the entry stays. *)
UnloadPluginCmd(p) ==
    /\ started
    /\ loaded[p] # 0 /\ dll[p] # 0
    /\ \E f \in Faults({"FreeLibrary"}) :
        /\ alive' = [alive EXCEPT ![p] = FALSE]
        /\ loaded' = IF f = <<p, "FreeLibrary">> THEN loaded
                     ELSE [loaded EXCEPT ![p] = 0]
        /\ CountFault(f)
    /\ UNCHANGED <<dll, pending, started, due>>

(* DetectPluginChanges for one folder p under fault f: a folder with an
   update whose plugin is loaded is unloaded, its update copied over the
   .dll and removed, and the plugin loaded again; an exception ends the
   folder's turn where it is thrown. *)
(* Mutant: a folder is reloaded only while its plugin's code is active. *)
ReloadsLive(p) == pending[p] # 0 /\ loaded[p] # 0 /\ alive[p]

Reloads(p) == pending[p] # 0 /\ loaded[p] # 0
Freed(p, f) == Reloads(p) /\ f # <<p, "FreeLibrary">>

(* Mutant: LoadPlugin called before the update is copied over the .dll. *)
DetectPluginChangesLoadFirst(f) ==
    /\ dll' = [p \in Plugins |-> IF Freed(p, f) THEN pending[p] ELSE dll[p]]
    /\ pending' = [p \in Plugins |-> IF Freed(p, f) THEN 0 ELSE pending[p]]
    /\ loaded' = [p \in Plugins |->
                    IF ~Reloads(p) THEN loaded[p]
                    ELSE IF ~Freed(p, f) THEN loaded[p]
                    ELSE IF LoadOK(dll[p], 0, f, p) THEN dll[p] ELSE 0]
    /\ alive' = [p \in Plugins |->
                    IF ~Reloads(p) THEN alive[p]
                    ELSE Freed(p, f) /\ LoadOK(dll[p], 0, f, p)]

DetectPluginChanges(f) ==
    /\ dll' = [p \in Plugins |-> IF Freed(p, f) THEN pending[p] ELSE dll[p]]
    /\ pending' = [p \in Plugins |-> IF Freed(p, f) THEN 0 ELSE pending[p]]
    /\ loaded' = [p \in Plugins |->
                    IF ~Reloads(p) THEN loaded[p]
                    ELSE IF ~Freed(p, f) THEN loaded[p]
                    ELSE IF LoadOK(pending[p], 0, f, p) THEN pending[p] ELSE 0]
    /\ alive' = [p \in Plugins |->
                    IF ~Reloads(p) THEN alive[p]
                    ELSE Freed(p, f) /\ LoadOK(pending[p], 0, f, p)]

(* DetectPluginChangesTimerCallback: throttled by next_reload_check_. *)
DetectPluginChangesTimerCallback ==
    /\ due
    /\ due' = FALSE
    /\ \E f \in Faults({"FreeLibrary", "LoadLibrary"}) :
        DetectPluginChanges(f) /\ CountFault(f)
    /\ UNCHANGED started

(* An administrator drops a newer build into a folder as <p>.dll.ArkApi. *)
Deploy(p, v) ==
    /\ v > Newest(p)
    /\ pending' = [pending EXCEPT ![p] = v]
    /\ UNCHANGED <<dll, loaded, alive, started, due, faults>>

(* Time passes the reload throttle. *)
Tick ==
    /\ ~due
    /\ due' = TRUE
    /\ UNCHANGED <<dll, pending, loaded, alive, started, faults>>

(* The folders as the server finds them at start: an update, when there
   is one, is newer than the .dll. *)
Init ==
    /\ dll \in [Plugins -> 0..MaxVersion]
    /\ pending \in [Plugins -> 0..MaxVersion]
    /\ \A p \in Plugins : pending[p] # 0 => pending[p] > dll[p]
    /\ loaded = [p \in Plugins |-> 0]
    /\ alive = [p \in Plugins |-> FALSE]
    /\ started = FALSE
    /\ due = FALSE
    /\ faults = 0

Next ==
    \/ LoadAllPlugins
    \/ \E p \in Plugins : LoadPluginCmd(p) \/ UnloadPluginCmd(p)
    \/ DetectPluginChangesTimerCallback
    \/ \E p \in Plugins, v \in Versions : Deploy(p, v)
    \/ Tick

(* The timer fires on every game tick and time keeps going. *)
Fairness ==
    /\ WF_vars(DetectPluginChangesTimerCallback)
    /\ WF_vars(Tick)

Spec == Init /\ [][Next]_vars /\ Fairness

-----------------------------------------------------------------------------
(* Properties *)

(* The loader's promise (module PMLoader): the running version is the
   entry of loaded_plugins_, the newest build is the update if any, and a
   build is offered while an update file waits. *)
L == INSTANCE PMLoader WITH
        running <- loaded,
        newest <- [p \in Plugins |-> Newest(p)],
        offered <- [p \in Plugins |-> pending[p] # 0]

(* The plugin manager implements the loader: with no update waiting, a
   plugin starts the build in its .dll; while one waits, plugins.load may
   start the older .dll build (it does not copy the update); and a hot
   reload (DetectPluginChanges, lines 947-973) takes the update up, ending
   with the new build or nothing, never with the old one. *)
ImplementsLoader == L!ASpec

(* Once the game runs, an update dropped into the folder of a loaded
   plugin is taken up: the update file is consumed or the plugin is no
   longer loaded (DetectPluginChanges under the timer callback). *)
UpdateTakenUp ==
    \A p \in Plugins :
        pending[p] # 0 /\ loaded[p] # 0 ~> pending[p] = 0 \/ loaded[p] = 0

(* A loaded plugin runs the build its folder's .dll holds, and that build
   passed the API check: LoadPlugin loads the .dll and refuses a build
   whose MinApiVersion is too high (lines 791-827), and a hot reload
   copies the update over the .dll only after UnloadPlugin succeeded and
   before loading it again (lines 958-963). *)
RunningBuildOnDisk ==
    \A p \in Plugins :
        loaded[p] # 0 => loaded[p] = dll[p] /\ loaded[p] \notin BadVersions

(* Every entry of loaded_plugins_ is a plugin whose code is active: its
   Plugin_Unload has not run (UnloadPlugin, lines 846-855). *)
ListedPluginsAreLive == \A p \in Plugins : loaded[p] # 0 => alive[p]

(* With AutomaticPluginReloading off (config.json, read at lines 779-786),
   the timer callback reloads nothing. *)
NoReloadWhenDisabled ==
    [][~AutomaticPluginReloading /\ due /\ ~due' =>
         loaded' = loaded /\ dll' = dll]_vars

=============================================================================
