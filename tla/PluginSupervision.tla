--------------------------- MODULE PluginSupervision ---------------------------
(***************************************************************************)
(* The supervisor of external transport plugins                            *)
(* (crates/bbs-process-transport/src/manager.rs).                          *)
(*                                                                         *)
(* Three kinds of actor touch the registry of plugins, each in short       *)
(* sections under its lock: the commands of the web admin, BBS start-up,   *)
(* and one exit loop per started process, which waits for the process to   *)
(* end and may start another.  A process is started with the lock          *)
(* released, so the registry can change before its handle is stored.  Each *)
(* action is one lock section, or the start made between two of them.      *)
(*                                                                         *)
(* A handle (ProcessTransport) that is dropped or stopped tells its        *)
(* process to end; the process itself belongs to its watcher task and      *)
(* lives until it chooses to exit.                                         *)
(***************************************************************************)
EXTENDS Integers, FiniteSets

CONSTANTS
  Plugin,          \* plugin names
  Handle,          \* ProcessTransport values, each used once
  None,            \* no handle
  Admin,           \* web admin requests
  Boot,            \* ProcessPluginManager::new
  TomlAtStart,     \* [Plugin -> Saved]: [[plugins.process]] of config.toml
  DropInAtStart,   \* [Plugin -> Saved]: the files of plugins.d
  RestartOnCrash,  \* BOOLEAN: ProcessPluginConfig::restart_on_crash
  SpawnFails,      \* BOOLEAN: may the operating system refuse to start a process?
  MaxCommands      \* bound: commands issued in a behaviour

Saved == {"absent", "enabled", "disabled"}
Task  == Admin \cup {Boot}

ASSUME PluginAssumption ==
  /\ None \notin Handle
  /\ Boot \notin Admin
  /\ TomlAtStart \in [Plugin -> Saved] /\ DropInAtStart \in [Plugin -> Saved]
  /\ RestartOnCrash \in BOOLEAN /\ SpawnFails \in BOOLEAN
  /\ MaxCommands \in Nat

VARIABLES
  entry,           \* the registry: [Plugin -> Entry]
  proc,            \* what became of each handle: [Handle -> Process]
  task,            \* the command each task has under way
  unread,          \* config entries start-up has still to load: <<name, file>>
  toml, dropIn,    \* what the files hold
  issued           \* bound: commands issued so far

vars == <<entry, proc, task, unread, toml, dropIn, issued>>
files == <<toml, dropIn>>

--------------------------------------------------------------------------------
PluginState == {"absent", "Running", "Stopped", "Starting", "Crashed", "Disabled"}

Entry  == [state : PluginState, enabled : BOOLEAN, inDir : BOOLEAN,
           transport : Handle \cup {None}]
Absent == [state |-> "absent", enabled |-> FALSE, inDir |-> FALSE, transport |-> None]

Registered(p) == entry[p].state # "absent"

(* A process of a handle: "skipped" if the plugin is disabled, since start *)
(* then starts nothing; "failed" has exited with an error.  `told`: it was *)
(* asked to end.  `loop` is its exit loop, `heir` the handle that loop has *)
(* started in its place and not stored yet.                                *)
Process == [plugin : Plugin \cup {None},
            state  : {"unborn", "skipped", "alive", "exited", "failed"},
            told   : BOOLEAN,
            loop   : {"none", "watching", "delay", "store", "giveup", "done"},
            heir   : Handle \cup {None}]
Unborn == [plugin |-> None, state |-> "unborn", told |-> FALSE, loop |-> "none",
           heir |-> None]
Started(p, enabled, loop) ==
  [Unborn EXCEPT !.plugin = p, !.state = IF enabled THEN "alive" ELSE "skipped",
                 !.loop = loop]

TaskRecord == [pc : {"idle", "spawn", "store", "giveup", "unlink", "persist"},
               op : {"none", "boot", "add", "remove", "enable", "restart"},
               plugin : Plugin \cup {None}, enabled : BOOLEAN, inDir : BOOLEAN,
               transport : Handle \cup {None}]
Idle == [pc |-> "idle", op |-> "none", plugin |-> None, enabled |-> FALSE,
         inDir |-> FALSE, transport |-> None]

At(t, step)   == task[t].pc = step
Goto(t, step) == task' = [task EXCEPT ![t].pc = step]
Finish(t)     == task' = [task EXCEPT ![t] = Idle]

(* Dropping the handle x of a table of processes; None holds nothing.      *)
Drop(procs, x) ==
  [h \in Handle |-> IF h = x THEN [procs[h] EXCEPT !.told = TRUE] ELSE procs[h]]

UnusedHandles == {h \in Handle : proc[h].state = "unborn"}
NewHandle     == CHOOSE h \in Handle : h \in UnusedHandles

(* Bound: starts that are already due keep a handle in reserve, so that no *)
(* start ever waits for one.                                               *)
Due == Cardinality(unread)
       + Cardinality({t \in Task : At(t, "spawn")})
       + Cardinality({h \in Handle : proc[h].state = "failed"
                          /\ proc[h].loop \in {"none", "watching", "delay"}})
SpareHandle == Cardinality(UnusedHandles) > Due

--------------------------------------------------------------------------------
(* persist_config: both files are rewritten from the registry.             *)

SavedAs(e) == IF e.enabled THEN "enabled" ELSE "disabled"

Persist(entries) ==
  /\ toml' = [p \in Plugin |->
                IF entries[p].state # "absent" /\ ~entries[p].inDir
                THEN SavedAs(entries[p]) ELSE "absent"]
  /\ dropIn' = [p \in Plugin |->
                  IF entries[p].state # "absent" /\ entries[p].inDir
                  THEN SavedAs(entries[p]) ELSE dropIn[p]]

--------------------------------------------------------------------------------
(* Start-up: config.toml first, then plugins.d, whose entries replace      *)
(* those of the same name.                                                 *)
Load(p, inDir) ==
  /\ At(Boot, "idle") /\ <<p, inDir>> \in unread
  /\ inDir => \A other \in unread : other[2]
  /\ unread' = unread \ {<<p, inDir>>}
  /\ entry' = [entry EXCEPT ![p] = Absent]
  /\ proc' = Drop(proc, entry[p].transport)
  /\ LET saved   == IF inDir THEN DropInAtStart[p] ELSE TomlAtStart[p]
         enabled == saved = "enabled"
     IN task' = [task EXCEPT ![Boot] =
                   [Idle EXCEPT !.pc = IF enabled THEN "spawn" ELSE "store",
                                !.op = "boot", !.plugin = p, !.enabled = enabled,
                                !.inDir = inDir]]
  /\ UNCHANGED <<files, issued>>

(* A request reaches the registry once start-up is over.                   *)
Issue(t) ==
  /\ At(t, "idle") /\ t # Boot
  /\ unread = {} /\ At(Boot, "idle")
  /\ issued < MaxCommands
  /\ issued' = issued + 1
  /\ UNCHANGED unread

(* add_plugin: a Starting placeholder keeps the name.                      *)
AddPlugin(t, p, enabled) ==
  /\ Issue(t) /\ SpareHandle
  /\ ~Registered(p)
  /\ entry' = [entry EXCEPT ![p] = [Absent EXCEPT !.state = "Starting", !.inDir = TRUE,
                                                  !.enabled = enabled]]
  /\ task' = [task EXCEPT ![t] =
                [Idle EXCEPT !.pc = IF enabled THEN "spawn" ELSE "store", !.op = "add",
                             !.plugin = p, !.enabled = enabled, !.inDir = TRUE]]
  /\ UNCHANGED <<proc, files>>

(* Mutant of RemovePlugin: the handle is forgotten, not stopped.           *)
RemovePluginOnly(t, p) ==
  /\ Issue(t)
  /\ Registered(p)
  /\ entry' = [entry EXCEPT ![p] = Absent]
  /\ task' = [task EXCEPT ![t] = [Idle EXCEPT !.pc = "unlink", !.op = "remove",
                                              !.plugin = p, !.inDir = entry[p].inDir]]
  /\ UNCHANGED <<proc, files>>

(* remove_plugin: the entry goes first, its file and config later.         *)
RemovePlugin(t, p) ==
  /\ Issue(t)
  /\ Registered(p)
  /\ entry' = [entry EXCEPT ![p] = Absent]
  /\ proc' = Drop(proc, entry[p].transport)
  /\ task' = [task EXCEPT ![t] = [Idle EXCEPT !.pc = "unlink", !.op = "remove",
                                              !.plugin = p, !.inDir = entry[p].inDir]]
  /\ UNCHANGED files

(* set_enabled(true): nothing to start if a handle is stored or a start is *)
(* under way; the config on disk is then left alone too.                   *)
Enable(t, p) ==
  /\ Issue(t) /\ SpareHandle
  /\ Registered(p)
  /\ LET starts == entry[p].transport = None /\ entry[p].state # "Starting" IN
     /\ entry' = [entry EXCEPT ![p].enabled = TRUE,
                               ![p].state = IF starts THEN "Starting" ELSE @]
     /\ IF starts
        THEN task' = [task EXCEPT ![t] = [Idle EXCEPT !.pc = "spawn", !.op = "enable",
                                                      !.plugin = p, !.enabled = TRUE]]
        ELSE UNCHANGED task
  /\ UNCHANGED <<proc, files>>

(* set_enabled(false): stopped, marked and persisted in one lock section.  *)
Disable(t, p) ==
  /\ Issue(t)
  /\ Registered(p)
  /\ entry' = [entry EXCEPT ![p].enabled = FALSE, ![p].state = "Disabled",
                            ![p].transport = None]
  /\ proc' = Drop(proc, entry[p].transport)
  /\ Persist(entry')
  /\ UNCHANGED task

(* restart_plugin, whether or not the plugin is enabled.                   *)
Restart(t, p) ==
  /\ Issue(t) /\ SpareHandle
  /\ Registered(p)
  /\ entry' = [entry EXCEPT ![p].state = "Stopped", ![p].transport = None]
  /\ proc' = Drop(proc, entry[p].transport)
  /\ task' = [task EXCEPT ![t] = [Idle EXCEPT !.pc = "spawn", !.op = "restart",
                                              !.plugin = p,
                                              !.enabled = entry[p].enabled]]
  /\ UNCHANGED files

--------------------------------------------------------------------------------
(* spawn_transport: the exit loop listens before the process starts.       *)
Spawn(t) ==
  /\ At(t, "spawn")
  /\ \/ /\ UnusedHandles # {}
        /\ proc' = [proc EXCEPT ![NewHandle] =
                       Started(task[t].plugin, task[t].enabled, "watching")]
        /\ task' = [task EXCEPT ![t].pc = "store", ![t].transport = NewHandle]
     \/ SpawnFails /\ Goto(t, "giveup") /\ UNCHANGED proc
  /\ UNCHANGED <<entry, unread, files, issued>>

NewEntry(t, state) ==
  [state |-> state, enabled |-> task[t].enabled, inDir |-> task[t].inDir,
   transport |-> task[t].transport]

(* init_plugin: its insert replaces whatever the name holds by now.        *)
StoreNew(t) ==
  /\ task[t].op \in {"boot", "add"}
  /\ At(t, "store") \/ At(t, "giveup")
  /\ LET p == task[t].plugin
         state == IF At(t, "giveup") THEN "Crashed"
                  ELSE IF task[t].enabled THEN "Running" ELSE "Disabled"
     IN /\ entry' = [entry EXCEPT ![p] = NewEntry(t, state)]
        /\ proc' = Drop(proc, entry[p].transport)
  /\ IF task[t].op = "add" THEN Goto(t, "persist") ELSE Finish(t)
  /\ UNCHANGED <<unread, files, issued>>

(* set_enabled and restart_plugin after a start: the entry takes the       *)
(* handle, dropping the one it had; if it is gone the new one is dropped.  *)
StoreStarted(t) ==
  /\ task[t].op \in {"enable", "restart"} /\ At(t, "store")
  /\ LET p == task[t].plugin
         h == task[t].transport
     IN IF Registered(p)
        THEN /\ entry' = [entry EXCEPT ![p].state = "Running", ![p].transport = h]
             /\ proc' = Drop(proc, entry[p].transport)
        ELSE proc' = Drop(proc, h) /\ UNCHANGED entry
  /\ IF task[t].op = "enable" THEN Persist(entry') ELSE UNCHANGED files
  /\ Finish(t)
  /\ UNCHANGED <<unread, issued>>

(* ... and after one that failed: only the state is set.                   *)
ReportFailed(t) ==
  /\ task[t].op \in {"enable", "restart"} /\ At(t, "giveup")
  /\ LET p == task[t].plugin
         state == IF task[t].op = "enable" THEN "Stopped" ELSE "Crashed"
     IN entry' = IF Registered(p) THEN [entry EXCEPT ![p].state = state] ELSE entry
  /\ Finish(t)
  /\ UNCHANGED <<proc, unread, files, issued>>

(* Mutant of Unlink: the file is gone, nothing is left to persist.         *)
UnlinkOnly(t) ==
  /\ At(t, "unlink")
  /\ dropIn' = IF task[t].inDir THEN [dropIn EXCEPT ![task[t].plugin] = "absent"]
                                ELSE dropIn
  /\ Finish(t)
  /\ UNCHANGED <<entry, proc, unread, toml, issued>>

(* remove_plugin deletes the drop-in file, without the lock.               *)
Unlink(t) ==
  /\ At(t, "unlink")
  /\ dropIn' = IF task[t].inDir THEN [dropIn EXCEPT ![task[t].plugin] = "absent"]
                                ELSE dropIn
  /\ Goto(t, "persist")
  /\ UNCHANGED <<entry, proc, unread, toml, issued>>

PersistAll(t) ==
  /\ At(t, "persist")
  /\ Persist(entry)
  /\ Finish(t)
  /\ UNCHANGED <<entry, proc, unread, issued>>

--------------------------------------------------------------------------------
(* A process ends, asked to or not.  Its watcher reports a crash only if   *)
(* it failed and the plugin restarts on crashes.                           *)
Exit(h) ==
  /\ proc[h].state = "alive"
  /\ \/ proc' = [proc EXCEPT ![h].state = "exited"]
     \/ RestartOnCrash /\ SpareHandle /\ proc' = [proc EXCEPT ![h].state = "failed"]
  /\ UNCHANGED <<entry, task, unread, files, issued>>

(* plugin_exit_loop on ExitEvent::Stopped.  It knows the name, not the     *)
(* handle the entry holds.                                                 *)
HearStopped(h) ==
  /\ proc[h].loop = "watching" /\ proc[h].state = "exited"
  /\ LET p == proc[h].plugin IN
     IF entry[p].state = "Running"
     THEN /\ entry' = [entry EXCEPT ![p].state = "Stopped", ![p].transport = None]
          /\ proc' = [Drop(proc, entry[p].transport) EXCEPT ![h].loop = "done"]
     ELSE /\ proc' = [proc EXCEPT ![h].loop = "done"]
          /\ UNCHANGED entry
  /\ UNCHANGED <<task, unread, files, issued>>

(* On ExitEvent::Crash it sleeps ...                                       *)
HearCrash(h) ==
  /\ proc[h].loop = "watching" /\ proc[h].state = "failed"
  /\ proc' = [proc EXCEPT ![h].loop = "delay"]
  /\ UNCHANGED <<entry, task, unread, files, issued>>

(* ... reads the config by name and starts again, whatever happened since  *)
(* to the entry, unless there is none ...                                  *)
StartAgain(h) ==
  /\ proc[h].loop = "delay"
  /\ LET p == proc[h].plugin IN
     \/ /\ ~Registered(p)
        /\ proc' = [proc EXCEPT ![h].loop = "done"]
     \/ /\ Registered(p) /\ UnusedHandles # {}
        /\ proc' = [proc EXCEPT ![h].loop = "store", ![h].heir = NewHandle,
                                ![NewHandle] = Started(p, entry[p].enabled, "none")]
     \/ /\ Registered(p) /\ SpawnFails
        /\ proc' = [proc EXCEPT ![h].loop = "giveup"]
  /\ UNCHANGED <<entry, task, unread, files, issued>>

(* Mutant of StoreAgain: it goes on listening to the process that is gone. *)
StoreAgainDeaf(h) ==
  /\ proc[h].loop = "store"
  /\ LET p == proc[h].plugin
         n == proc[h].heir
     IN IF Registered(p)
        THEN /\ entry' = [entry EXCEPT ![p].state = "Running", ![p].transport = n]
             /\ proc' = [Drop(proc, entry[p].transport) EXCEPT ![h].loop = "done"]
        ELSE /\ proc' = [Drop(proc, n) EXCEPT ![h].loop = "done"]
             /\ UNCHANGED entry
  /\ UNCHANGED <<task, unread, files, issued>>

(* ... stores the new handle and goes on listening to the new process ...  *)
StoreAgain(h) ==
  /\ proc[h].loop = "store"
  /\ LET p == proc[h].plugin
         n == proc[h].heir
         dropped == IF Registered(p) THEN entry[p].transport ELSE n
     IN /\ entry' = IF Registered(p)
                    THEN [entry EXCEPT ![p].state = "Running", ![p].transport = n]
                    ELSE entry
        /\ proc' = [Drop(proc, dropped) EXCEPT ![h].loop = "done",
                                               ![n].loop = "watching"]
  /\ UNCHANGED <<task, unread, files, issued>>

(* ... or reports that it could not.                                       *)
GiveUp(h) ==
  /\ proc[h].loop = "giveup"
  /\ LET p == proc[h].plugin IN
     /\ entry' = IF Registered(p)
                 THEN [entry EXCEPT ![p].state = "Crashed", ![p].transport = None]
                 ELSE entry
     /\ proc' = [Drop(proc, entry[p].transport) EXCEPT ![h].loop = "done"]
  /\ UNCHANGED <<task, unread, files, issued>>

--------------------------------------------------------------------------------
Init ==
  /\ entry = [p \in Plugin |-> Absent]
  /\ proc = [h \in Handle |-> Unborn]
  /\ task = [t \in Task |-> Idle]
  /\ unread = {<<p, FALSE>> : p \in {q \in Plugin : TomlAtStart[q] # "absent"}}
              \cup {<<p, TRUE>> : p \in {q \in Plugin : DropInAtStart[q] # "absent"}}
  /\ toml = TomlAtStart
  /\ dropIn = DropInAtStart
  /\ issued = 0

StartUp == \E p \in Plugin, inDir \in BOOLEAN : Load(p, inDir)

Request(t, p) ==
  \/ \E enabled \in BOOLEAN : AddPlugin(t, p, enabled)
  \/ RemovePlugin(t, p) \/ Enable(t, p) \/ Disable(t, p) \/ Restart(t, p)

Work(t) == Spawn(t) \/ StoreNew(t) \/ StoreStarted(t) \/ ReportFailed(t)
           \/ Unlink(t) \/ PersistAll(t)

Listen(h) == HearStopped(h) \/ HearCrash(h) \/ StartAgain(h) \/ StoreAgain(h)
             \/ GiveUp(h)

Next ==
  \/ StartUp
  \/ \E t \in Task : (\E p \in Plugin : Request(t, p)) \/ Work(t)
  \/ \E h \in Handle : Exit(h) \/ Listen(h)

Spec == Init /\ [][Next]_vars

(* Every task that can run is run and every sleep ends; no process has to  *)
(* exit and nobody has to send a request.                                  *)
FairSpec == /\ Spec
            /\ WF_vars(StartUp)
            /\ \A t \in Task : WF_vars(Work(t))
            /\ \A h \in Handle : WF_vars(Listen(h))

--------------------------------------------------------------------------------
(* Properties.                                                             *)

(* The variables hold what the code's types allow; an absent entry holds   *)
(* nothing, and a plugin is never shown Running without a handle           *)
(* (manager.rs 615-628 clears the two together).                           *)
TypeOK ==
  /\ entry \in [Plugin -> Entry]
  /\ proc \in [Handle -> Process]
  /\ task \in [Task -> TaskRecord]
  /\ unread \subseteq Plugin \X BOOLEAN
  /\ toml \in [Plugin -> Saved] /\ dropIn \in [Plugin -> Saved]
  /\ issued \in 0 .. MaxCommands
  /\ \A p \in Plugin : /\ ~Registered(p) => entry[p] = Absent
                       /\ entry[p].state = "Running" => entry[p].transport # None

Holds(p, h)   == entry[p].transport = h /\ entry[p].state # "Disabled"
BeingStarted(h) == \/ \E t \in Task : At(t, "store") /\ task[t].transport = h
                   \/ \E g \in Handle : proc[g].loop = "store" /\ proc[g].heir = h

(* The comments of manager.rs 413-416 and 489-493 are about orphans: a     *)
(* process nobody has told to end is held by its plugin's entry, which is  *)
(* not Disabled, or by the command or exit loop that has just started it;  *)
(* whatever adds, removals, restarts and crashes overlap, no process is    *)
(* left that the registry cannot stop, and no two share an entry.          *)
NoOrphan ==
  \A h \in Handle :
    proc[h].state = "alive" /\ ~proc[h].told
      => Holds(proc[h].plugin, h) \/ BeingStarted(h)

(* A removal is for good and an addition too: once no command is under way *)
(* the files name exactly the registered plugins, so the next start loads  *)
(* those and no others (manager.rs 456-478).                               *)
FilesMatchRegistry ==
  unread = {} /\ (\A t \in Task : At(t, "idle")) =>
    \A p \in Plugin :
      Registered(p) <=> toml[p] # "absent" \/ dropIn[p] # "absent"

(* An entry that holds the handle of an ended process its exit loop has    *)
(* not dealt with yet is not left Running with it: it is stopped, its      *)
(* process is replaced, or the start fails and it says so, whatever        *)
(* commands come in between (manager.rs 605-690).                          *)
ExitIsAnswered ==
  \A p \in Plugin, h \in Handle :
    /\ entry[p].transport = h /\ entry[p].state = "Running"
    /\ proc[h].state \in {"exited", "failed"} /\ proc[h].loop # "done"
    ~> ~(entry[p].transport = h /\ entry[p].state = "Running")

================================================================================
