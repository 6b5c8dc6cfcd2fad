------------------------ MODULE PluginSupervision_proofs ------------------------
(***************************************************************************)
(* No process escapes the registry, for any number of plugins, processes,  *)
(* administrators and commands, and whichever starts fail.  NoOrphan is    *)
(* not inductive: a process is handed from the command or exit loop that   *)
(* started it to the entry of its plugin, so the invariant adds that       *)
(* whoever is about to store a handle holds one of the right plugin, and   *)
(* that no two exit loops hold the same.                                   *)
(***************************************************************************)
EXTENDS PluginSupervision, TLAPS

Born(h) == proc[h].state # "unborn"

(* Nobody listens to a handle not used yet, and one that is used has a plugin. *)
HandlesInv ==
  \A h \in Handle : /\ ~Born(h) => proc[h].loop = "none"
                    /\ Born(h) => proc[h].plugin \in Plugin

(* A command at work is about a plugin and stores a process of it; only the
   first entry of a disabled plugin is stored without one. *)
TaskFits(t) ==
  /\ ~At(t, "idle") => task[t].plugin \in Plugin
  /\ At(t, "spawn") /\ task[t].op \in {"boot", "add"} => task[t].enabled
  /\ At(t, "store") =>
       \/ /\ task[t].transport \in Handle /\ Born(task[t].transport)
          /\ proc[task[t].transport].plugin = task[t].plugin
          /\ task[t].op \in {"boot", "add"} => task[t].enabled
       \/ /\ task[t].transport = None /\ task[t].op \in {"boot", "add"}
          /\ ~task[t].enabled
TasksInv == \A t \in Task : TaskFits(t)

(* An exit loop about to store a handle has just started it, for its plugin,
   and nobody listens to it yet. *)
LoopFits(g) ==
  proc[g].loop = "store" =>
    /\ proc[g].heir \in Handle /\ Born(proc[g].heir)
    /\ proc[proc[g].heir].plugin = proc[g].plugin
    /\ proc[proc[g].heir].loop = "none"
    /\ \A h \in Handle : proc[h].loop = "store" /\ proc[h].heir = proc[g].heir => h = g
LoopsInv == \A g \in Handle : LoopFits(g)

PluginInv == TypeOK /\ HandlesInv /\ TasksInv /\ LoopsInv /\ NoOrphan

-----------------------------------------------------------------------------
LEMMA DropType ==
  ASSUME NEW procs \in [Handle -> Process], NEW x
  PROVE  /\ Drop(procs, x) \in [Handle -> Process]
         /\ \A h \in Handle :
              /\ Drop(procs, x)[h].plugin = procs[h].plugin
              /\ Drop(procs, x)[h].state = procs[h].state
              /\ Drop(procs, x)[h].loop = procs[h].loop
              /\ Drop(procs, x)[h].heir = procs[h].heir
              /\ h = x => Drop(procs, x)[h].told
              /\ h # x => Drop(procs, x)[h] = procs[h]
BY DEF Drop, Process

LEMMA NewHandleUnused ==
  ASSUME UnusedHandles # {}
  PROVE  NewHandle \in Handle /\ ~Born(NewHandle)
BY DEF UnusedHandles, NewHandle, Born

LEMMA StartedType ==
  ASSUME NEW p \in Plugin, NEW enabled \in BOOLEAN, NEW loop \in {"none", "watching"}
  PROVE  /\ Started(p, enabled, loop) \in Process
         /\ Started(p, enabled, loop).plugin = p
         /\ Started(p, enabled, loop).state # "unborn"
         /\ Started(p, enabled, loop).loop = loop
         /\ Started(p, enabled, loop).heir = None
BY DEF Started, Process, Unborn

(* What dropping a handle leaves as it was. *)
Similar == \A h \in Handle : /\ proc'[h].plugin = proc[h].plugin
                             /\ proc'[h].state = proc[h].state
                             /\ proc'[h].loop = proc[h].loop
                             /\ proc'[h].heir = proc[h].heir

LEMMA DropSimilar ==
  ASSUME TypeOK, NEW x, proc' = Drop(proc, x) \/ proc' = proc
  PROVE  /\ proc' \in [Handle -> Process] /\ Similar
         /\ \A h \in Handle : proc[h].told => proc'[h].told
         /\ proc' = Drop(proc, x) => \A h \in Handle : h = x => proc'[h].told
<1>0. proc \in [Handle -> Process] BY DEF TypeOK
<1>1. CASE proc' = Drop(proc, x) BY <1>0, <1>1, DropType DEF Similar
<1>2. CASE proc' = proc BY <1>0, <1>2, DropType DEF Similar
<1> QED BY <1>1, <1>2

LEMMA SimilarKeeps ==
  ASSUME PluginInv, Similar
  PROVE  /\ HandlesInv' /\ LoopsInv'
         /\ \A t \in Task : task'[t] = task[t] => TaskFits(t)'
<1>1. HandlesInv' BY DEF PluginInv, HandlesInv, Similar, Born
<1>2. LoopsInv'
  <2> SUFFICES ASSUME NEW g \in Handle, proc'[g].loop = "store"
               PROVE  LoopFits(g)'
    BY DEF LoopsInv, LoopFits
  <2>1. LoopFits(g) /\ proc[g].loop = "store" BY DEF PluginInv, LoopsInv, Similar
  <2>2. proc[g].heir \in Handle BY <2>1 DEF LoopFits
  <2> QED BY <2>1, <2>2 DEF LoopFits, Similar, Born
<1>3. ASSUME NEW t \in Task, task'[t] = task[t] PROVE TaskFits(t)'
  <2>1. TaskFits(t) BY DEF PluginInv, TasksInv
  <2> QED BY <1>3, <2>1 DEF TaskFits, At, Similar, Born
<1> QED BY <1>1, <1>2, <1>3

LEMMA StillBeingStarted ==
  ASSUME Similar, NEW h \in Handle, BeingStarted(h),
         \A t \in Task : At(t, "store") => task'[t] = task[t]
  PROVE  BeingStarted(h)'
<1>1. CASE \E t \in Task : At(t, "store") /\ task[t].transport = h
  BY <1>1 DEF BeingStarted, At
<1>2. CASE \E g \in Handle : proc[g].loop = "store" /\ proc[g].heir = h
  BY <1>2 DEF BeingStarted, Similar
<1> QED BY <1>1, <1>2 DEF BeingStarted

(* NoOrphan asks of every handle that is alive and not told to end that it
   is in hands; such a handle was so before, unless it has just started. *)
Loose(h) == proc[h].state = "alive" /\ ~proc[h].told

LEMMA NoOrphanNext ==
  ASSUME \A h \in Handle : Loose(h)' => Holds(proc[h].plugin, h)' \/ BeingStarted(h)'
  PROVE  NoOrphan'
BY Zenon DEF NoOrphan, Loose

LEMMA LooseBefore ==
  ASSUME PluginInv, Similar, NEW h \in Handle, Loose(h)',
         \A g \in Handle : proc[g].told => proc'[g].told
  PROVE  Holds(proc'[h].plugin, h) \/ BeingStarted(h)
<1>1. proc[h].state = "alive" /\ proc'[h].plugin = proc[h].plugin BY DEF Similar, Loose
<1>2. ~proc[h].told BY Zenon DEF Loose
<1>3. Holds(proc[h].plugin, h) \/ BeingStarted(h)
  BY Zenon, <1>1, <1>2 DEF PluginInv, NoOrphan
<1>4. proc'[h].plugin = proc[h].plugin BY DEF Similar
<1> QED BY <1>4, <1>3

-----------------------------------------------------------------------------
(* Start-up and the commands. *)

LEMMA IdleType == Idle \in TaskRecord /\ Idle.pc = "idle"
BY DEF Idle, TaskRecord

OthersOK == /\ unread \subseteq Plugin \X BOOLEAN
            /\ toml \in [Plugin -> Saved] /\ dropIn \in [Plugin -> Saved]
            /\ issued \in 0 .. MaxCommands

(* What every command and Load have in common: one entry becomes e, whose old
   handle is dropped or kept, and one task goes on as r; a task that was
   about to store a handle has put it into e. *)
LEMMA CommandKeeps ==
  ASSUME PluginInv, NEW t \in Task, NEW r \in TaskRecord,
         NEW p \in Plugin, NEW e \in Entry,
         entry' = [entry EXCEPT ![p] = e], task' = [task EXCEPT ![t] = r],
         \/ proc' = Drop(proc, entry[p].transport)
         \/ /\ proc' = proc
            /\ \/ entry[p].transport = None
               \/ /\ e.transport = entry[p].transport
                  /\ e.state = "Disabled" => entry[p].state = "Disabled",
         e.state = "absent" => e = Absent, e.state = "Running" => e.transport # None,
         At(t, "store") => /\ task[t].plugin = p /\ task[t].transport = e.transport
                           /\ e.state # "Disabled" \/ e.transport = None,
         TaskFits(t)', OthersOK'
  PROVE  PluginInv'
<1>1. TypeOK BY DEF PluginInv
<1>2. /\ proc' \in [Handle -> Process] /\ Similar
      /\ \A h \in Handle : proc[h].told => proc'[h].told
      /\ proc' = Drop(proc, entry[p].transport)
           => \A h \in Handle : h = entry[p].transport => proc'[h].told
  BY <1>1, DropSimilar
<1>3. /\ task \in [Task -> TaskRecord] /\ task'[t] = r
      /\ \A u \in Task : u # t => task'[u] = task[u]
      /\ task' \in [Task -> TaskRecord]
  BY <1>1 DEF TypeOK
<1>4. /\ entry \in [Plugin -> Entry] /\ entry'[p] = e
      /\ \A q \in Plugin : q # p => entry'[q] = entry[q]
      /\ entry' \in [Plugin -> Entry]
  BY <1>1 DEF TypeOK
<1>5. TypeOK' BY <1>1, <1>2, <1>3, <1>4 DEF TypeOK, OthersOK, Registered
<1>6. TasksInv' BY <1>2, <1>3, SimilarKeeps DEF TasksInv
<1>7. NoOrphan'
  <2> SUFFICES ASSUME NEW h \in Handle, Loose(h)'
               PROVE  Holds(proc[h].plugin, h)' \/ BeingStarted(h)'
    BY NoOrphanNext
  <2>0. h # None BY PluginAssumption
  <2>1. CASE Holds(proc'[h].plugin, h)
    <3>1. CASE proc'[h].plugin # p BY <1>2, <1>4, <2>1, <3>1 DEF Holds, TypeOK, Loose, PluginInv, HandlesInv, Similar, Born
    <3>2. CASE proc'[h].plugin = p /\ proc' = Drop(proc, entry[p].transport)
      BY <1>2, <2>1, <3>2 DEF Holds, Loose
    <3>3. CASE proc'[h].plugin = p /\ proc' # Drop(proc, entry[p].transport)
      BY <1>4, <2>0, <2>1, <3>3 DEF Holds
    <3> QED BY <3>1, <3>2, <3>3
  <2>2. CASE At(t, "store") /\ task[t].transport = h
    <3>1. proc[h].plugin = p BY <2>0, <2>2 DEF PluginInv, TasksInv, TaskFits
    <3>2. proc'[h].plugin = p BY <1>2, <3>1 DEF Similar
    <3> QED BY <1>4, <2>0, <2>2, <3>2 DEF Holds
  <2>3. CASE \E u \in Task \ {t} : At(u, "store") /\ task[u].transport = h
    BY <1>3, <2>3 DEF BeingStarted, At
  <2>4. CASE \E g \in Handle : proc[g].loop = "store" /\ proc[g].heir = h
    BY <1>2, <2>4 DEF BeingStarted, Similar
  <2>5. Holds(proc'[h].plugin, h) \/ BeingStarted(h) BY <1>2, LooseBefore
  <2> QED BY <2>1, <2>2, <2>3, <2>4, <2>5 DEF BeingStarted
<1> QED BY <1>2, <1>5, <1>6, <1>7, SimilarKeeps DEF PluginInv

LEMMA PersistType ==
  ASSUME NEW entries \in [Plugin -> Entry], Persist(entries), dropIn \in [Plugin -> Saved]
  PROVE  toml' \in [Plugin -> Saved] /\ dropIn' \in [Plugin -> Saved]
<1>1. \A e \in Entry : SavedAs(e) \in Saved BY DEF SavedAs, Saved
<1>2. "absent" \in Saved BY DEF Saved
<1> QED BY <1>1, <1>2 DEF Persist

LEMMA EntryFacts ==
  ASSUME PluginInv, NEW p \in Plugin
  PROVE  /\ entry[p] \in Entry
         /\ entry[p].state = "absent" => entry[p] = Absent
         /\ entry[p].state = "Running" => entry[p].transport # None
         /\ Absent \in Entry /\ Absent.transport = None /\ Absent.state = "absent"
BY DEF PluginInv, TypeOK, Registered, Absent, Entry, PluginState

LEMMA BoundsKept ==
  ASSUME PluginInv, NEW t, Issue(t)
  PROVE  /\ unread' \subseteq Plugin \X BOOLEAN /\ issued' \in 0 .. MaxCommands
         /\ task[t].pc = "idle"
BY PluginAssumption DEF PluginInv, TypeOK, Issue, At

LEMMA LoadInv ==
  ASSUME PluginInv, NEW p \in Plugin, NEW inDir \in BOOLEAN, Load(p, inDir)
  PROVE  PluginInv'
<1> DEFINE enabled == (IF inDir THEN DropInAtStart[p] ELSE TomlAtStart[p]) = "enabled"
           r == [Idle EXCEPT !.pc = IF enabled THEN "spawn" ELSE "store",
                             !.op = "boot", !.plugin = p, !.enabled = enabled,
                             !.inDir = inDir]
<1>1. Boot \in Task BY DEF Task
<1>2. task' = [task EXCEPT ![Boot] = r] BY DEF Load
<1>3. /\ r \in TaskRecord /\ r.op = "boot" /\ r.plugin = p /\ r.transport = None
      /\ r.pc = IF enabled THEN "spawn" ELSE "store"
  <2>1. enabled \in BOOLEAN OBVIOUS
  <2> QED BY <2>1 DEF Idle, TaskRecord
<1>4. r.enabled = enabled BY DEF Idle
<1> HIDE DEF r
<1>5. task'[Boot] = r BY <1>1, <1>2 DEF PluginInv, TypeOK
<1>6. TaskFits(Boot)' BY <1>3, <1>4, <1>5 DEF TaskFits, At
<1>7. OthersOK' BY DEF OthersOK, PluginInv, TypeOK, Load, files
<1>8. entry' = [entry EXCEPT ![p] = Absent] /\ proc' = Drop(proc, entry[p].transport)
  BY DEF Load
<1>9. ~At(Boot, "store") BY DEF Load, At
<1> QED BY <1>1, <1>2, <1>3, <1>6, <1>7, <1>8, <1>9, EntryFacts, CommandKeeps

LEMMA AddInv ==
  ASSUME PluginInv, NEW t \in Task, NEW p \in Plugin, NEW enabled \in BOOLEAN,
         AddPlugin(t, p, enabled)
  PROVE  PluginInv'
<1> DEFINE e == [Absent EXCEPT !.state = "Starting", !.inDir = TRUE, !.enabled = enabled]
           r == [Idle EXCEPT !.pc = IF enabled THEN "spawn" ELSE "store", !.op = "add",
                             !.plugin = p, !.enabled = enabled, !.inDir = TRUE]
<1>1. task' = [task EXCEPT ![t] = r] /\ entry' = [entry EXCEPT ![p] = e]
  BY DEF AddPlugin
<1>2. /\ r \in TaskRecord /\ r.op = "add" /\ r.plugin = p /\ r.transport = None
      /\ r.pc = IF enabled THEN "spawn" ELSE "store"
  BY DEF Idle, TaskRecord
<1>3. r.enabled = enabled BY DEF Idle
<1>4. e \in Entry /\ e.state = "Starting" BY DEF Absent, Entry, PluginState
<1> HIDE DEF r, e
<1>5. task'[t] = r BY <1>1 DEF PluginInv, TypeOK
<1>6. TaskFits(t)' BY <1>2, <1>3, <1>5 DEF TaskFits, At
<1>7. OthersOK' BY BoundsKept DEF OthersOK, PluginInv, TypeOK, AddPlugin, files
<1>8. proc' = proc /\ entry[p].transport = None
  BY EntryFacts DEF AddPlugin, Registered
<1>9. ~At(t, "store") BY BoundsKept DEF AddPlugin, At
<1> QED BY <1>1, <1>2, <1>4, <1>6, <1>7, <1>8, <1>9, CommandKeeps

LEMMA RemoveInv ==
  ASSUME PluginInv, NEW t \in Task, NEW p \in Plugin, RemovePlugin(t, p)
  PROVE  PluginInv'
<1> DEFINE r == [Idle EXCEPT !.pc = "unlink", !.op = "remove", !.plugin = p,
                             !.inDir = entry[p].inDir]
<1>1. /\ task' = [task EXCEPT ![t] = r] /\ entry' = [entry EXCEPT ![p] = Absent]
      /\ proc' = Drop(proc, entry[p].transport)
  BY DEF RemovePlugin
<1>2. r \in TaskRecord /\ r.pc = "unlink" /\ r.plugin = p
  BY EntryFacts DEF Idle, TaskRecord, Entry
<1> HIDE DEF r
<1>3. TaskFits(t)' BY <1>1, <1>2 DEF PluginInv, TypeOK, TaskFits, At
<1>4. OthersOK' BY BoundsKept DEF OthersOK, PluginInv, TypeOK, RemovePlugin, files
<1>5. ~At(t, "store") BY BoundsKept DEF RemovePlugin, At
<1> QED BY <1>1, <1>2, <1>3, <1>4, <1>5, EntryFacts, CommandKeeps

LEMMA RestartInv ==
  ASSUME PluginInv, NEW t \in Task, NEW p \in Plugin, Restart(t, p)
  PROVE  PluginInv'
<1> DEFINE e == [entry[p] EXCEPT !.state = "Stopped", !.transport = None]
           r == [Idle EXCEPT !.pc = "spawn", !.op = "restart", !.plugin = p,
                             !.enabled = entry[p].enabled]
<1>1. /\ task' = [task EXCEPT ![t] = r] /\ entry' = [entry EXCEPT ![p] = e]
      /\ proc' = Drop(proc, entry[p].transport)
  BY DEF Restart, PluginInv, TypeOK
<1>2. r \in TaskRecord /\ r.pc = "spawn" /\ r.plugin = p /\ r.op = "restart"
  BY EntryFacts DEF Idle, TaskRecord, Entry
<1>3. e \in Entry /\ e.state = "Stopped" BY EntryFacts DEF Entry, PluginState
<1> HIDE DEF r, e
<1>4. TaskFits(t)' BY <1>1, <1>2 DEF PluginInv, TypeOK, TaskFits, At
<1>5. OthersOK' BY BoundsKept DEF OthersOK, PluginInv, TypeOK, Restart, files
<1>6. ~At(t, "store") BY BoundsKept DEF Restart, At
<1> QED BY <1>1, <1>2, <1>3, <1>4, <1>5, <1>6, CommandKeeps

LEMMA DisableInv ==
  ASSUME PluginInv, NEW t \in Task, NEW p \in Plugin, Disable(t, p)
  PROVE  PluginInv'
<1> DEFINE e == [entry[p] EXCEPT !.enabled = FALSE, !.state = "Disabled", !.transport = None]
<1>1. /\ entry' = [entry EXCEPT ![p] = e] /\ proc' = Drop(proc, entry[p].transport)
      /\ task' = [task EXCEPT ![t] = task[t]] /\ task' = task /\ Persist(entry')
  BY DEF Disable, PluginInv, TypeOK
<1>2. e \in Entry /\ e.state = "Disabled" BY EntryFacts DEF Entry, PluginState
<1> HIDE DEF e
<1>3. task[t] \in TaskRecord BY DEF PluginInv, TypeOK
<1>4. ~At(t, "store") /\ At(t, "idle") BY BoundsKept DEF Disable, At
<1>5. TaskFits(t)' BY <1>1, <1>4 DEF TaskFits, At
<1>6. entry' \in [Plugin -> Entry] BY <1>1, <1>2 DEF PluginInv, TypeOK
<1>7. OthersOK' BY <1>1, <1>6, BoundsKept, PersistType
  DEF OthersOK, PluginInv, TypeOK, Disable
<1> QED BY <1>1, <1>2, <1>3, <1>4, <1>5, <1>7, CommandKeeps

LEMMA EnableInv ==
  ASSUME PluginInv, NEW t \in Task, NEW p \in Plugin, Enable(t, p)
  PROVE  PluginInv'
<1> DEFINE starts == entry[p].transport = None /\ entry[p].state # "Starting"
           e == [entry[p] EXCEPT !.enabled = TRUE, !.state = IF starts THEN "Starting" ELSE @]
           begun == [Idle EXCEPT !.pc = "spawn", !.op = "enable", !.plugin = p, !.enabled = TRUE]
           r == IF starts THEN begun ELSE task[t]
<1>0. task \in [Task -> TaskRecord] /\ entry \in [Plugin -> Entry] BY DEF PluginInv, TypeOK
<1>1. /\ entry' = [entry EXCEPT ![p] = e] /\ proc' = proc
      /\ task' = [task EXCEPT ![t] = r]
  BY <1>0 DEF Enable
<1>2. /\ r \in TaskRecord
      /\ r = task[t] \/ (r.pc = "spawn" /\ r.plugin = p /\ r.op = "enable")
  <2>1. begun \in TaskRecord /\ begun.pc = "spawn" /\ begun.plugin = p /\ begun.op = "enable"
    BY DEF Idle, TaskRecord
  <2>2. task[t] \in TaskRecord BY <1>0
  <2>3. r = begun \/ r = task[t] OBVIOUS
  <2> HIDE DEF begun, r
  <2> QED BY <2>1, <2>2, <2>3
<1>3. /\ e \in Entry /\ e.transport = entry[p].transport
      /\ e.state = entry[p].state \/ e.state = "Starting"
  BY EntryFacts DEF Entry, PluginState
<1>4. entry[p].state # "absent" BY DEF Enable, Registered
<1> HIDE DEF begun, r, e
<1>5. task'[t] = r BY <1>0, <1>1
<1>6. task[t].pc = "idle" BY BoundsKept DEF Enable
<1>7. TaskFits(t)' BY <1>2, <1>5, <1>6 DEF TaskFits, At
<1>8. OthersOK' BY BoundsKept DEF OthersOK, PluginInv, TypeOK, Enable, files
<1>9. e.state = "Disabled" => entry[p].state = "Disabled" BY <1>3
<1> QED BY <1>1, <1>2, <1>3, <1>4, <1>6, <1>7, <1>8, <1>9, EntryFacts, CommandKeeps DEF At

-----------------------------------------------------------------------------
(* The steps of a command after its first. *)

LEMMA TaskFacts ==
  ASSUME PluginInv, NEW t \in Task
  PROVE  /\ task \in [Task -> TaskRecord] /\ task[t] \in TaskRecord /\ TaskFits(t)
         /\ \A step \in {"idle", "spawn", "store", "giveup", "unlink", "persist"} :
              /\ [task[t] EXCEPT !.pc = step] \in TaskRecord
              /\ [task[t] EXCEPT !.pc = step].pc = step
              /\ [task[t] EXCEPT !.pc = step].op = task[t].op
              /\ [task[t] EXCEPT !.pc = step].plugin = task[t].plugin
              /\ Goto(t, step) => task' = [task EXCEPT ![t] = [task[t] EXCEPT !.pc = step]]
<1>1. task \in [Task -> TaskRecord] /\ task[t] \in TaskRecord /\ TaskFits(t)
  BY DEF PluginInv, TypeOK, TasksInv
<1> QED BY <1>1 DEF TaskRecord, Goto

LEMMA SteppedTask ==
  ASSUME PluginInv, NEW t \in Task,
         \/ Finish(t)
         \/ ~At(t, "idle") /\ (Goto(t, "persist") \/ Goto(t, "giveup"))
  PROVE  \E r \in TaskRecord : task' = [task EXCEPT ![t] = r] /\ TaskFits(t)'
<1>1. CASE Finish(t)
  <2>1. task' = [task EXCEPT ![t] = Idle] /\ task'[t].pc = "idle"
    BY <1>1, TaskFacts, IdleType DEF Finish
  <2>2. TaskFits(t)' BY <2>1 DEF TaskFits, At
  <2> QED BY <2>1, <2>2, IdleType
<1>2. CASE ~At(t, "idle") /\ (Goto(t, "persist") \/ Goto(t, "giveup"))
  <2>1. PICK step \in {"persist", "giveup"} :
          task' = [task EXCEPT ![t] = [task[t] EXCEPT !.pc = step]]
    BY <1>2, TaskFacts
  <2>2. task'[t].pc = step /\ task'[t].plugin = task[t].plugin
    <3>1. task'[t] = [task[t] EXCEPT !.pc = step] BY <2>1, TaskFacts
    <3> QED BY <3>1, TaskFacts
  <2>3. TaskFits(t)' BY <1>2, <2>2, TaskFacts DEF TaskFits, At
  <2> QED BY <2>1, <2>3, TaskFacts
<1> QED BY <1>1, <1>2

LEMMA StoreNewInv ==
  ASSUME PluginInv, NEW t \in Task, StoreNew(t)
  PROVE  PluginInv'
<1> DEFINE p == task[t].plugin
           state == IF At(t, "giveup") THEN "Crashed"
                    ELSE IF task[t].enabled THEN "Running" ELSE "Disabled"
           e == NewEntry(t, state)
<1>1. entry' = [entry EXCEPT ![p] = e] /\ proc' = Drop(proc, entry[p].transport)
  BY DEF StoreNew
<1>2. ~At(t, "idle") /\ p \in Plugin BY TaskFacts DEF StoreNew, At, TaskFits
<1>3. /\ e \in Entry /\ e.transport = task[t].transport /\ e.state = state
      /\ state \in {"Crashed", "Running", "Disabled"}
  BY TaskFacts DEF NewEntry, Entry, PluginState, TaskRecord
<1>4. At(t, "store") => /\ state = "Running" => e.transport # None
                        /\ state # "Disabled" \/ e.transport = None
  <2> SUFFICES ASSUME At(t, "store")
               PROVE  /\ state = "Running" => e.transport # None
                      /\ state # "Disabled" \/ e.transport = None
    OBVIOUS
  <2>0. ~At(t, "giveup") /\ task[t].op \in {"boot", "add"} BY DEF At, StoreNew
  <2>1. CASE task[t].enabled
    <3>1. task[t].transport # None BY Zenon, <2>0, <2>1, TaskFacts, PluginAssumption DEF TaskFits
    <3>2. state = "Running" BY <2>0, <2>1
    <3> QED BY <1>3, <3>1, <3>2
  <2>2. CASE ~task[t].enabled
    <3>1. task[t].transport = None BY Zenon, <2>0, <2>2, TaskFacts DEF TaskFits
    <3>2. state = "Disabled" BY <2>0, <2>2
    <3> QED BY <1>3, <3>1, <3>2
  <2> QED BY <2>1, <2>2
<1>5. state = "Running" => At(t, "store") BY DEF StoreNew
<1>6. PICK r \in TaskRecord : task' = [task EXCEPT ![t] = r] /\ TaskFits(t)'
  BY <1>2, SteppedTask DEF StoreNew
<1>7. OthersOK' BY DEF OthersOK, PluginInv, TypeOK, StoreNew, files
<1> HIDE DEF e, state
<1> QED BY <1>1, <1>2, <1>3, <1>4, <1>5, <1>6, <1>7, CommandKeeps

LEMMA StoreStartedInv ==
  ASSUME PluginInv, NEW t \in Task, StoreStarted(t)
  PROVE  PluginInv'
<1> DEFINE p == task[t].plugin
           x == task[t].transport
           e == [entry[p] EXCEPT !.state = "Running", !.transport = x]
<1>0. TypeOK BY DEF PluginInv
<1>1. /\ p \in Plugin /\ x \in Handle /\ x # None
      /\ proc[x].plugin = p
  BY TaskFacts, PluginAssumption DEF StoreStarted, At, TaskFits
<1>2. PICK r \in TaskRecord : task' = [task EXCEPT ![t] = r] /\ TaskFits(t)'
  BY SteppedTask DEF StoreStarted
<1>3. entry' \in [Plugin -> Entry]
  BY <1>0, <1>1 DEF StoreStarted, TypeOK, Entry, PluginState
<1>4. OthersOK' BY <1>0, <1>3, PersistType DEF OthersOK, TypeOK, StoreStarted, files
<1>5. CASE Registered(p)
  <2>1. entry' = [entry EXCEPT ![p] = e] /\ proc' = Drop(proc, entry[p].transport)
    BY <1>0, <1>1, <1>5 DEF StoreStarted, TypeOK
  <2>2. e \in Entry /\ e.state = "Running" /\ e.transport = x
    BY <1>1, EntryFacts DEF Entry, PluginState
  <2> HIDE DEF e
  <2> QED BY <1>1, <1>2, <1>4, <2>1, <2>2, CommandKeeps
<1>6. CASE ~Registered(p)
  <2>1. entry' = entry /\ proc' = Drop(proc, x) BY <1>6 DEF StoreStarted
  <2>2. /\ proc' \in [Handle -> Process] /\ Similar
        /\ \A h \in Handle : proc[h].told => proc'[h].told
        /\ proc'[x].told
    BY <1>0, <1>1, <2>1, DropSimilar
  <2>3. /\ \A u \in Task : u # t => task'[u] = task[u]
        /\ task' \in [Task -> TaskRecord]
    BY <1>0, <1>2 DEF TypeOK
  <2>4. TypeOK' BY <1>0, <1>4, <2>1, <2>2, <2>3 DEF TypeOK, OthersOK, Registered
  <2>5. TasksInv' BY <1>2, <2>2, <2>3, SimilarKeeps DEF TasksInv
  <2>6. NoOrphan'
    <3> SUFFICES ASSUME NEW h \in Handle, Loose(h)'
                 PROVE  Holds(proc[h].plugin, h)' \/ BeingStarted(h)'
      BY NoOrphanNext
    <3>0. h # x BY <2>2 DEF Loose
    <3>1. CASE Holds(proc'[h].plugin, h) BY <2>1, <3>1 DEF Holds
    <3>2. CASE \E u \in Task : At(u, "store") /\ task[u].transport = h
      BY <2>3, <3>0, <3>2 DEF BeingStarted, At
    <3>3. CASE \E g \in Handle : proc[g].loop = "store" /\ proc[g].heir = h
      BY <2>2, <3>3 DEF BeingStarted, Similar
    <3> QED BY <2>2, <3>1, <3>2, <3>3, LooseBefore DEF BeingStarted
  <2> QED BY <2>2, <2>4, <2>5, <2>6, SimilarKeeps DEF PluginInv
<1> QED BY <1>5, <1>6

LEMMA ReportFailedInv ==
  ASSUME PluginInv, NEW t \in Task, ReportFailed(t)
  PROVE  PluginInv'
<1> DEFINE p == task[t].plugin
           state == IF task[t].op = "enable" THEN "Stopped" ELSE "Crashed"
           e == IF Registered(p) THEN [entry[p] EXCEPT !.state = state] ELSE entry[p]
<1>1. p \in Plugin /\ ~At(t, "store") BY TaskFacts DEF ReportFailed, At, TaskFits
<1>2. PICK r \in TaskRecord : task' = [task EXCEPT ![t] = r] /\ TaskFits(t)'
  BY SteppedTask DEF ReportFailed
<1>3. entry' = [entry EXCEPT ![p] = e] /\ proc' = proc
  BY <1>1 DEF ReportFailed, PluginInv, TypeOK
<1>4. /\ e \in Entry /\ e.transport = entry[p].transport
      /\ e = entry[p] \/ e.state \in {"Stopped", "Crashed"}
  BY <1>1, EntryFacts DEF Entry, PluginState
<1>5. OthersOK' BY DEF OthersOK, PluginInv, TypeOK, ReportFailed, files
<1> HIDE DEF e
<1> QED BY <1>1, <1>2, <1>3, <1>4, <1>5, EntryFacts, CommandKeeps

LEMMA UnlinkInv ==
  ASSUME PluginInv, NEW t \in Task, Unlink(t) \/ PersistAll(t)
  PROVE  PluginInv'
<1> DEFINE p == task[t].plugin
<1>1. p \in Plugin /\ ~At(t, "store") /\ ~At(t, "idle")
  BY TaskFacts DEF Unlink, PersistAll, At, TaskFits
<1>2. PICK r \in TaskRecord : task' = [task EXCEPT ![t] = r] /\ TaskFits(t)'
  BY <1>1, SteppedTask DEF Unlink, PersistAll
<1>3. entry' = [entry EXCEPT ![p] = entry[p]] /\ proc' = proc
  BY <1>1 DEF Unlink, PersistAll, PluginInv, TypeOK
<1>4. "absent" \in Saved BY DEF Saved
<1>5. OthersOK'
  BY <1>1, <1>4, PersistType DEF OthersOK, PluginInv, TypeOK, Unlink, PersistAll
<1> HIDE DEF p
<1> QED BY <1>1, <1>2, <1>3, <1>5, EntryFacts, CommandKeeps

-----------------------------------------------------------------------------
(* The processes and their exit loops. *)

Told(h)   == proc[h].told
ToldStays == \A h \in Handle : proc[h].told => proc'[h].told

(* h ends or its exit loop goes on, neither from nor to "store". *)
Moved(h) ==
  /\ \/ proc'[h].loop = proc[h].loop
     \/ proc[h].loop \notin {"none", "store"} /\ proc'[h].loop # "store"
  /\ \/ proc'[h].state = proc[h].state
     \/ proc[h].state = "alive" /\ proc'[h].state \in {"exited", "failed"}
  /\ \A g \in Handle : /\ proc'[g].plugin = proc[g].plugin
                       /\ proc'[g].heir = proc[g].heir
                       /\ g # h => /\ proc'[g].loop = proc[g].loop
                                   /\ proc'[g].state = proc[g].state

LEMMA MovedKeeps ==
  ASSUME PluginInv, NEW h \in Handle, Moved(h)
  PROVE  /\ HandlesInv' /\ LoopsInv'
         /\ task' = task => TasksInv'
         /\ \A g \in Handle : /\ proc'[g].plugin = proc[g].plugin
                              /\ Born(g) <=> Born(g)'
                              /\ BeingStarted(g) /\ task' = task => BeingStarted(g)'
                              /\ proc'[g].state = "alive" => proc[g].state = "alive"
<1>2. \A g \in Handle : Born(g) <=> Born(g)'
  <2> SUFFICES ASSUME NEW g \in Handle PROVE Born(g) <=> Born(g)'
    OBVIOUS
  <2>1. CASE g = h BY <2>1 DEF Moved, Born
  <2>2. CASE g # h BY <2>2 DEF Moved, Born
  <2> QED BY <2>1, <2>2
<1>3. HandlesInv' BY <1>2 DEF PluginInv, HandlesInv, Moved, Born
<1>4. ASSUME task' = task PROVE TasksInv'
  <2> SUFFICES ASSUME NEW t \in Task PROVE TaskFits(t)'
    BY DEF TasksInv
  <2>1. TaskFits(t) /\ task' = task BY <1>4 DEF PluginInv, TasksInv
  <2> QED BY <1>2, <2>1 DEF TaskFits, At, Moved
<1>5. LoopsInv'
  <2> SUFFICES ASSUME NEW g \in Handle, proc'[g].loop = "store" PROVE LoopFits(g)'
    BY DEF LoopsInv, LoopFits
  <2>1. proc[g].loop = "store" BY DEF Moved
  <2>2. LoopFits(g) BY DEF PluginInv, LoopsInv
  <2>3. proc[g].heir \in Handle /\ proc'[g].heir = proc[g].heir BY <2>1, <2>2 DEF LoopFits, Moved
  <2>4. proc'[proc[g].heir].loop = "none" BY <2>1, <2>2, <2>3 DEF LoopFits, Moved
  <2> QED BY <1>2, <2>1, <2>2, <2>3, <2>4 DEF LoopFits, Moved
<1>6. ASSUME NEW g \in Handle, BeingStarted(g), task' = task PROVE BeingStarted(g)'
  BY <1>6 DEF BeingStarted, At, Moved
<1>7. ASSUME NEW g \in Handle, proc'[g].state = "alive" PROVE proc[g].state = "alive"
  BY <1>7 DEF Moved
<1>8. \A g \in Handle : proc'[g].plugin = proc[g].plugin BY DEF Moved
<1> QED BY <1>2, <1>3, <1>4, <1>5, <1>6, <1>7, <1>8

LEMMA LoopKeeps ==
  ASSUME PluginInv, NEW h \in Handle, Moved(h), proc' \in [Handle -> Process],
         ToldStays,
         \/ entry' = entry
         \/ \E p \in Plugin, e \in Entry :
              /\ entry' = [entry EXCEPT ![p] = e]
              /\ e.transport = None /\ e.state \in {"Stopped", "Crashed"}
              /\ \A g \in Handle : g = entry[p].transport => Told(g)',
         UNCHANGED <<task, unread, files, issued>>
  PROVE  PluginInv'
<1>0. TypeOK BY DEF PluginInv
<1>1. TypeOK'
  <2>1. CASE entry' = entry BY <1>0, <2>1 DEF TypeOK, files, Registered
  <2>2. ASSUME NEW p \in Plugin, NEW e \in Entry, entry' = [entry EXCEPT ![p] = e],
               e.transport = None, e.state \in {"Stopped", "Crashed"}
        PROVE  TypeOK'
    BY <1>0, <2>2 DEF TypeOK, files, Registered
  <2> QED BY <2>1, <2>2
<1>2. HandlesInv' /\ LoopsInv' /\ TasksInv'
  BY MovedKeeps
<1>6. NoOrphan'
  <2> SUFFICES ASSUME NEW g \in Handle, Loose(g)'
               PROVE  Holds(proc[g].plugin, g)' \/ BeingStarted(g)'
    BY NoOrphanNext
  <2>0. g # None BY PluginAssumption
  <2>1. proc[g].state = "alive" /\ proc'[g].plugin = proc[g].plugin BY MovedKeeps DEF Loose
  <2>2. ~proc[g].told BY Zenon DEF Loose, ToldStays
  <2>3. Holds(proc[g].plugin, g) \/ BeingStarted(g)
    BY Zenon, <2>1, <2>2 DEF PluginInv, NoOrphan
  <2>4. CASE BeingStarted(g)
    BY <2>4, MovedKeeps
  <2>5. CASE Holds(proc[g].plugin, g)
    <3>1. CASE entry' = entry BY <2>1, <2>5, <3>1 DEF Holds
    <3>2. ASSUME NEW p \in Plugin, NEW e \in Entry, entry' = [entry EXCEPT ![p] = e],
                 \A x \in Handle : x = entry[p].transport => Told(x)'
          PROVE  Holds(proc[g].plugin, g)'
      <4>0. ~Told(g)' BY Zenon DEF Loose, Told
      <4>1. proc[g].plugin # p BY <3>2, <2>5, <4>0 DEF Holds
      <4>2. entry'[proc'[g].plugin] = entry[proc[g].plugin]
        BY <1>0, <2>1, <3>2, <4>1 DEF PluginInv, HandlesInv, Born, TypeOK
      <4> QED BY <2>5, <4>2 DEF Holds
    <3> QED BY <3>1, <3>2
  <2> QED BY <2>3, <2>4, <2>5
<1> QED BY <1>1, <1>2, <1>6 DEF PluginInv

(* A loop that goes on from `from` to `to`, after the handle x was dropped. *)
LEMMA MovedLoop ==
  ASSUME PluginInv, NEW h \in Handle, NEW x, NEW procs,
         procs = Drop(proc, x) \/ procs = proc,
         NEW to \in {"delay", "giveup", "done"},
         proc[h].loop \in {"watching", "delay", "giveup"},
         proc' = [procs EXCEPT ![h].loop = to]
  PROVE  /\ Moved(h) /\ proc' \in [Handle -> Process]
         /\ ToldStays
         /\ procs = Drop(proc, x) => \A g \in Handle : g = x => Told(g)'
<1>0. proc \in [Handle -> Process] BY DEF PluginInv, TypeOK
<1>1. /\ procs \in [Handle -> Process]
      /\ \A g \in Handle : /\ procs[g].plugin = proc[g].plugin
                           /\ procs[g].state = proc[g].state
                           /\ procs[g].loop = proc[g].loop
                           /\ procs[g].heir = proc[g].heir
  BY <1>0, DropType
<1>2. /\ \A g \in Handle : proc[g].told => procs[g].told
      /\ procs = Drop(proc, x) => \A g \in Handle : g = x => procs[g].told
  BY <1>0, DropType DEF ToldStays, Told
<1>3. proc' \in [Handle -> Process] BY <1>1 DEF Process
<1>4. \A g \in Handle : proc'[g].told = procs[g].told BY <1>1 DEF Process
<1>5. Moved(h) BY <1>1 DEF Moved, Process
<1>6. /\ ToldStays
      /\ procs = Drop(proc, x) => \A g \in Handle : g = x => Told(g)'
  BY Zenon, <1>2, <1>4 DEF ToldStays, Told
<1> QED BY <1>3, <1>5, <1>6

LEMMA ExitInv ==
  ASSUME PluginInv, NEW h \in Handle, Exit(h)
  PROVE  PluginInv'
<1>0. proc \in [Handle -> Process] BY DEF PluginInv, TypeOK
<1>1. PICK state \in {"exited", "failed"} : proc' = [proc EXCEPT ![h].state = state]
  BY DEF Exit
<1>2. proc' \in [Handle -> Process] BY <1>0, <1>1 DEF Process
<1>3. \A g \in Handle : proc'[g].told = proc[g].told BY <1>0, <1>1 DEF Process
<1>4. ToldStays BY <1>3 DEF ToldStays
<1>5. Moved(h) BY <1>0, <1>1 DEF Moved, Exit, Process
<1>6. UNCHANGED <<entry, task, unread, files, issued>> BY DEF Exit
<1> QED BY <1>2, <1>4, <1>5, <1>6, LoopKeeps

LEMMA HeardInv ==
  ASSUME PluginInv, NEW h \in Handle, HearStopped(h) \/ HearCrash(h) \/ GiveUp(h)
  PROVE  PluginInv'
<1> DEFINE p == proc[h].plugin
           x == entry[p].transport
<1>0. proc[h].loop \in {"watching", "giveup"} BY DEF HearStopped, HearCrash, GiveUp
<1>1. p \in Plugin BY <1>0 DEF PluginInv, HandlesInv, Born
<1>2. UNCHANGED <<task, unread, files, issued>> BY DEF HearStopped, HearCrash, GiveUp
<1>3. PICK to \in {"delay", "done"} :
        \/ entry' = entry /\ proc' = [proc EXCEPT ![h].loop = to]
        \/ entry' = entry /\ proc' = [Drop(proc, x) EXCEPT ![h].loop = to]
        \/ /\ proc' = [Drop(proc, x) EXCEPT ![h].loop = to]
           /\ \E state \in {"Stopped", "Crashed"} :
                entry' = [entry EXCEPT ![p].state = state, ![p].transport = None]
  BY DEF HearStopped, HearCrash, GiveUp
<1>4. CASE entry' = entry
  BY <1>0, <1>2, <1>3, <1>4, MovedLoop, LoopKeeps
<1>5. ASSUME NEW state \in {"Stopped", "Crashed"},
             entry' = [entry EXCEPT ![p].state = state, ![p].transport = None],
             proc' = [Drop(proc, x) EXCEPT ![h].loop = to]
      PROVE  PluginInv'
  <2> DEFINE e == [entry[p] EXCEPT !.state = state, !.transport = None]
  <2>1. entry' = [entry EXCEPT ![p] = e] BY <1>1, <1>5 DEF PluginInv, TypeOK
  <2>2. e \in Entry /\ e.transport = None /\ e.state = state
    BY <1>1, EntryFacts DEF Entry, PluginState
  <2>3. /\ Moved(h) /\ proc' \in [Handle -> Process] /\ ToldStays
        /\ \A g \in Handle : g = x => Told(g)'
    BY <1>0, <1>5, MovedLoop
  <2> HIDE DEF e
  <2> QED BY <1>1, <1>2, <2>1, <2>2, <2>3, LoopKeeps
<1> QED BY <1>3, <1>4, <1>5

LEMMA SpawnInv ==
  ASSUME PluginInv, NEW t \in Task, Spawn(t)
  PROVE  PluginInv'
<1> DEFINE n == NewHandle
           p == task[t].plugin
           new == Started(p, task[t].enabled, "watching")
           r == [task[t] EXCEPT !.pc = "store", !.transport = n]
<1>0. /\ TypeOK /\ proc \in [Handle -> Process] /\ entry' = entry
      /\ UNCHANGED <<entry, unread, files, issued>>
  BY DEF PluginInv, TypeOK, Spawn
<1>1. p \in Plugin /\ At(t, "spawn") /\ task[t] \in TaskRecord /\ task[t].enabled \in BOOLEAN
  BY TaskFacts DEF Spawn, At, TaskFits, TaskRecord
<1>2. OthersOK' BY <1>0 DEF OthersOK, TypeOK, files
<1>3. CASE SpawnFails /\ Goto(t, "giveup") /\ UNCHANGED proc
  <2>1. PICK q \in TaskRecord : task' = [task EXCEPT ![t] = q] /\ TaskFits(t)'
    BY <1>1, <1>3, SteppedTask DEF At
  <2>2. entry' = [entry EXCEPT ![p] = entry[p]] /\ proc' = proc
    BY <1>0, <1>1, <1>3 DEF TypeOK
  <2>3. ~At(t, "store") BY <1>1 DEF At
  <2> HIDE DEF p
  <2> QED BY <1>1, <1>2, <2>1, <2>2, <2>3, EntryFacts, CommandKeeps
<1>4. CASE /\ UnusedHandles # {} /\ proc' = [proc EXCEPT ![n] = new]
           /\ task' = [task EXCEPT ![t].pc = "store", ![t].transport = n]
  <2>1. n \in Handle /\ ~Born(n) /\ n # None BY <1>4, NewHandleUnused, PluginAssumption
  <2>2. /\ new \in Process /\ new.plugin = p /\ new.state # "unborn"
        /\ new.loop = "watching"
    BY <1>1, StartedType
  <2>3. /\ r \in TaskRecord /\ r.pc = "store" /\ r.plugin = p /\ r.transport = n
        /\ r.op = task[t].op
    BY <1>1, <2>1 DEF TaskRecord
  <2>3a. task[t].op \in {"boot", "add"} => r.enabled
    <3>1. r.enabled = task[t].enabled BY <1>1 DEF TaskRecord
    <3>2. task[t].op \in {"boot", "add"} => task[t].enabled
      BY Zenon, <1>1, TaskFacts DEF TaskFits
    <3> QED BY <3>1, <3>2
  <2>4. task' = [task EXCEPT ![t] = r] BY <1>0, <1>4 DEF TypeOK
  <2> HIDE DEF n, new, r
  <2>5. /\ proc'[n] = new /\ proc' \in [Handle -> Process]
        /\ \A h \in Handle : h # n => proc'[h] = proc[h]
    BY <1>0, <1>4, <2>1, <2>2
  <2>6. /\ task'[t] = r /\ task' \in [Task -> TaskRecord]
        /\ \A u \in Task : u # t => task'[u] = task[u]
    BY <1>0, <2>3, <2>4 DEF TypeOK
  <2>7. TypeOK' BY <1>0, <2>5, <2>6 DEF TypeOK, files, Registered
  <2>8. HandlesInv' BY <1>1, <2>1, <2>2, <2>5 DEF PluginInv, HandlesInv, Born
  <2>9. TasksInv'
    <3>1. TaskFits(t)'
      <4>1. proc'[n].state # "unborn" /\ proc'[n].plugin = p BY <2>2, <2>5
      <4> QED BY <1>1, <2>1, <2>3, <2>3a, <2>6, <4>1 DEF TaskFits, At, Born
    <3>2. ASSUME NEW u \in Task, u # t PROVE TaskFits(u)'
      <4>1. TaskFits(u) /\ task'[u] = task[u] BY <2>6, <3>2 DEF PluginInv, TasksInv
      <4>2. \A h \in Handle : Born(h) => proc'[h] = proc[h] BY <2>1, <2>5
      <4> QED BY <4>1, <4>2 DEF TaskFits, At, Born
    <3> QED BY <3>1, <3>2 DEF TasksInv
  <2>10. LoopsInv'
    <3> SUFFICES ASSUME NEW g \in Handle, proc'[g].loop = "store" PROVE LoopFits(g)'
      BY DEF LoopsInv, LoopFits
    <3>1. g # n /\ proc'[g] = proc[g] BY <2>2, <2>5
    <3>2. LoopFits(g) BY DEF PluginInv, LoopsInv
    <3>3. proc[g].heir \in Handle /\ proc[g].heir # n BY <2>1, <3>1, <3>2 DEF LoopFits
    <3>4. proc'[proc[g].heir] = proc[proc[g].heir] BY <2>5, <3>3
    <3>5. \A h \in Handle : proc'[h].loop = "store" => h # n BY <2>2, <2>5
    <3> QED BY <2>5, <3>1, <3>2, <3>3, <3>4, <3>5 DEF LoopFits, Born
  <2>11. NoOrphan'
    <3> SUFFICES ASSUME NEW h \in Handle, Loose(h)'
                 PROVE  Holds(proc[h].plugin, h)' \/ BeingStarted(h)'
      BY NoOrphanNext
    <3>1. CASE h = n BY <2>3, <2>6, <3>1 DEF BeingStarted, At
    <3>2. CASE h # n
      <4>1. proc'[h] = proc[h] BY <2>5, <3>2
      <4>2. Holds(proc[h].plugin, h) \/ BeingStarted(h)
        BY Zenon, <4>1 DEF PluginInv, NoOrphan, Loose
      <4>3. CASE Holds(proc[h].plugin, h) BY <1>0, <4>1, <4>3 DEF Holds
      <4>4. CASE \E u \in Task : At(u, "store") /\ task[u].transport = h
        BY <1>1, <2>6, <4>4 DEF BeingStarted, At
      <4>5. CASE \E g \in Handle : proc[g].loop = "store" /\ proc[g].heir = h
        <5>1. PICK g \in Handle : proc[g].loop = "store" /\ proc[g].heir = h BY <4>5
        <5>2. g # n BY <2>1, <5>1 DEF PluginInv, HandlesInv
        <5> QED BY <2>5, <5>1, <5>2 DEF BeingStarted
      <4> QED BY <4>2, <4>3, <4>4, <4>5 DEF BeingStarted
    <3> QED BY <3>1, <3>2
  <2> QED BY <2>7, <2>8, <2>9, <2>10, <2>11 DEF PluginInv
<1> QED BY <1>3, <1>4 DEF Spawn

(* The loop h, with a process started again. *)
LEMMA StartAgainInv ==
  ASSUME PluginInv, NEW h \in Handle, StartAgain(h)
  PROVE  PluginInv'
<1> DEFINE n == NewHandle
           p == proc[h].plugin
           new == Started(p, entry[p].enabled, "none")
<1>0. /\ TypeOK /\ proc \in [Handle -> Process] /\ entry' = entry /\ task' = task
      /\ UNCHANGED <<entry, task, unread, files, issued>>
  BY DEF PluginInv, TypeOK, StartAgain
<1>1. proc[h].loop = "delay" /\ p \in Plugin /\ Born(h)
  BY DEF StartAgain, PluginInv, HandlesInv, Born
<1>2. ASSUME NEW to \in {"done", "giveup"}, proc' = [proc EXCEPT ![h].loop = to]
      PROVE  PluginInv'
  BY <1>0, <1>1, <1>2, MovedLoop, LoopKeeps
<1>3. CASE /\ Registered(p) /\ UnusedHandles # {}
           /\ proc' = [proc EXCEPT ![h].loop = "store", ![h].heir = n, ![n] = new]
  <2>1. n \in Handle /\ ~Born(n) /\ n # None /\ n # h
    BY <1>1, <1>3, NewHandleUnused, PluginAssumption
  <2>2. /\ new \in Process /\ new.plugin = p /\ new.state # "unborn"
        /\ new.loop = "none" /\ new.heir = None
    <3>1. entry[p].enabled \in BOOLEAN BY <1>1, EntryFacts DEF Entry
    <3> QED BY <1>1, <3>1, StartedType
  <2> HIDE DEF n, new
  <2>3. /\ proc'[n] = new /\ proc' \in [Handle -> Process]
        /\ \A g \in Handle : g # n /\ g # h => proc'[g] = proc[g]
        /\ proc'[h].loop = "store" /\ proc'[h].heir = n
        /\ proc'[h].plugin = p /\ proc'[h].state = proc[h].state
    BY <1>0, <1>3, <2>1, <2>2 DEF Process
  <2>3a. proc'[h].told = proc[h].told BY <1>0, <1>3, <2>1 DEF Process
  <2>4. TypeOK' BY <1>0, <2>3 DEF TypeOK, files, Registered
  <2>5. \A g \in Handle : /\ Born(g) => Born(g)' /\ proc'[g].plugin = proc[g].plugin
                          /\ Born(g)' => Born(g) \/ g = n
    BY <1>1, <2>1, <2>3 DEF Born
  <2>6. HandlesInv'
    BY <1>1, <2>1, <2>2, <2>3, <2>5 DEF PluginInv, HandlesInv, Born
  <2>7. TasksInv'
    <3> SUFFICES ASSUME NEW u \in Task PROVE TaskFits(u)'
      BY DEF TasksInv
    <3>1. TaskFits(u) BY DEF PluginInv, TasksInv
    <3> QED BY <1>0, <2>5, <3>1 DEF TaskFits, At
  <2>8. LoopsInv'
    <3> SUFFICES ASSUME NEW g \in Handle, proc'[g].loop = "store" PROVE LoopFits(g)'
      BY DEF LoopsInv, LoopFits
    <3>0. ASSUME NEW k \in Handle, proc'[k].loop = "store", k # h
          PROVE  /\ proc'[k] = proc[k] /\ LoopFits(k) /\ proc[k].heir \in Handle
                 /\ proc[k].heir # n /\ Born(proc[k].heir)
      <4>1. k # n BY <2>2, <2>3, <3>0
      <4>2. proc'[k] = proc[k] /\ LoopFits(k) BY <2>3, <3>0, <4>1 DEF PluginInv, LoopsInv
      <4> QED BY <2>1, <3>0, <4>2 DEF LoopFits
    <3>1. CASE g = h
      <4>1. \A k \in Handle : proc'[k].loop = "store" /\ proc'[k].heir = n => k = h
        BY <3>0
      <4>2. proc'[n].state # "unborn" /\ proc'[n].plugin = p /\ proc'[n].loop = "none"
        BY <2>2, <2>3
      <4> QED BY <2>1, <2>3, <3>1, <4>1, <4>2 DEF LoopFits, Born
    <3>2. CASE g # h
      <4>1. /\ proc'[g] = proc[g] /\ LoopFits(g) /\ proc[g].heir \in Handle
            /\ proc[g].heir # n /\ Born(proc[g].heir)
        BY <3>0, <3>2
      <4>2. proc[g].heir # h BY <1>1, <4>1 DEF LoopFits
      <4>3. proc'[proc[g].heir] = proc[proc[g].heir] BY <2>3, <4>1, <4>2
      <4>4. \A k \in Handle : proc'[k].loop = "store" /\ proc'[k].heir = proc[g].heir => k = g
        BY <2>3, <3>0, <4>1 DEF LoopFits
      <4> QED BY <4>1, <4>3, <4>4 DEF LoopFits, Born
    <3> QED BY <3>1, <3>2
  <2>9. NoOrphan'
    <3> SUFFICES ASSUME NEW g \in Handle, Loose(g)'
                 PROVE  Holds(proc[g].plugin, g)' \/ BeingStarted(g)'
      BY NoOrphanNext
    <3>1. CASE g = n BY <2>3, <3>1 DEF BeingStarted
    <3>2. CASE g # n
      <4>1. proc'[g].state = proc[g].state /\ proc'[g].plugin = proc[g].plugin
        BY <2>3, <3>2
      <4>2. proc'[g].told = proc[g].told BY <2>3, <2>3a, <3>2
      <4>3. Holds(proc[g].plugin, g) \/ BeingStarted(g)
        BY Zenon, <4>1, <4>2 DEF PluginInv, NoOrphan, Loose
      <4>4. CASE Holds(proc[g].plugin, g) BY <1>0, <4>1, <4>4 DEF Holds
      <4>5. CASE \E u \in Task : At(u, "store") /\ task[u].transport = g
        BY <1>0, <4>5 DEF BeingStarted, At
      <4>6. CASE \E k \in Handle : proc[k].loop = "store" /\ proc[k].heir = g
        <5>1. PICK k \in Handle : proc[k].loop = "store" /\ proc[k].heir = g BY <4>6
        <5>2. k # n /\ k # h BY <1>1, <2>1, <5>1 DEF PluginInv, HandlesInv
        <5> QED BY <2>3, <5>1, <5>2 DEF BeingStarted
      <4> QED BY <4>3, <4>4, <4>5, <4>6 DEF BeingStarted
    <3> QED BY <3>1, <3>2
  <2> QED BY <2>4, <2>6, <2>7, <2>8, <2>9 DEF PluginInv
<1> QED BY <1>2, <1>3 DEF StartAgain

(* ... and stored: no other loop held it, so nobody's heir is listened to. *)
LEMMA StoreAgainInv ==
  ASSUME PluginInv, NEW h \in Handle, StoreAgain(h)
  PROVE  PluginInv'
<1> DEFINE p == proc[h].plugin
           n == proc[h].heir
           dropped == IF Registered(p) THEN entry[p].transport ELSE n
           procs == Drop(proc, dropped)
           e == IF Registered(p) THEN [entry[p] EXCEPT !.state = "Running", !.transport = n]
                ELSE entry[p]
<1>0. /\ TypeOK /\ proc \in [Handle -> Process] /\ entry \in [Plugin -> Entry]
      /\ UNCHANGED <<task, unread, files, issued>>
  BY DEF PluginInv, TypeOK, StoreAgain
<1>1. /\ proc[h].loop = "store" /\ p \in Plugin /\ n \in Handle /\ n # None /\ Born(n)
      /\ proc[n].plugin = p /\ proc[n].loop = "none" /\ n # h
      /\ \A k \in Handle : proc[k].loop = "store" /\ proc[k].heir = n => k = h
  BY PluginAssumption DEF StoreAgain, PluginInv, HandlesInv, LoopsInv, LoopFits, Born
<1>2. proc' = [procs EXCEPT ![h].loop = "done", ![n].loop = "watching"]
  BY DEF StoreAgain
<1>3. /\ entry' = [entry EXCEPT ![p] = e] /\ e \in Entry
      /\ Registered(p) => e.transport = n /\ e.state = "Running"
      /\ ~Registered(p) => e = entry[p]
  BY <1>0, <1>1, EntryFacts DEF StoreAgain, Entry, PluginState
<1>4. /\ procs \in [Handle -> Process]
      /\ \A g \in Handle : /\ procs[g].plugin = proc[g].plugin
                           /\ procs[g].state = proc[g].state
                           /\ procs[g].loop = proc[g].loop
                           /\ procs[g].heir = proc[g].heir
  BY <1>0, DropType
<1>5. /\ \A g \in Handle : proc[g].told => procs[g].told
      /\ \A g \in Handle : g = dropped => procs[g].told
  BY <1>0, DropType
<1>6. ~Registered(p) => dropped = n OBVIOUS
<1>7. Registered(p) => dropped = entry[p].transport OBVIOUS
<1> HIDE DEF p, n, dropped, procs, e
<1>8. /\ proc' \in [Handle -> Process]
      /\ \A g \in Handle : /\ proc'[g].plugin = proc[g].plugin
                           /\ proc'[g].state = proc[g].state
                           /\ proc'[g].heir = proc[g].heir
                           /\ g # h /\ g # n => proc'[g].loop = proc[g].loop
      /\ proc'[h].loop = "done" /\ proc'[n].loop = "watching"
  <2>1. proc' \in [Handle -> Process] BY <1>1, <1>2, <1>4 DEF Process
  <2> QED BY <1>1, <1>2, <1>4, <2>1 DEF Process
<1>9. \A g \in Handle : proc'[g].told = procs[g].told BY <1>1, <1>2, <1>4 DEF Process
<1>10. TypeOK'
  BY <1>0, <1>1, <1>3, <1>8, EntryFacts DEF TypeOK, files, Registered
<1>11. HandlesInv' BY <1>1, <1>8 DEF PluginInv, HandlesInv, Born
<1>12. TasksInv'
  <2> SUFFICES ASSUME NEW u \in Task PROVE TaskFits(u)'
    BY DEF TasksInv
  <2>1. TaskFits(u) BY DEF PluginInv, TasksInv
  <2> QED BY <1>0, <1>8, <2>1 DEF TaskFits, At, Born
<1>13. LoopsInv'
  <2> SUFFICES ASSUME NEW g \in Handle, proc'[g].loop = "store" PROVE LoopFits(g)'
    BY DEF LoopsInv, LoopFits
  <2>1. ASSUME NEW k \in Handle, proc'[k].loop = "store"
        PROVE  proc[k].loop = "store" /\ k # h
    BY <1>8, <2>1
  <2>2. LoopFits(g) /\ proc[g].loop = "store" /\ g # h BY <2>1 DEF PluginInv, LoopsInv
  <2>3. proc[g].heir \in Handle /\ proc[g].heir # n BY <1>1, <2>2 DEF LoopFits
  <2>4. proc[g].heir # h BY <1>1, <2>2 DEF LoopFits
  <2>5. proc'[proc[g].heir].loop = "none" BY <1>8, <2>2, <2>3, <2>4 DEF LoopFits
  <2>6. \A k \in Handle : proc'[k].loop = "store" /\ proc'[k].heir = proc'[g].heir => k = g
    BY <1>8, <2>1, <2>2 DEF LoopFits
  <2> QED BY <1>8, <2>2, <2>3, <2>5, <2>6 DEF LoopFits, Born
<1>14. NoOrphan'
  <2> SUFFICES ASSUME NEW g \in Handle, Loose(g)'
               PROVE  Holds(proc[g].plugin, g)' \/ BeingStarted(g)'
    BY NoOrphanNext
  <2>0. g # None BY PluginAssumption
  <2>1. proc'[g].plugin = proc[g].plugin /\ proc[g].state = "alive" BY <1>8 DEF Loose
  <2>2. ~procs[g].told BY Zenon, <1>9 DEF Loose
  <2>3. g # dropped BY Zenon, <1>5, <2>2
  <2>4. Holds(proc[g].plugin, g) \/ BeingStarted(g)
    BY Zenon, <1>5, <2>1, <2>2 DEF PluginInv, NoOrphan
  <2>5. CASE g = n
    <3>1. Registered(p) BY <1>6, <2>3, <2>5
    <3>2. entry'[p] = e BY <1>0, <1>1, <1>3
    <3> QED BY <1>1, <1>3, <2>1, <2>5, <3>1, <3>2 DEF Holds
  <2>6. CASE Holds(proc[g].plugin, g) /\ g # n
    <3>1. CASE proc[g].plugin = p /\ Registered(p)
      BY <1>7, <2>3, <2>6, <3>1 DEF Holds
    <3>2. CASE proc[g].plugin = p /\ ~Registered(p)
      BY <1>0, <1>1, <1>3, <2>1, <2>6, <3>2 DEF Holds
    <3>3. CASE proc[g].plugin # p
      <4>1. proc[g].plugin \in Plugin BY <2>1 DEF PluginInv, HandlesInv, Born
      <4>2. entry'[proc'[g].plugin] = entry[proc[g].plugin] BY <1>0, <1>3, <2>1, <3>3, <4>1
      <4> QED BY <2>6, <4>2 DEF Holds
    <3> QED BY <3>1, <3>2, <3>3
  <2>7. CASE \E u \in Task : At(u, "store") /\ task[u].transport = g
    BY <1>0, <2>7 DEF BeingStarted, At
  <2>8. CASE (\E k \in Handle : proc[k].loop = "store" /\ proc[k].heir = g) /\ g # n
    <3>1. PICK k \in Handle : proc[k].loop = "store" /\ proc[k].heir = g BY <2>8
    <3>2. k # h BY <2>8, <3>1 DEF n
    <3>3. k # n BY <1>1, <3>1
    <3> QED BY <1>8, <3>1, <3>2, <3>3 DEF BeingStarted
  <2> QED BY <2>4, <2>5, <2>6, <2>7, <2>8 DEF BeingStarted
<1> QED BY <1>10, <1>11, <1>12, <1>13, <1>14 DEF PluginInv

-----------------------------------------------------------------------------
LEMMA PluginInit == Init => PluginInv
<1> SUFFICES ASSUME Init PROVE PluginInv
  OBVIOUS
<1>1. /\ \A p \in Plugin : entry[p] = Absent
      /\ \A h \in Handle : proc[h] = Unborn
      /\ \A t \in Task : task[t] = Idle
  BY DEF Init
<1>2. TypeOK
  <2>1. Unborn \in Process BY DEF Unborn, Process
  <2>2. Absent \in Entry /\ Absent.state = "absent" BY DEF Absent, Entry, PluginState
  <2>3. unread \subseteq Plugin \X BOOLEAN
    <3>1. ASSUME NEW x \in unread PROVE \E p \in Plugin, b \in BOOLEAN : x = <<p, b>>
      BY DEF Init
    <3> QED BY <3>1
  <2>4. issued \in 0 .. MaxCommands BY PluginAssumption DEF Init
  <2>5. proc \in [Handle -> Process] /\ entry \in [Plugin -> Entry] /\ task \in [Task -> TaskRecord]
    BY <2>1, <2>2, IdleType DEF Init
  <2> QED BY <1>1, <2>2, <2>3, <2>4, <2>5, PluginAssumption DEF Init, TypeOK, Registered
<1>3. HandlesInv BY <1>1 DEF HandlesInv, Born, Unborn
<1>4. TasksInv BY <1>1, IdleType DEF TasksInv, TaskFits, At
<1>5. LoopsInv BY <1>1 DEF LoopsInv, LoopFits, Unborn
<1>6. NoOrphan BY <1>1 DEF NoOrphan, Unborn
<1> QED BY <1>2, <1>3, <1>4, <1>5, <1>6 DEF PluginInv

LEMMA PluginNext == PluginInv /\ [Next]_vars => PluginInv'
<1> SUFFICES ASSUME PluginInv, [Next]_vars PROVE PluginInv'
  OBVIOUS
<1>1. CASE UNCHANGED vars
  BY <1>1 DEF vars, PluginInv, TypeOK, HandlesInv, TasksInv, TaskFits, LoopsInv, LoopFits,
              NoOrphan, Registered, Born, At, Holds, BeingStarted
<1>2. CASE StartUp BY <1>2, LoadInv DEF StartUp
<1>3. ASSUME NEW t \in Task, NEW p \in Plugin, Request(t, p) PROVE PluginInv'
  BY <1>3, AddInv, RemoveInv, EnableInv, DisableInv, RestartInv DEF Request
<1>4. ASSUME NEW t \in Task, Work(t) PROVE PluginInv'
  BY <1>4, SpawnInv, StoreNewInv, StoreStartedInv, ReportFailedInv, UnlinkInv DEF Work
<1>5. ASSUME NEW h \in Handle, Exit(h) \/ Listen(h) PROVE PluginInv'
  BY <1>5, ExitInv, HeardInv, StartAgainInv, StoreAgainInv DEF Listen
<1> QED BY <1>1, <1>2, <1>3, <1>4, <1>5 DEF Next

(* The types hold in every reachable state: an entry that says Running has a
   handle, and what a command or exit loop is about to store is a handle of
   its plugin (manager.rs 255-690). *)
THEOREM PluginTypes == Spec => []TypeOK
<1>1. PluginInv => TypeOK BY DEF PluginInv
<1> QED BY <1>1, PluginInit, PluginNext, PTL DEF Spec

(* Whatever additions, removals, restarts, crashes and failed starts overlap,
   a process nobody has told to end is held by its plugin's entry, or by the
   command or exit loop that has just started it (manager.rs 413-416 and
   489-493): the registry can always stop it. *)
THEOREM NoProcessEscapes == Spec => []NoOrphan
<1>1. PluginInv => NoOrphan BY DEF PluginInv
<1> QED BY <1>1, PluginInit, PluginNext, PTL DEF Spec

-----------------------------------------------------------------------------
(***************************************************************************)
(* The files follow the registry.  FilesMatchRegistry speaks of the        *)
(* instants when no command is under way; the invariant says which command *)
(* will set right what differs until then, and, for the time before the    *)
(* first request, what start-up has still to load.                         *)
(***************************************************************************)

(* Start-up has entries to load, or one it has not stored yet. *)
Starting == unread # {} \/ ~At(Boot, "idle")

SavedIn(p, inDir) == IF inDir THEN DropInAtStart[p] ELSE TomlAtStart[p]
OnlyDropIns       == \A other \in unread : other[2]

(* An entry of p that start-up loaded from one of the files is the one to
   stay, or the other file's is still to replace it. *)
Source(p, inDir) ==
  /\ SavedIn(p, inDir) # "absent"
  /\ IF inDir THEN OnlyDropIns
     ELSE DropInAtStart[p] = "absent" \/ <<p, TRUE>> \in unread

(* Start-up works alone.  Commands have a kind each, and an addition is
   always to plugins.d. *)
KindsInv ==
  /\ task[Boot].pc \in {"idle", "spawn", "store", "giveup"}
  /\ ~At(Boot, "idle") => /\ task[Boot].op = "boot"
                          /\ Source(task[Boot].plugin, task[Boot].inDir)
  /\ \A t \in Admin : /\ task[t].op # "boot"
                      /\ task[t].op = "add" => task[t].inDir
  /\ Starting => /\ toml = TomlAtStart /\ dropIn = DropInAtStart
                 /\ \A t \in Admin : At(t, "idle")

(* While start-up loads the files: who is in one is registered, or is still to
   be loaded from each of the files that name it, or is being loaded. *)
BootFits(p) ==
  /\ \A inDir \in BOOLEAN :
       /\ <<p, inDir>> \in unread => SavedIn(p, inDir) # "absent"
       /\ SavedIn(p, inDir) # "absent" /\ ~Registered(p)
            => \/ <<p, inDir>> \in unread
               \/ ~At(Boot, "idle") /\ task[Boot].plugin = p
  /\ Registered(p) => Source(p, entry[p].inDir)
  /\ ~OnlyDropIns /\ DropInAtStart[p] # "absent" => <<p, TRUE>> \in unread

Unlinking(p) ==
  \E t \in Task : At(t, "unlink") /\ task[t].plugin = p /\ task[t].inDir
Removing  == \E t \in Task : At(t, "unlink")
Saving    == \E t \in Task : At(t, "persist")
Adding(p) == \E t \in Task : /\ task[t].op = "add" /\ task[t].plugin = p
                             /\ task[t].pc \in {"spawn", "store", "giveup"}

(* Afterwards: where files and registry differ, a command is on its way that
   will set it right.  Only the drop-in file needs a removal of that very
   plugin; whoever rewrites the files rewrites them all. *)
RunFits(p) ==
  /\ ~Registered(p) /\ dropIn[p] # "absent" => Unlinking(p)
  /\ ~Registered(p) /\ toml[p] # "absent" => Removing \/ Saving
  /\ Registered(p) /\ toml[p] = "absent" /\ dropIn[p] = "absent"
       => Saving \/ Adding(p)
  /\ Registered(p) /\ ~entry[p].inDir => dropIn[p] = "absent"

FilesInv == /\ KindsInv
            /\ Starting  => \A p \in Plugin : BootFits(p)
            /\ ~Starting => \A p \in Plugin : RunFits(p)

-----------------------------------------------------------------------------
(* Steps that register and remove nobody. *)
SameRegistry ==
  \A p \in Plugin : (Registered(p)' <=> Registered(p)) /\ entry'[p].inDir = entry[p].inDir

LEMMA OthersWait ==
  ASSUME PluginInv, NEW t \in Task, NEW r, task' = [task EXCEPT ![t] = r]
  PROVE  task'[t] = r /\ \A u \in Task : u # t => task'[u] = task[u]
BY DEF PluginInv, TypeOK

LEMMA EntryChange ==
  ASSUME PluginInv, NEW p \in Plugin, NEW e, entry' = [entry EXCEPT ![p] = e]
  PROVE  entry'[p] = e /\ \A q \in Plugin : q # p => entry'[q] = entry[q]
BY DEF PluginInv, TypeOK

LEMMA WhoIsWho == Boot \in Task /\ Boot \notin Admin /\ \A t \in Task : t # Boot => t \in Admin
BY PluginAssumption DEF Task

(* A command goes on without touching the files; whatever it was to set right
   it still is. *)
StillAtIt(t) ==
  /\ ~At(t, "unlink") /\ ~At(t, "persist")
  /\ task[t].op = "add" /\ task[t].pc \in {"spawn", "store", "giveup"} =>
       \/ task'[t].pc = "persist"
       \/ /\ task'[t].op = "add" /\ task'[t].plugin = task[t].plugin
          /\ task'[t].pc \in {"spawn", "store", "giveup"}

LEMMA UnsavedFits ==
  ASSUME NEW t \in Task, \A u \in Task : u # t => task'[u] = task[u], StillAtIt(t),
         UNCHANGED files, NEW p \in Plugin, RunFits(p), Registered(p)' <=> Registered(p),
         entry'[p].inDir = entry[p].inDir
  PROVE  RunFits(p)'
<1>1. toml' = toml /\ dropIn' = dropIn BY DEF files
<1>2. Unlinking(p) => Unlinking(p)' BY DEF Unlinking, StillAtIt, At
<1>3. Removing => Removing' BY DEF Removing, StillAtIt, At
<1>4. Saving => Saving' BY DEF Saving, StillAtIt, At
<1>5. Adding(p) => Saving' \/ Adding(p)'
  <2>1. SUFFICES ASSUME NEW u \in Task, task[u].op = "add", task[u].plugin = p,
                        task[u].pc \in {"spawn", "store", "giveup"}
                 PROVE  Saving' \/ Adding(p)'
    BY DEF Adding
  <2>2. CASE u = t BY <2>1, <2>2 DEF StillAtIt, Saving, Adding, At
  <2>3. CASE u # t
    <3>1. task'[u] = task[u] BY <2>3
    <3>2. QED BY <2>1, <3>1 DEF Adding
  <2>4. QED BY <2>2, <2>3
<1> QED BY <1>1, <1>2, <1>3, <1>4, <1>5 DEF RunFits

(* persist_config puts both files right, but for the drop-in file of a plugin
   that is being removed. *)
LEMMA PersistedFits ==
  ASSUME NEW t \in Task, \A u \in Task : u # t => task'[u] = task[u],
         ~At(t, "unlink"), Persist(entry'), NEW p \in Plugin, RunFits(p),
         Registered(p)' <=> Registered(p), entry'[p].inDir = entry[p].inDir
  PROVE  RunFits(p)'
<1>1. Unlinking(p) => Unlinking(p)' BY DEF Unlinking, At
<1>2. toml'[p] = IF Registered(p)' /\ ~entry'[p].inDir THEN SavedAs(entry'[p]) ELSE "absent"
  BY DEF Persist, Registered
<1>3. dropIn'[p] = IF Registered(p)' /\ entry'[p].inDir THEN SavedAs(entry'[p]) ELSE dropIn[p]
  BY DEF Persist, Registered
<1>4. SavedAs(entry'[p]) # "absent" BY DEF SavedAs
<1> QED BY <1>1, <1>2, <1>3, <1>4 DEF RunFits

-----------------------------------------------------------------------------
(* Start-up. *)

LEMMA LoadFiles ==
  ASSUME PluginInv, FilesInv, NEW p \in Plugin, NEW inDir \in BOOLEAN, Load(p, inDir)
  PROVE  FilesInv'
<1> DEFINE enabled == SavedIn(p, inDir) = "enabled"
           r == [Idle EXCEPT !.pc = IF enabled THEN "spawn" ELSE "store",
                             !.op = "boot", !.plugin = p, !.enabled = enabled,
                             !.inDir = inDir]
<1>1. /\ At(Boot, "idle") /\ <<p, inDir>> \in unread /\ (inDir => OnlyDropIns)
      /\ unread' = unread \ {<<p, inDir>>} /\ entry' = [entry EXCEPT ![p] = Absent]
      /\ UNCHANGED files
  BY DEF Load, OnlyDropIns
<1>2. task' = [task EXCEPT ![Boot] = r] BY DEF Load, SavedIn
<1>3. r.op = "boot" /\ r.plugin = p /\ r.inDir = inDir /\ r.pc \in {"spawn", "store"}
  BY DEF Idle
<1> HIDE DEF r
<1>4. task'[Boot] = r /\ \A u \in Task : u # Boot => task'[u] = task[u]
  BY <1>2, OthersWait, WhoIsWho
<1>5. Starting /\ Starting' BY <1>1, <1>3, <1>4 DEF Starting, At
<1>6. /\ toml' = TomlAtStart /\ dropIn' = DropInAtStart
      /\ \A t \in Admin : task'[t] = task[t] /\ At(t, "idle")
  BY <1>1, <1>4, <1>5, WhoIsWho DEF FilesInv, KindsInv, files, Task
<1>7. entry'[p] = Absent /\ \A q \in Plugin : q # p => entry'[q] = entry[q]
  BY <1>1, EntryChange
<1>8. OnlyDropIns => OnlyDropIns' BY <1>1 DEF OnlyDropIns
<1>9. ~inDir => ~OnlyDropIns BY <1>1 DEF OnlyDropIns
<1>10. \A q \in Plugin : BootFits(q) BY <1>5 DEF FilesInv
<1>11. Source(p, inDir)'
  <2>1. SavedIn(p, inDir) # "absent" BY <1>1, <1>10 DEF BootFits
  <2>2. inDir => OnlyDropIns' BY <1>1, <1>8
  <2>3. ~inDir => DropInAtStart[p] = "absent" \/ <<p, TRUE>> \in unread
    BY <1>9, <1>10 DEF BootFits
  <2>4. ~inDir /\ <<p, TRUE>> \in unread => <<p, TRUE>> \in unread'
    BY <1>1
  <2>5. QED BY <2>1, <2>2, <2>3, <2>4 DEF Source, SavedIn
<1>12. KindsInv'
  <2>1. \A t \in Admin : task'[t].op # "boot" /\ (task'[t].op = "add" => task'[t].inDir)
    BY <1>6 DEF FilesInv, KindsInv
  <2>2. \A t \in Admin : At(t, "idle")' BY <1>6 DEF At
  <2>3. QED BY <1>3, <1>4, <1>6, <1>11, <2>1, <2>2 DEF KindsInv
<1>13. ASSUME NEW q \in Plugin PROVE BootFits(q)'
  <2>1. BootFits(q) BY <1>10
  <2>2. ~Registered(p)' BY <1>7 DEF Registered, Absent
  <2>3. q # p => /\ Registered(q)' <=> Registered(q)
                 /\ entry'[q].inDir = entry[q].inDir
                 /\ \A i \in BOOLEAN : <<q, i>> \in unread' <=> <<q, i>> \in unread
    BY <1>1, <1>7 DEF Registered
  <2>4. ~At(Boot, "idle")' /\ task'[Boot].plugin = p BY <1>3, <1>4 DEF At
  <2>5. \A i \in BOOLEAN : /\ <<q, i>> \in unread' => SavedIn(q, i) # "absent"
                           /\ SavedIn(q, i) # "absent" /\ ~Registered(q)'
                                => \/ <<q, i>> \in unread'
                                   \/ ~At(Boot, "idle")' /\ task'[Boot].plugin = q
    BY <1>1, <2>1, <2>3, <2>4 DEF BootFits, At
  <2>6. Registered(q)' => Source(q, entry[q].inDir)'
    <3>1. SUFFICES ASSUME Registered(q)', q # p PROVE Source(q, entry[q].inDir)'
      BY <2>2
    <3>2. Source(q, entry[q].inDir) BY <2>1, <2>3, <3>1 DEF BootFits
    <3>3. QED BY <1>8, <2>3, <3>1, <3>2 DEF Source, SavedIn
  <2>7. ~OnlyDropIns' /\ DropInAtStart[q] # "absent" => <<q, TRUE>> \in unread'
    <3>1. SUFFICES ASSUME ~OnlyDropIns', DropInAtStart[q] # "absent"
                   PROVE  <<q, TRUE>> \in unread'
      OBVIOUS
    <3>2. ~inDir /\ <<q, TRUE>> \in unread BY <1>1, <1>8, <2>1, <3>1 DEF BootFits
    <3>3. QED BY <1>1, <3>2
  <2>8. QED BY <2>5, <2>6, <2>7 DEF BootFits, SavedIn
<1> QED BY <1>5, <1>12, <1>13 DEF FilesInv

(* The last entry stored ends start-up: then everyone in a file is registered
   and everyone registered is in one. *)
LEMMA BootStored ==
  ASSUME PluginInv, FilesInv, StoreNew(Boot)
  PROVE  FilesInv'
<1>1. task[Boot].op = "boot" /\ ~At(Boot, "idle") /\ Starting
  BY DEF StoreNew, FilesInv, KindsInv, At, Starting
<1>2. PICK p \in Plugin : p = task[Boot].plugin
  BY <1>1, WhoIsWho DEF PluginInv, TasksInv, TaskFits
<1>0. Source(p, task[Boot].inDir) BY <1>1, <1>2 DEF FilesInv, KindsInv
<1>3. PICK state \in {"Crashed", "Running", "Disabled"} :
        entry' = [entry EXCEPT ![p] = NewEntry(Boot, state)]
  BY <1>2 DEF StoreNew
<1>4. task' = [task EXCEPT ![Boot] = Idle] /\ unread' = unread /\ UNCHANGED files
  BY <1>1 DEF StoreNew, Finish
<1>5. task'[Boot].pc = "idle" /\ \A u \in Task : u # Boot => task'[u] = task[u]
  BY <1>4, OthersWait, WhoIsWho, IdleType
<1>6. /\ toml' = TomlAtStart /\ dropIn' = DropInAtStart
      /\ \A t \in Admin : task'[t] = task[t] /\ At(t, "idle")
  BY <1>1, <1>4, <1>5, WhoIsWho DEF FilesInv, KindsInv, files, Task
<1>7. /\ \A q \in Plugin : q # p => entry'[q] = entry[q]
      /\ entry'[p] = NewEntry(Boot, state)
  BY <1>2, <1>3, EntryChange
<1>8. Registered(p)' /\ entry'[p].inDir = task[Boot].inDir
  BY <1>7 DEF Registered, NewEntry
<1>9. KindsInv'
  BY <1>5, <1>6 DEF FilesInv, KindsInv, At
<1>10. OnlyDropIns' <=> OnlyDropIns BY <1>4 DEF OnlyDropIns
<1>11. \A q \in Plugin : BootFits(q) BY <1>1 DEF FilesInv
<1>12. ASSUME NEW q \in Plugin
       PROVE  /\ Registered(q)' => Source(q, entry'[q].inDir)
              /\ \A inDir \in BOOLEAN :
                   SavedIn(q, inDir) # "absent" /\ ~Registered(q)' => <<q, inDir>> \in unread
  <2>1. CASE q = p BY <1>0, <1>8, <2>1
  <2>2. CASE q # p
    <3>1. entry'[q] = entry[q] /\ (Registered(q)' <=> Registered(q))
      BY <1>7, <2>2 DEF Registered
    <3>2. QED BY <1>2, <1>11, <2>2, <3>1 DEF BootFits
  <2>3. QED BY <2>1, <2>2
<1>13. CASE Starting'
  <2>1. ASSUME NEW q \in Plugin PROVE BootFits(q)'
    <3>1. BootFits(q) BY <1>11
    <3>2. Registered(q)' => Source(q, entry[q].inDir)'
      BY <1>4, <1>10, <1>12 DEF Source, SavedIn
    <3>3. QED BY <1>4, <1>10, <1>12, <3>1, <3>2 DEF BootFits, SavedIn
  <2>2. QED BY <1>9, <1>13, <2>1 DEF FilesInv
<1>14. CASE ~Starting'
  <2>1. unread = {} BY <1>4, <1>14 DEF Starting
  <2>2. ASSUME NEW q \in Plugin PROVE RunFits(q)'
    <3>1. ~Registered(q)' => TomlAtStart[q] = "absent" /\ DropInAtStart[q] = "absent"
      <4>1. \A inDir \in BOOLEAN : ~Registered(q)' => SavedIn(q, inDir) = "absent"
        BY <1>12, <2>1
      <4>2. QED BY <4>1 DEF SavedIn
    <3>2. Registered(q)' => /\ SavedIn(q, entry'[q].inDir) # "absent"
                            /\ entry'[q].inDir \/ DropInAtStart[q] = "absent"
      BY <1>12, <2>1 DEF Source
    <3>3. QED BY <1>6, <3>1, <3>2 DEF RunFits, SavedIn
  <2>3. QED BY <1>9, <1>14, <2>2 DEF FilesInv
<1> QED BY <1>13, <1>14

-----------------------------------------------------------------------------
(* Commands.  They begin when start-up is over. *)

LEMMA Begun ==
  ASSUME FilesInv, NEW t \in Task, Issue(t) \/ (t # Boot /\ ~At(t, "idle"))
  PROVE  t \in Admin /\ ~Starting /\ unread = {} /\ At(Boot, "idle")
         /\ \A p \in Plugin : RunFits(p)
<1>1. t \in Admin BY WhoIsWho DEF Issue
<1>2. ~Starting BY <1>1 DEF Issue, Starting, FilesInv, KindsInv
<1> QED BY <1>1, <1>2 DEF FilesInv, Starting

(* A step of a command keeps the invariant if it keeps each plugin's part. *)
LEMMA CommandFits ==
  ASSUME FilesInv, NEW t \in Admin, ~Starting, unread' = unread,
         \A u \in Task : u # t => task'[u] = task[u],
         task'[t].op # "boot", task'[t].op = "add" => task'[t].inDir,
         \A p \in Plugin : RunFits(p)'
  PROVE  FilesInv'
<1>1. task'[Boot] = task[Boot] BY WhoIsWho
<1>2. ~Starting' BY <1>1 DEF Starting, At
<1>3. At(Boot, "idle")' BY <1>1 DEF Starting, At
<1>4. \A u \in Admin : task'[u].op # "boot" /\ (task'[u].op = "add" => task'[u].inDir)
  BY DEF FilesInv, KindsInv, Task
<1>5. KindsInv' BY <1>1, <1>2, <1>3, <1>4 DEF KindsInv, FilesInv, At
<1> QED BY <1>2, <1>5 DEF FilesInv

LEMMA IdleFacts == Idle.op = "none" /\ Idle.pc = "idle"
BY DEF Idle

LEMMA IdleStillAtIt ==
  ASSUME NEW t, At(t, "idle") PROVE StillAtIt(t)
BY DEF StillAtIt, At

LEMMA AddFiles ==
  ASSUME PluginInv, FilesInv, NEW t \in Task, NEW p \in Plugin, NEW enabled \in BOOLEAN,
         AddPlugin(t, p, enabled)
  PROVE  FilesInv'
<1> DEFINE e == [Absent EXCEPT !.state = "Starting", !.inDir = TRUE, !.enabled = enabled]
           r == [Idle EXCEPT !.pc = IF enabled THEN "spawn" ELSE "store", !.op = "add",
                             !.plugin = p, !.enabled = enabled, !.inDir = TRUE]
<1>1. /\ Issue(t) /\ ~Registered(p) /\ task' = [task EXCEPT ![t] = r]
      /\ entry' = [entry EXCEPT ![p] = e] /\ UNCHANGED files
  BY DEF AddPlugin
<1>2. r.op = "add" /\ r.plugin = p /\ r.inDir /\ r.pc \in {"spawn", "store"}
  BY DEF Idle
<1>3. e.state = "Starting" /\ e.inDir BY DEF Absent
<1> HIDE DEF r, e
<1>4. task'[t] = r /\ \A u \in Task : u # t => task'[u] = task[u]
  BY <1>1, OthersWait
<1>5. entry'[p] = e /\ \A q \in Plugin : q # p => entry'[q] = entry[q]
  BY <1>1, EntryChange
<1>6. t \in Admin /\ ~Starting /\ \A q \in Plugin : RunFits(q) BY <1>1, Begun
<1>7. unread' = unread BY <1>1 DEF Issue
<1>8. StillAtIt(t) BY <1>1, IdleStillAtIt DEF Issue
<1>9. ASSUME NEW q \in Plugin PROVE RunFits(q)'
  <2>1. CASE q # p
    <3>1. (Registered(q)' <=> Registered(q)) /\ entry'[q].inDir = entry[q].inDir
      BY <1>5, <2>1 DEF Registered
    <3>2. QED BY <1>1, <1>4, <1>6, <1>8, <3>1, UnsavedFits
  <2>2. CASE q = p
    <3>1. Adding(p)' BY <1>2, <1>4 DEF Adding
    <3>2. Registered(p)' /\ entry'[p].inDir BY <1>3, <1>5 DEF Registered
    <3>3. QED BY <2>2, <3>1, <3>2 DEF RunFits
  <2>3. QED BY <2>1, <2>2
<1> QED BY <1>2, <1>4, <1>6, <1>7, <1>9, CommandFits

(* The file of a plugin from config.toml is not there to be deleted. *)
LEMMA RemoveFiles ==
  ASSUME PluginInv, FilesInv, NEW t \in Task, NEW p \in Plugin, RemovePlugin(t, p)
  PROVE  FilesInv'
<1> DEFINE r == [Idle EXCEPT !.pc = "unlink", !.op = "remove", !.plugin = p,
                             !.inDir = entry[p].inDir]
<1>1. /\ Issue(t) /\ Registered(p) /\ task' = [task EXCEPT ![t] = r]
      /\ entry' = [entry EXCEPT ![p] = Absent] /\ UNCHANGED files
  BY DEF RemovePlugin
<1>2. r.pc = "unlink" /\ r.op = "remove" /\ r.plugin = p /\ r.inDir = entry[p].inDir
  BY DEF Idle
<1> HIDE DEF r
<1>3. task'[t] = r /\ \A u \in Task : u # t => task'[u] = task[u]
  BY <1>1, OthersWait
<1>4. entry'[p] = Absent /\ \A q \in Plugin : q # p => entry'[q] = entry[q]
  BY <1>1, EntryChange
<1>5. t \in Admin /\ ~Starting /\ \A q \in Plugin : RunFits(q) BY <1>1, Begun
<1>6. unread' = unread BY <1>1 DEF Issue
<1>7. StillAtIt(t) BY <1>1, IdleStillAtIt DEF Issue
<1>8. ASSUME NEW q \in Plugin PROVE RunFits(q)'
  <2>1. CASE q # p
    <3>1. (Registered(q)' <=> Registered(q)) /\ entry'[q].inDir = entry[q].inDir
      BY <1>4, <2>1 DEF Registered
    <3>2. QED BY <1>1, <1>3, <1>5, <1>7, <3>1, UnsavedFits
  <2>2. CASE q = p
    <3>1. RunFits(p) BY <1>5
    <3>2. ~Registered(p)' BY <1>4 DEF Registered, Absent
    <3>3. Removing' BY <1>2, <1>3 DEF Removing, At
    <3>4. dropIn'[p] # "absent" => entry[p].inDir BY <1>1, <3>1 DEF RunFits, files
    <3>5. entry[p].inDir => Unlinking(p)' BY <1>2, <1>3 DEF Unlinking, At
    <3>6. QED BY <2>2, <3>2, <3>3, <3>4, <3>5 DEF RunFits
  <2>3. QED BY <2>1, <2>2
<1> QED BY <1>2, <1>3, <1>5, <1>6, <1>8, CommandFits

(* Switching a plugin on or off, or restarting it, begins by marking its entry. *)
LEMMA MarkFiles ==
  ASSUME PluginInv, FilesInv, NEW t \in Task, NEW p \in Plugin, NEW e, NEW r,
         Issue(t), Registered(p), entry' = [entry EXCEPT ![p] = e],
         e.state # "absent", e.inDir = entry[p].inDir,
         task' = [task EXCEPT ![t] = r], r = task[t] \/ r.op \in {"enable", "restart"},
         UNCHANGED files \/ Persist(entry')
  PROVE  FilesInv'
<1>1. task'[t] = r /\ \A u \in Task : u # t => task'[u] = task[u]
  BY OthersWait
<1>2. entry'[p] = e /\ \A q \in Plugin : q # p => entry'[q] = entry[q]
  BY EntryChange
<1>3. t \in Admin /\ ~Starting /\ \A q \in Plugin : RunFits(q) BY Begun
<1>4. unread' = unread BY DEF Issue
<1>5. At(t, "idle") BY DEF Issue
<1>6. StillAtIt(t) BY <1>5, IdleStillAtIt
<1>7. ASSUME NEW q \in Plugin PROVE RunFits(q)'
  <2>1. Registered(q)' <=> Registered(q)
    <3>1. CASE q = p BY <1>2, <3>1 DEF Registered
    <3>2. CASE q # p BY <1>2, <3>2 DEF Registered
    <3>3. QED BY <3>1, <3>2
  <2>2. entry'[q].inDir = entry[q].inDir BY <1>2
  <2>3. CASE UNCHANGED files BY <1>1, <1>3, <1>6, <2>1, <2>2, <2>3, UnsavedFits
  <2>4. CASE Persist(entry')
    <3>1. ~At(t, "unlink") BY <1>5 DEF At
    <3>2. QED BY <1>1, <1>3, <2>1, <2>2, <2>4, <3>1, PersistedFits
  <2>5. QED BY <2>3, <2>4
<1>8. r.op # "boot" /\ (r.op = "add" => r.inDir)
  BY <1>3 DEF FilesInv, KindsInv
<1> QED BY <1>1, <1>3, <1>4, <1>7, <1>8, CommandFits

LEMMA EnableFiles ==
  ASSUME PluginInv, FilesInv, NEW t \in Task, NEW p \in Plugin, Enable(t, p)
  PROVE  FilesInv'
<1> DEFINE starts == entry[p].transport = None /\ entry[p].state # "Starting"
           e == [entry[p] EXCEPT !.enabled = TRUE, !.state = IF starts THEN "Starting" ELSE @]
           begun == [Idle EXCEPT !.pc = "spawn", !.op = "enable", !.plugin = p, !.enabled = TRUE]
           r == IF starts THEN begun ELSE task[t]
<1>0. task \in [Task -> TaskRecord] /\ entry \in [Plugin -> Entry] /\ Registered(p)
  BY DEF PluginInv, TypeOK, Enable
<1>1. /\ entry' = [entry EXCEPT ![p] = e] /\ task' = [task EXCEPT ![t] = r]
      /\ Issue(t) /\ UNCHANGED files
  BY <1>0 DEF Enable
<1>2. r = task[t] \/ r.op \in {"enable", "restart"}
  <2>1. begun.op = "enable" BY DEF Idle
  <2>2. r = begun \/ r = task[t] OBVIOUS
  <2> HIDE DEF begun, r
  <2>3. QED BY <2>1, <2>2
<1>3. e.state # "absent" /\ e.inDir = entry[p].inDir
  BY <1>0 DEF Entry, Registered
<1> HIDE DEF begun, r, e
<1> QED BY <1>0, <1>1, <1>2, <1>3, MarkFiles

LEMMA DisableFiles ==
  ASSUME PluginInv, FilesInv, NEW t \in Task, NEW p \in Plugin, Disable(t, p)
  PROVE  FilesInv'
<1> DEFINE e == [entry[p] EXCEPT !.enabled = FALSE, !.state = "Disabled", !.transport = None]
<1>1. /\ entry' = [entry EXCEPT ![p] = e] /\ task' = [task EXCEPT ![t] = task[t]]
      /\ Issue(t) /\ Registered(p) /\ Persist(entry')
  BY DEF Disable, PluginInv, TypeOK
<1>2. e.state # "absent" /\ e.inDir = entry[p].inDir
  BY DEF PluginInv, TypeOK, Entry
<1> HIDE DEF e
<1> QED BY <1>1, <1>2, MarkFiles

LEMMA RestartFiles ==
  ASSUME PluginInv, FilesInv, NEW t \in Task, NEW p \in Plugin, Restart(t, p)
  PROVE  FilesInv'
<1> DEFINE e == [entry[p] EXCEPT !.state = "Stopped", !.transport = None]
           r == [Idle EXCEPT !.pc = "spawn", !.op = "restart", !.plugin = p,
                             !.enabled = entry[p].enabled]
<1>1. /\ entry' = [entry EXCEPT ![p] = e] /\ task' = [task EXCEPT ![t] = r]
      /\ Issue(t) /\ Registered(p) /\ UNCHANGED files
  BY DEF Restart
<1>2. e.state # "absent" /\ e.inDir = entry[p].inDir
  BY DEF PluginInv, TypeOK, Entry
<1>3. r.op = "restart" BY DEF Idle
<1> HIDE DEF e, r
<1> QED BY <1>1, <1>2, <1>3, MarkFiles

-----------------------------------------------------------------------------
(* The steps of a command after its first. *)

(* A process has been started, or not. *)
LEMMA SpawnFiles ==
  ASSUME PluginInv, FilesInv, NEW t \in Task, Spawn(t)
  PROVE  FilesInv'
<1>0. task[t] \in TaskRecord BY DEF PluginInv, TypeOK
<1>1. /\ At(t, "spawn") /\ unread' = unread /\ entry' = entry /\ UNCHANGED files
      /\ toml' = toml /\ dropIn' = dropIn
  BY DEF Spawn, files
<1>2. PICK r : /\ task' = [task EXCEPT ![t] = r] /\ r.pc \in {"store", "giveup"}
               /\ r.op = task[t].op /\ r.plugin = task[t].plugin
               /\ r.inDir = task[t].inDir
  <2>1. task \in [Task -> TaskRecord] BY DEF PluginInv, TypeOK
  <2>2. CASE Goto(t, "giveup")
    <3> DEFINE r == [task[t] EXCEPT !.pc = "giveup"]
    <3>1. task' = [task EXCEPT ![t] = r] BY <2>2 DEF Goto
    <3>2. r.pc = "giveup" /\ r.op = task[t].op /\ r.plugin = task[t].plugin
            /\ r.inDir = task[t].inDir
      BY <1>0 DEF TaskRecord
    <3>3. QED BY <3>1, <3>2
  <2>3. CASE task' = [task EXCEPT ![t].pc = "store", ![t].transport = NewHandle]
    <3> DEFINE r == [task[t] EXCEPT !.pc = "store", !.transport = NewHandle]
    <3>1. task' = [task EXCEPT ![t] = r] BY <2>1, <2>3
    <3>2. r.pc = "store" /\ r.op = task[t].op /\ r.plugin = task[t].plugin
            /\ r.inDir = task[t].inDir
      BY <1>0 DEF TaskRecord
    <3>3. QED BY <3>1, <3>2
  <2>4. QED BY <2>2, <2>3 DEF Spawn
<1>3. task'[t] = r /\ \A u \in Task : u # t => task'[u] = task[u]
  BY <1>2, OthersWait
<1>4. CASE t # Boot
  <2>1. ~At(t, "idle") BY <1>1 DEF At
  <2>2. t \in Admin /\ ~Starting /\ \A p \in Plugin : RunFits(p) BY <1>4, <2>1, Begun
  <2>3. StillAtIt(t) BY <1>1, <1>2, <1>3 DEF StillAtIt, At
  <2>4. ASSUME NEW p \in Plugin PROVE RunFits(p)'
    <3>1. Registered(p)' <=> Registered(p) BY <1>1 DEF Registered
    <3>2. QED BY <1>1, <1>3, <2>2, <2>3, <3>1, UnsavedFits
  <2>5. r.op # "boot" /\ (r.op = "add" => r.inDir)
    BY <1>2, <2>2 DEF FilesInv, KindsInv
  <2>6. QED BY <1>1, <1>3, <2>2, <2>4, <2>5, CommandFits
<1>5. CASE t = Boot
  <2>1. Starting /\ Starting' BY <1>1, <1>2, <1>3, <1>5 DEF Starting, At
  <2>2. \A u \in Admin : task'[u] = task[u] BY <1>3, <1>5, WhoIsWho DEF Task
  <2>3. \A p \in Plugin, i \in BOOLEAN : Source(p, i) => Source(p, i)'
    BY <1>1 DEF Source, SavedIn, OnlyDropIns
  <2>4. /\ task'[Boot].pc \in {"store", "giveup"} /\ task'[Boot].op = task[Boot].op
        /\ task'[Boot].plugin = task[Boot].plugin /\ task'[Boot].inDir = task[Boot].inDir
        /\ ~At(Boot, "idle")
    BY <1>1, <1>2, <1>3, <1>5 DEF At
  <2>5. task[Boot].plugin \in Plugin /\ task[Boot].inDir \in BOOLEAN
    BY <1>0, <1>5, <2>4, TaskFacts DEF TaskFits, TaskRecord
  <2>6. Source(task[Boot].plugin, task[Boot].inDir)' 
    BY <1>1, <2>4, <2>5 DEF Source, SavedIn, OnlyDropIns, FilesInv, KindsInv
  <2>7. KindsInv'
    BY <1>1, <2>1, <2>2, <2>4, <2>6 DEF FilesInv, KindsInv, At
  <2>8. ASSUME NEW p \in Plugin PROVE BootFits(p)'
    <3>1. BootFits(p) BY <2>1 DEF FilesInv
    <3>2. Registered(p)' <=> Registered(p) BY <1>1 DEF Registered
    <3>3. Registered(p) => Source(p, entry[p].inDir)'
      BY <1>1, <3>1 DEF BootFits, Source, SavedIn, OnlyDropIns
    <3>4. OnlyDropIns' <=> OnlyDropIns BY <1>1 DEF OnlyDropIns
    <3>5. ~At(Boot, "idle")' BY <2>4 DEF At
    <3>6. QED BY <1>1, <2>4, <3>1, <3>2, <3>3, <3>4, <3>5 DEF BootFits, SavedIn
  <2>9. QED BY <2>1, <2>7, <2>8 DEF FilesInv
<1> QED BY <1>4, <1>5

(* An addition stores its entry: it has still to write the files. *)
LEMMA StoreNewFiles ==
  ASSUME PluginInv, FilesInv, NEW t \in Task, StoreNew(t)
  PROVE  FilesInv'
<1>1. CASE t = Boot BY <1>1, BootStored
<1>2. CASE t # Boot
  <2>1. /\ ~At(t, "idle") /\ ~At(t, "unlink") /\ ~At(t, "persist") /\ UNCHANGED files
        /\ unread' = unread
    BY DEF StoreNew, At
  <2>2. t \in Admin /\ ~Starting /\ \A p \in Plugin : RunFits(p) BY <1>2, <2>1, Begun
  <2>3. task[t].op = "add" /\ task[t].inDir
    BY <2>2 DEF StoreNew, FilesInv, KindsInv
  <2>4. PICK p \in Plugin : p = task[t].plugin
    BY <2>1 DEF PluginInv, TasksInv, TaskFits
  <2>5. PICK state \in {"Crashed", "Running", "Disabled"} :
          entry' = [entry EXCEPT ![p] = NewEntry(t, state)]
    BY <2>4 DEF StoreNew
  <2>6. /\ entry'[p] = NewEntry(t, state)
        /\ \A q \in Plugin : q # p => entry'[q] = entry[q]
    BY <2>5, EntryChange
  <2>7. Registered(p)' /\ entry'[p].inDir BY <2>3, <2>6 DEF Registered, NewEntry
  <2>8. /\ task' = [task EXCEPT ![t] = [task[t] EXCEPT !.pc = "persist"]]
        /\ [task[t] EXCEPT !.pc = "persist"].pc = "persist"
        /\ [task[t] EXCEPT !.pc = "persist"].op = "add"
        /\ [task[t] EXCEPT !.pc = "persist"].inDir
    <3>1. task[t] \in TaskRecord BY DEF PluginInv, TypeOK
    <3>2. Goto(t, "persist") BY <2>3 DEF StoreNew
    <3>3. QED BY <2>3, <3>1, <3>2 DEF TaskRecord, Goto
  <2>9. /\ task'[t].pc = "persist" /\ task'[t].op = "add" /\ task'[t].inDir
        /\ \A u \in Task : u # t => task'[u] = task[u]
    BY <2>8, OthersWait
  <2>10. ASSUME NEW q \in Plugin PROVE RunFits(q)'
    <3>1. CASE q # p
      <4>1. (Registered(q)' <=> Registered(q)) /\ entry'[q].inDir = entry[q].inDir
        BY <2>6, <3>1 DEF Registered
      <4>2. StillAtIt(t) BY <2>1, <2>9 DEF StillAtIt
      <4>3. QED BY <2>1, <2>2, <2>9, <4>1, <4>2, UnsavedFits
    <3>2. CASE q = p
      <4>1. Saving' BY <2>9 DEF Saving, At
      <4>2. QED BY <2>7, <3>2, <4>1 DEF RunFits
    <3>3. QED BY <3>1, <3>2
  <2>11. QED BY <2>1, <2>2, <2>9, <2>10, CommandFits
<1> QED BY <1>1, <1>2

(* A command that leaves everyone registered ends, with or without a save. *)
LEMMA FinishFiles ==
  ASSUME PluginInv, FilesInv, NEW t \in Task, ~At(t, "idle"), ~At(t, "unlink"),
         Finish(t), SameRegistry, unread' = unread, task[t].op # "boot",
         \/ UNCHANGED files /\ task[t].op # "add" /\ ~At(t, "persist")
         \/ Persist(entry')
  PROVE  FilesInv'
<1>1. t # Boot BY DEF FilesInv, KindsInv
<1>2. t \in Admin /\ ~Starting /\ \A p \in Plugin : RunFits(p) BY <1>1, Begun
<1>3. task'[t] = Idle /\ \A u \in Task : u # t => task'[u] = task[u]
  BY OthersWait DEF Finish
<1>4. ASSUME NEW p \in Plugin PROVE RunFits(p)'
  <2>1. (Registered(p)' <=> Registered(p)) /\ entry'[p].inDir = entry[p].inDir
    BY DEF SameRegistry
  <2>2. CASE Persist(entry') BY <1>2, <1>3, <2>1, <2>2, PersistedFits
  <2>3. CASE UNCHANGED files /\ task[t].op # "add" /\ ~At(t, "persist")
    <3>1. StillAtIt(t) BY <2>3 DEF StillAtIt
    <3>2. QED BY <1>2, <1>3, <2>1, <2>3, <3>1, UnsavedFits
  <2>4. QED BY <2>2, <2>3
<1> QED BY <1>2, <1>3, <1>4, IdleFacts, CommandFits

LEMMA OneMarked ==
  ASSUME PluginInv, NEW p \in Plugin, NEW e,
         entry' = [entry EXCEPT ![p] = e] \/ entry' = entry,
         e.state # "absent" /\ Registered(p) /\ e.inDir = entry[p].inDir
  PROVE  SameRegistry
<1>1. CASE entry' = entry BY <1>1 DEF SameRegistry, Registered
<1>2. CASE entry' = [entry EXCEPT ![p] = e]
  <2>1. entry'[p] = e /\ \A q \in Plugin : q # p => entry'[q] = entry[q]
    BY <1>2, EntryChange
  <2>2. QED BY <2>1 DEF SameRegistry, Registered
<1> QED BY <1>1, <1>2

LEMMA StoreStartedFiles ==
  ASSUME PluginInv, FilesInv, NEW t \in Task, StoreStarted(t)
  PROVE  FilesInv'
<1>1. /\ task[t].op \in {"enable", "restart"} /\ At(t, "store") /\ Finish(t)
      /\ unread' = unread /\ (UNCHANGED files \/ Persist(entry'))
  BY DEF StoreStarted
<1>2. PICK p \in Plugin : p = task[t].plugin
  BY <1>1 DEF PluginInv, TasksInv, TaskFits, At
<1> DEFINE e == [entry[p] EXCEPT !.state = "Running", !.transport = task[t].transport]
<1>3. e.state # "absent" /\ e.inDir = entry[p].inDir
  BY DEF PluginInv, TypeOK, Entry
<1>4. \/ Registered(p) /\ entry' = [entry EXCEPT ![p] = e]
      \/ entry' = entry
  BY <1>2 DEF StoreStarted, PluginInv, TypeOK
<1> HIDE DEF e
<1>5. SameRegistry
  <2>1. CASE entry' = entry BY <2>1 DEF SameRegistry, Registered
  <2>2. CASE Registered(p) /\ entry' = [entry EXCEPT ![p] = e]
    BY <1>3, <2>2, OneMarked
  <2>3. QED BY <1>4, <2>1, <2>2
<1> QED BY <1>1, <1>5, FinishFiles DEF At

LEMMA ReportFailedFiles ==
  ASSUME PluginInv, FilesInv, NEW t \in Task, ReportFailed(t)
  PROVE  FilesInv'
<1>1. /\ task[t].op \in {"enable", "restart"} /\ At(t, "giveup") /\ Finish(t)
      /\ unread' = unread /\ UNCHANGED files
  BY DEF ReportFailed
<1>2. PICK p \in Plugin : p = task[t].plugin
  BY <1>1 DEF PluginInv, TasksInv, TaskFits, At
<1>3. PICK state \in {"Stopped", "Crashed"} :
        entry' = IF Registered(p) THEN [entry EXCEPT ![p].state = state] ELSE entry
  BY <1>2 DEF ReportFailed
<1> DEFINE e == [entry[p] EXCEPT !.state = state]
<1>4. e.state # "absent" /\ e.inDir = entry[p].inDir
  BY DEF PluginInv, TypeOK, Entry
<1>5. \/ Registered(p) /\ entry' = [entry EXCEPT ![p] = e]
      \/ entry' = entry
  BY <1>3
<1> HIDE DEF e
<1>6. SameRegistry
  <2>1. CASE entry' = entry BY <2>1 DEF SameRegistry, Registered
  <2>2. CASE Registered(p) /\ entry' = [entry EXCEPT ![p] = e]
    BY <1>4, <2>2, OneMarked
  <2>3. QED BY <1>5, <2>1, <2>2
<1> QED BY <1>1, <1>6, FinishFiles DEF At

LEMMA PersistAllFiles ==
  ASSUME PluginInv, FilesInv, NEW t \in Task, PersistAll(t)
  PROVE  FilesInv'
<1>1. /\ At(t, "persist") /\ Persist(entry) /\ Finish(t) /\ entry' = entry
      /\ unread' = unread
  BY DEF PersistAll
<1>2. SameRegistry BY <1>1 DEF SameRegistry, Registered
<1>3. t # Boot BY <1>1 DEF FilesInv, KindsInv, At
<1>4. task[t].op # "boot" BY <1>3, WhoIsWho DEF FilesInv, KindsInv
<1>5. Persist(entry') BY <1>1
<1> QED BY <1>1, <1>2, <1>4, <1>5, FinishFiles DEF At

(* The drop-in file is gone; the rest of the difference is settled by the save
   that follows. *)
LEMMA UnlinkFiles ==
  ASSUME PluginInv, FilesInv, NEW t \in Task, Unlink(t)
  PROVE  FilesInv'
<1>1. /\ At(t, "unlink") /\ entry' = entry /\ unread' = unread /\ toml' = toml
      /\ dropIn' = IF task[t].inDir THEN [dropIn EXCEPT ![task[t].plugin] = "absent"]
                   ELSE dropIn
  BY DEF Unlink
<1>2. t # Boot /\ ~At(t, "idle") BY <1>1 DEF FilesInv, KindsInv, At
<1>3. t \in Admin /\ ~Starting /\ \A p \in Plugin : RunFits(p) BY <1>2, Begun
<1>4. /\ task' = [task EXCEPT ![t] = [task[t] EXCEPT !.pc = "persist"]]
      /\ [task[t] EXCEPT !.pc = "persist"].pc = "persist"
      /\ [task[t] EXCEPT !.pc = "persist"].op = task[t].op
      /\ [task[t] EXCEPT !.pc = "persist"].inDir = task[t].inDir
  <2>1. task[t] \in TaskRecord BY DEF PluginInv, TypeOK
  <2>2. QED BY <2>1 DEF TaskRecord, Goto, Unlink
<1>5. /\ task'[t].pc = "persist" /\ task'[t].op = task[t].op
      /\ task'[t].inDir = task[t].inDir
      /\ \A u \in Task : u # t => task'[u] = task[u]
  BY <1>4, OthersWait
<1>6. ASSUME NEW p \in Plugin PROVE RunFits(p)'
  <2>1. Saving' BY <1>5 DEF Saving, At
  <2>2. RunFits(p) /\ (Registered(p)' <=> Registered(p)) /\ entry'[p] = entry[p]
    BY <1>1, <1>3 DEF Registered
  <2>3. dropIn'[p] = dropIn[p] \/ dropIn'[p] = "absent"
    BY <1>1 DEF PluginInv, TypeOK
  <2>4. task[t].plugin = p /\ task[t].inDir => dropIn'[p] = "absent"
    BY <1>1 DEF PluginInv, TypeOK
  <2>5. ~Registered(p) /\ dropIn'[p] # "absent" => Unlinking(p)'
    <3>1. SUFFICES ASSUME ~Registered(p), dropIn'[p] # "absent"
                   PROVE  Unlinking(p)'
      OBVIOUS
    <3>2. Unlinking(p) BY <2>2, <2>3, <3>1 DEF RunFits
    <3>3. PICK u \in Task : At(u, "unlink") /\ task[u].plugin = p /\ task[u].inDir
      BY <3>2 DEF Unlinking
    <3>4. task'[u] = task[u] BY <1>5, <2>4, <3>1, <3>3
    <3>5. QED BY <3>3, <3>4 DEF Unlinking, At
  <2>6. QED BY <1>1, <2>1, <2>2, <2>3, <2>5 DEF RunFits
<1>7. task'[t].op # "boot" /\ (task'[t].op = "add" => task'[t].inDir)
  BY <1>3, <1>5 DEF FilesInv, KindsInv
<1> QED BY <1>1, <1>3, <1>5, <1>6, <1>7, CommandFits

-----------------------------------------------------------------------------
(* Processes and exit loops change the entries of registered plugins only. *)
LEMMA LoopFiles ==
  ASSUME PluginInv, FilesInv, NEW h \in Handle, Exit(h) \/ Listen(h)
  PROVE  FilesInv'
<1>1. UNCHANGED <<task, unread, files>> /\ toml' = toml /\ dropIn' = dropIn
  BY DEF Exit, Listen, HearStopped, HearCrash, StartAgain, StoreAgain, GiveUp, files
<1>2. SameRegistry
  <2>1. CASE entry' = entry BY <2>1 DEF SameRegistry, Registered
  <2>2. CASE entry' # entry
    <3>1. HearStopped(h) \/ StoreAgain(h) \/ GiveUp(h)
      BY <2>2 DEF Exit, Listen, HearCrash, StartAgain
    <3>2. PICK p \in Plugin : p = proc[h].plugin
      BY <3>1 DEF PluginInv, HandlesInv, Born, HearStopped, StoreAgain, GiveUp
    <3>3. /\ entry \in [Plugin -> Entry] /\ Registered(p)
          /\ \E state \in {"Stopped", "Running", "Crashed"}, x \in {None, proc[h].heir} :
               entry' = [entry EXCEPT ![p].state = state, ![p].transport = x]
      BY <2>2, <3>1, <3>2
      DEF HearStopped, StoreAgain, GiveUp, Registered, PluginInv, TypeOK
    <3>4. PICK state \in {"Stopped", "Running", "Crashed"}, x \in {None, proc[h].heir} :
            entry' = [entry EXCEPT ![p].state = state, ![p].transport = x]
      BY <3>3
    <3> DEFINE e == [entry[p] EXCEPT !.state = state, !.transport = x]
    <3>5. entry' = [entry EXCEPT ![p] = e] BY <3>3, <3>4
    <3>6. e.state # "absent" /\ e.inDir = entry[p].inDir BY <3>3 DEF Entry
    <3> HIDE DEF e
    <3>7. QED BY <3>3, <3>5, <3>6, OneMarked
  <2>3. QED BY <2>1, <2>2
<1>3. ASSUME NEW p \in Plugin
      PROVE  (Registered(p)' <=> Registered(p)) /\ entry'[p].inDir = entry[p].inDir
  BY <1>2 DEF SameRegistry
<1>4. \A p, i : Source(p, i)' <=> Source(p, i)
  BY <1>1 DEF Source, SavedIn, OnlyDropIns
<1>5. KindsInv'
  BY <1>1 DEF FilesInv, KindsInv, At, Starting, Source, SavedIn, OnlyDropIns
<1>6. Starting' <=> Starting BY <1>1 DEF Starting, At
<1>7. ASSUME NEW p \in Plugin, Starting PROVE BootFits(p)'
  <2>1. BootFits(p) BY <1>7 DEF FilesInv
  <2>2. Registered(p)' => Source(p, entry[p].inDir)'
    BY <1>1, <1>3, <2>1 DEF BootFits, Source, SavedIn, OnlyDropIns
  <2>3. OnlyDropIns' <=> OnlyDropIns BY <1>1 DEF OnlyDropIns
  <2>4. QED BY <1>1, <1>3, <2>1, <2>2, <2>3 DEF BootFits, SavedIn, At
<1>8. ASSUME NEW p \in Plugin, ~Starting PROVE RunFits(p)'
  <2>1. RunFits(p) BY <1>8 DEF FilesInv
  <2>2. QED BY <1>1, <1>3, <2>1
        DEF RunFits, Unlinking, Removing, Saving, Adding, At
<1> QED BY <1>5, <1>6, <1>7, <1>8 DEF FilesInv

-----------------------------------------------------------------------------
LEMMA FilesInit == Init => FilesInv
<1> SUFFICES ASSUME Init PROVE FilesInv
  OBVIOUS
<1>1. /\ \A p \in Plugin : ~Registered(p)
      /\ \A t \in Task : task[t] = Idle
      /\ toml = TomlAtStart /\ dropIn = DropInAtStart
  BY DEF Init, Registered, Absent
<1>2. \A p \in Plugin, inDir \in BOOLEAN :
        <<p, inDir>> \in unread <=> SavedIn(p, inDir) # "absent"
  BY DEF Init, SavedIn
<1>3. KindsInv
  <2>1. \A t \in Task : task[t].pc = "idle" /\ task[t].op = "none"
    BY <1>1, IdleFacts
  <2>2. QED BY <1>1, <2>1 DEF KindsInv, At, Task
<1>4. ASSUME NEW p \in Plugin PROVE BootFits(p)
  <2>1. DropInAtStart[p] # "absent" => <<p, TRUE>> \in unread BY <1>2 DEF SavedIn
  <2>2. QED BY <1>1, <1>2, <2>1 DEF BootFits
<1>5. ASSUME NEW p \in Plugin, ~Starting PROVE RunFits(p)
  <2>1. unread = {} BY <1>5 DEF Starting
  <2>2. TomlAtStart[p] = "absent" /\ DropInAtStart[p] = "absent"
    BY <1>2, <2>1 DEF SavedIn
  <2>3. QED BY <1>1, <2>2 DEF RunFits
<1> QED BY <1>3, <1>4, <1>5 DEF FilesInv

LEMMA FilesNext == PluginInv /\ FilesInv /\ [Next]_vars => FilesInv'
<1> SUFFICES ASSUME PluginInv, FilesInv, [Next]_vars PROVE FilesInv'
  OBVIOUS
<1>1. CASE UNCHANGED vars
  <2>1. KindsInv' /\ (Starting' <=> Starting)
    BY <1>1 DEF vars, files, FilesInv, KindsInv, Starting, Source, SavedIn, OnlyDropIns, At
  <2>2. \A p \in Plugin : (BootFits(p) => BootFits(p)') /\ (RunFits(p) => RunFits(p)')
    BY <1>1 DEF vars, files, BootFits, Source, SavedIn, OnlyDropIns, RunFits, Unlinking,
                Removing, Saving, Adding, Registered, At
  <2>3. QED BY <2>1, <2>2 DEF FilesInv
<1>2. CASE StartUp BY <1>2, LoadFiles DEF StartUp
<1>3. ASSUME NEW t \in Task, NEW p \in Plugin, Request(t, p) PROVE FilesInv'
  BY <1>3, AddFiles, RemoveFiles, EnableFiles, DisableFiles, RestartFiles DEF Request
<1>4. ASSUME NEW t \in Task, Work(t) PROVE FilesInv'
  BY <1>4, SpawnFiles, StoreNewFiles, StoreStartedFiles, ReportFailedFiles, UnlinkFiles,
     PersistAllFiles DEF Work
<1>5. ASSUME NEW h \in Handle, Exit(h) \/ Listen(h) PROVE FilesInv'
  BY <1>5, LoopFiles
<1> QED BY <1>1, <1>2, <1>3, <1>4, <1>5 DEF Next

(* Whatever additions, removals, switches and crashes overlap, once no command
   is under way the files name exactly the registered plugins (remove_plugin
   and persist_config, manager.rs 456-478): the last save of whoever changed
   the registry comes after the change, and a removed drop-in file is written
   again only for a plugin that was added again. *)
THEOREM FilesFollowRegistry == Spec => []FilesMatchRegistry
<1>1. FilesInv => FilesMatchRegistry
  <2>1. SUFFICES ASSUME FilesInv, unread = {}, \A t \in Task : At(t, "idle"),
                        NEW p \in Plugin
                 PROVE  Registered(p) <=> (toml[p] # "absent" \/ dropIn[p] # "absent")
    BY DEF FilesMatchRegistry
  <2>2. ~Starting BY <2>1, WhoIsWho DEF Starting
  <2>3. RunFits(p) BY <2>1, <2>2 DEF FilesInv
  <2>4. ~Unlinking(p) /\ ~Removing /\ ~Saving /\ ~Adding(p)
    BY <2>1 DEF Unlinking, Removing, Saving, Adding, At
  <2>5. QED BY <2>3, <2>4 DEF RunFits
<1> QED BY <1>1, PluginInit, PluginNext, FilesInit, FilesNext, PTL DEF Spec
=============================================================================
