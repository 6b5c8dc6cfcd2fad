--------------------------- MODULE RestoreApply ----------------------------
(***************************************************************************)
(* Restoring a backup: staged and confirmed by the web admin or the        *)
(* command line, applied by the next start of the service. The state is    *)
(* the files; every file operation that what follows depends on is a step  *)
(* of its own, each may fail, and the machine may stop between any two.    *)
(***************************************************************************)
EXTENDS Naturals, Sequences

CONSTANTS Backup,             \* the backups there are
          HasConfig,          \* those that carry a config.toml
          BadConfig,          \* those whose config.toml parses but does not load
          SnapshotsKept,      \* SAFETY_SNAPSHOTS_KEPT
          Overlap,            \* web and command line may work at the same time
          MaxCommits,         \* bound: commits per database
          MaxInstalls,        \* bound: restores applied before the last is staged
          MaxFaults           \* bound: failed operations and crashes

ASSUME RestoreAssumption ==
  /\ HasConfig \subseteq Backup /\ BadConfig \subseteq HasConfig
  /\ SnapshotsKept \in Nat \ {0}
  /\ Backup \cap {"own", "nothing", "torn", "damaged"} = {}

VARIABLES file,       \* the database files, by name
          conf,       \* the config files, by name
          snaps,      \* the pre-restore-safety-<stamp>.db snapshots, by stamp
          volatile,   \* files whose data is not yet on disk
          svc,        \* where the service's start-up stands, or "running"
          readable,   \* the live database could be opened when last checkpointed
          taken,      \* which of them this start took
          moved,      \* this start has moved the WAL aside
          op,         \* the restore command each actor is in the middle of
          installs, faults,
          seen,       \* history: the data this start found
          replaced,   \* history: what the last install replaced
          stuck,      \* history: whose configs could not be removed
          stranded    \* history: a config that does not load was left in place

vars == <<file, conf, snaps, volatile, svc, readable, taken, moved, op, installs,
          faults, seen, replaced, stuck, stranded>>

Actor == {"web", "cli"}
\* "web" and "cli" are the private copies their stagings work on.
\* What is set aside as failed or applied is never read again: it is gone.
FileName == {"db", "wal", "aside", "tmp", "staged", "pending"} \cup Actor
ConfName == {"staged", "pending", "running", "previous"}

Nothing == [of |-> "nothing", gen |-> 0, at |-> 0]
Torn == [of |-> "torn", gen |-> 0, at |-> 0]
Copy(b) == [of |-> b, gen |-> 0, at |-> 0]
NoConf == [general |-> "nothing", machine |-> "nothing"]
Idle == [at |-> "idle", of |-> "nothing", with |-> "nothing"]

There(n) == file[n] # Nothing
Gone(n) == /\ file' = [file EXCEPT ![n] = Nothing]
           /\ volatile' = volatile \ {n}

\* A rename moves the contents and whether they have reached the disk.
Rename(a, b) ==
  /\ file' = [file EXCEPT ![b] = file[a], ![a] = Nothing]
  /\ volatile' = (volatile \ {a, b}) \cup (IF a \in volatile THEN {b} ELSE {})

Put(n, c) == file' = [file EXCEPT ![n] = c]
PutConf(n, c) == conf' = [conf EXCEPT ![n] = c]

Fault == faults < MaxFaults /\ faults' = faults + 1
NoFault == UNCHANGED faults

\* remove_file on a config, whose error the code ignores.
Remains(n) == UNCHANGED conf /\ stuck' = stuck \cup {conf[n].general}
RemoveConf(n) == \/ PutConf(n, NoConf) /\ NoFault /\ UNCHANGED stuck
                 \/ conf[n] # NoConf /\ Fault /\ Remains(n)

\* What SQLite sees on opening `d` beside the WAL `w`: it replays any WAL it
\* finds, its own or not.
Opened(d, w) == IF w = Nothing THEN d
                ELSE IF w.of = d.of /\ w.gen = d.gen THEN w
                ELSE Torn

\* A start without a database makes an empty one, as the first start did.
Data == IF There("db") THEN Opened(file["db"], file["wal"]) ELSE Copy("own")

\* Mutant: the backup's machine-specific keys come along.
MergeWhole(current, restored) ==
  [general |-> restored.general, machine |-> restored.machine]

\* merge_for_restore: the backup's settings, this machine's own keys.
Merge(current, restored) ==
  [general |-> restored.general, machine |-> current.machine]

Loads(c) == c.general \notin BadConfig

-----------------------------------------------------------------------------
(* Staging and confirming. *)

mine == <<taken, moved>>
Service == <<svc, readable, mine, installs, seen, replaced, snaps, stranded>>
Goto(a, l) == op' = [op EXCEPT ![a].at = l]
Done(a) == op' = [op EXCEPT ![a] = Idle]

\* The guard of the private copy removes it on every way out (TempFile).
DropCopy(a) == Gone(a)

\* The web's lock is in the service's process: one request at a time, none
\* before the service runs or after a confirm has scheduled its exit.
MayBegin(a) == /\ op[a] = Idle
               /\ a = "web" => svc = "running"
               /\ Overlap \/ \A o \in Actor : op[o] = Idle

\* The upload (or the copy of a backup) has arrived and passed validation,
\* which writes to it.
StageRestore(a, b) ==
  /\ MayBegin(a) /\ installs < MaxInstalls
  /\ op' = [op EXCEPT ![a] = [at |-> "clear", of |-> b, with |-> "nothing"]]
  /\ Put(a, Copy(b))
  /\ volatile' = volatile \cup {a}
  /\ UNCHANGED <<conf, faults, Service, stuck>>

ClearStagedConfig(a) ==
  /\ op[a].at = "clear"
  /\ RemoveConf("staged")
  /\ Goto(a, "flush")
  /\ UNCHANGED <<file, volatile, Service>>

\* Mutant: the validated file is renamed before it is flushed.
FlushNothing(a) ==
  /\ op[a].at = "flush"
  /\ Goto(a, "publish")
  /\ UNCHANGED <<file, conf, volatile, faults, Service, stuck>>

FlushUpload(a) ==
  /\ op[a].at = "flush"
  /\ \/ /\ Goto(a, "publish") /\ NoFault
        /\ volatile' = volatile \ {a}
        /\ UNCHANGED file
     \/ Done(a) /\ Fault /\ DropCopy(a)
  /\ UNCHANGED <<conf, Service, stuck>>

PublishStaged(a) ==
  /\ op[a].at = "publish"
  /\ \/ Rename(a, "staged") /\ Goto(a, "config") /\ NoFault
     \/ Done(a) /\ Fault /\ DropCopy(a)
  /\ UNCHANGED <<conf, Service, stuck>>

StageConfig(a) ==
  /\ op[a].at = "config"
  /\ Done(a)
  /\ \/ /\ op[a].of \in HasConfig /\ NoFault
        /\ PutConf("staged", [general |-> op[a].of, machine |-> "there"])
        /\ UNCHANGED <<file, volatile, stuck>>
     \/ /\ op[a].of \notin HasConfig
        /\ RemoveConf("staged")
        /\ UNCHANGED <<file, volatile>>
     \/ /\ op[a].of \in HasConfig /\ Fault
        /\ Gone("staged")
        /\ UNCHANGED <<conf, stuck>>
  /\ UNCHANGED Service

\* A torn file is thrown away if the tear reaches its header.
ConfirmRestore(a, with) ==
  /\ MayBegin(a)
  /\ There("staged")
  /\ \/ /\ op' = [op EXCEPT ![a] = [at |-> "unconfirm", of |-> "nothing",
                                    with |-> with]]
        /\ UNCHANGED <<file, volatile>>
     \/ /\ file["staged"] = Torn
        /\ Gone("staged")
        /\ UNCHANGED op
  /\ UNCHANGED <<conf, faults, Service, stuck>>

\* Mutant: the config of an earlier confirmation stays.
KeepConfirmedConfig(a) ==
  /\ op[a].at = "unconfirm"
  /\ Goto(a, "flush staged")
  /\ UNCHANGED <<file, conf, volatile, faults, Service, stuck>>

DropConfirmedConfig(a) ==
  /\ op[a].at = "unconfirm"
  /\ RemoveConf("pending")
  /\ Goto(a, "flush staged")
  /\ UNCHANGED <<file, volatile, Service>>

FlushStaged(a) ==
  /\ op[a].at = "flush staged"
  /\ \/ Goto(a, "confirm") /\ NoFault /\ There("staged")
        /\ volatile' = volatile \ {"staged"}
     \/ Done(a) /\ Fault /\ UNCHANGED volatile
     \/ Done(a) /\ NoFault /\ ~There("staged") /\ UNCHANGED volatile
  /\ UNCHANGED <<file, conf, Service, stuck>>

\* The second disjunct: copied across file systems, the original not deleted.
ConfirmDb(a) ==
  /\ op[a].at = "confirm"
  /\ \/ There("staged") /\ Rename("staged", "pending")
        /\ Goto(a, "confirm config") /\ NoFault
     \/ There("staged") /\ Put("pending", file["staged"])
        /\ Goto(a, "confirm config") /\ Fault
        /\ volatile' = volatile \ {"pending"}
     \/ Done(a) /\ Fault /\ UNCHANGED <<file, volatile>>
     \/ Done(a) /\ NoFault /\ ~There("staged") /\ UNCHANGED <<file, volatile>>
  /\ UNCHANGED <<conf, Service, stuck>>

\* Under systemd the web's confirm ends the process.
ConfirmConfig(a) ==
  /\ op[a].at = "confirm config"
  /\ IF op[a].with = "config" /\ conf["staged"] # NoConf
     THEN \/ /\ conf' = [conf EXCEPT !["staged"] = NoConf,
                                    !["pending"] = conf["staged"]]
             /\ NoFault /\ UNCHANGED stuck
          \/ /\ Fault
             /\ \/ PutConf("staged", NoConf) /\ UNCHANGED stuck
                \/ Remains("staged")
     ELSE RemoveConf("staged")
  /\ Done(a)
  /\ svc' \in (IF a = "web" THEN {svc, "exiting"} ELSE {svc})
  /\ UNCHANGED <<file, volatile, readable, mine, installs, seen, replaced, snaps,
                 stranded>>

\* The command line's process can be killed between any two of its steps.
KillCli == /\ op["cli"] # Idle /\ Fault
           /\ Done("cli") /\ DropCopy("cli")
           /\ UNCHANGED <<conf, Service, stuck>>

Restorer == \/ \E a \in Actor : \/ \E b \in Backup : StageRestore(a, b)
                                \/ \E w \in {"config", "nothing"} : ConfirmRestore(a, w)
                                \/ ClearStagedConfig(a) \/ FlushUpload(a)
                                \/ PublishStaged(a) \/ StageConfig(a)
                                \/ DropConfirmedConfig(a) \/ FlushStaged(a)
                                \/ ConfirmDb(a) \/ ConfirmConfig(a)
            \/ KillCli

-----------------------------------------------------------------------------
(* The service's start. *)

Step(from, to) == svc = from /\ svc' = to
Rest == <<installs, seen, replaced, op, stranded>>
Held == <<Rest, stuck>>

\* The config must load. What an interrupted swap left is swept away once it
\* is an hour old.
Start ==
  /\ Step("off", "check")
  /\ Loads(conf["running"])
  /\ \E old \in SUBSET {"aside", "tmp"} :
       file' = [n \in FileName |-> IF n \in old THEN Nothing ELSE file[n]]
  /\ taken' = "none"
  /\ UNCHANGED <<conf, snaps, volatile, readable, moved, faults, Held>>

\* A confirmed config without a confirmed database is discarded.
CheckPending ==
  /\ \/ /\ ~There("pending")
        /\ Step("check", "open")
        /\ RemoveConf("pending")
        /\ UNCHANGED seen
     \/ /\ There("pending")
        /\ Step("check", IF There("db") THEN "checkpoint" ELSE "flush")
        /\ seen' = IF There("db") THEN Data ELSE Nothing
        /\ NoFault /\ UNCHANGED <<conf, stuck>>
  /\ UNCHANGED <<file, snaps, volatile, readable, mine, installs, op, replaced,
                 stranded>>

Refuse(from) == /\ Step(from, "reject") /\ Fault
                /\ UNCHANGED <<file, conf, snaps, volatile, readable, mine, Held>>

\* snapshot_live: folded in; busy, locked or no room (refused); or not openable,
\* in which case the files are copied as they are.
CheckpointLive ==
  \/ /\ Step("checkpoint", "snapshot")
     /\ file' = [file EXCEPT !["db"] = Data, !["wal"] = Nothing]
     /\ NoFault
     /\ UNCHANGED <<conf, snaps, volatile, readable, mine, Held>>
  \/ Refuse("checkpoint")
  \/ /\ Step("checkpoint", "snapshot")
     /\ readable' = FALSE
     /\ Fault
     /\ UNCHANGED <<file, conf, snaps, volatile, mine, Held>>

\* The stamp is the clock's, which may have gone back behind the others.
SnapshotLive ==
  \/ /\ Step("snapshot", "flush")
     /\ LET s == [db |-> file["db"],
                  wal |-> IF readable THEN Nothing ELSE file["wal"]]
        IN  \/ taken' = "last" /\ snaps' = Append(snaps, s)
            \/ taken' = "first" /\ snaps' = <<s>> \o snaps
     /\ UNCHANGED <<file, conf, volatile, readable, moved, faults, Held>>
  \/ Refuse("snapshot")

FlushPending ==
  \/ /\ Step("flush", "aside")
     /\ volatile' = volatile \ {"pending"}
     /\ UNCHANGED <<file, conf, snaps, readable, mine, faults, Held>>
  \/ Refuse("flush")

\* Mutant: the WAL stays beside the database that replaces its own.
LeaveSidecars ==
  \/ /\ Step("aside", "install")
     /\ UNCHANGED <<file, conf, snaps, volatile, readable, mine, faults, Held>>
  \/ Refuse("aside")

\* The second disjunct: the shared-memory file did not follow.
MoveSidecarsAside ==
  \/ /\ \/ Step("aside", "install") /\ NoFault
        \/ Step("aside", "put back") /\ Fault
     /\ IF There("wal") THEN Rename("wal", "aside") ELSE UNCHANGED <<file, volatile>>
     /\ moved' = There("wal")
     /\ UNCHANGED <<conf, snaps, readable, taken, Held>>
  \/ Refuse("aside")

\* The pending file, or the copy of it, takes the database's place.
Installed(src) ==
  /\ installs' = installs + 1
  /\ file' = [file EXCEPT !["db"] = [file[src] EXCEPT !.gen = installs + 1],
                          ![src] = Nothing]
  /\ readable' = TRUE
  /\ replaced' = seen /\ seen' = Nothing
  /\ UNCHANGED <<conf, snaps, mine, op, stuck, stranded>>

Install ==
  \/ /\ Step("install", "drop aside")
     /\ Installed("pending")
     /\ volatile' = volatile \ {"pending"}
     /\ NoFault
  \/ /\ Step("install", "copied")
     /\ Fault
     /\ Put("tmp", file["pending"])
     /\ UNCHANGED <<conf, snaps, volatile, readable, mine, Held>>

InstallCopy ==
  \/ /\ Step("copied", "retire")
     /\ Installed("tmp")
     /\ NoFault /\ UNCHANGED volatile
  \/ /\ Step("copied", "put back") /\ Fault
     /\ Put("tmp", Nothing)
     /\ UNCHANGED <<conf, snaps, volatile, readable, mine, Held>>

\* restore_sidecars: the live database gets its WAL back.  What an earlier
\* start left aside stays there.
RestoreSidecars ==
  /\ Step("put back", "reject")
  /\ \/ moved /\ Rename("aside", "wal") /\ NoFault
     \/ moved /\ UNCHANGED <<file, volatile>> /\ Fault
     \/ ~moved /\ UNCHANGED <<file, volatile>> /\ NoFault
  /\ moved' = FALSE
  /\ UNCHANGED <<conf, snaps, readable, taken, Held>>

\* The applied file is deleted, or failing that renamed, or failing that left.
RetirePending ==
  /\ Step("retire", "drop aside")
  /\ \/ Gone("pending") /\ NoFault
     \/ Fault /\ UNCHANGED <<file, volatile>>
  /\ UNCHANGED <<conf, snaps, readable, mine, Held>>

DropAside ==
  /\ Step("drop aside", "prune")
  /\ \/ /\ IF moved THEN Put("aside", Nothing) ELSE UNCHANGED file
        /\ NoFault
     \/ moved /\ Fault /\ UNCHANGED file
  /\ moved' = FALSE
  /\ UNCHANGED <<conf, snaps, volatile, readable, taken, Held>>

\* The newest are kept; the one just taken is one of them whatever its stamp.
Newest(q, n) == IF Len(q) <= n THEN q ELSE SubSeq(q, Len(q) - n + 1, Len(q))

\* Mutant: only the stamps count.
PruneByStamp ==
  /\ Step("prune", "config")
  /\ snaps' = Newest(snaps, SnapshotsKept)
  /\ taken' = "none"
  /\ UNCHANGED <<file, conf, volatile, readable, moved, faults, Held>>

PruneSnapshots ==
  /\ Step("prune", "config")
  /\ snaps' = IF taken = "first"
              THEN <<Head(snaps)>> \o Newest(Tail(snaps), SnapshotsKept - 1)
              ELSE Newest(snaps, SnapshotsKept)
  /\ taken' = "none"
  /\ UNCHANGED <<file, conf, volatile, readable, moved, faults, Held>>

\* apply_config: the running file is saved, then replaced by the merge.
SavePrevious ==
  /\ UNCHANGED <<file, snaps, volatile, readable, mine, Held>>
  /\ \/ /\ Step("config", "open") /\ conf["pending"] = NoConf
        /\ NoFault /\ UNCHANGED conf
     \/ /\ Step("config", "write") /\ conf["pending"] # NoConf
        /\ NoFault
        /\ PutConf("previous", conf["running"])
     \/ /\ Step("config", "discard") /\ conf["pending"] # NoConf
        /\ Fault /\ UNCHANGED conf

WriteConfig ==
  /\ UNCHANGED <<file, snaps, volatile, readable, mine, Held>>
  /\ \/ /\ Step("write", "written") /\ NoFault
        /\ PutConf("running", Merge(conf["running"], conf["pending"]))
     \/ /\ Step("write", "discard") /\ Fault /\ UNCHANGED conf

\* The pending config goes, applied or not.
DiscardConfig ==
  /\ Step("discard", "open") \/ Step("written", "settle")
  /\ RemoveConf("pending")
  /\ UNCHANGED <<file, snaps, volatile, readable, mine, Rest>>

\* Mutant: the merged file stays whether it loads or not.
SettleAnyConfig ==
  /\ Step("settle", "open")
  /\ UNCHANGED <<file, conf, snaps, volatile, readable, mine, faults, Held>>

\* settle_applied: the merge is kept only if it loads.  The start goes on even
\* if the previous config could not be put back.
SettleConfig ==
  /\ Step("settle", "open")
  /\ \/ /\ Loads(conf["running"])
        /\ NoFault /\ UNCHANGED <<conf, stranded>>
     \/ /\ ~Loads(conf["running"])
        /\ PutConf("running", conf["previous"])
        /\ NoFault /\ UNCHANGED stranded
     \/ /\ ~Loads(conf["running"])
        /\ Fault /\ stranded' = TRUE /\ UNCHANGED conf
  /\ UNCHANGED <<file, snaps, volatile, readable, mine, installs, seen, replaced,
                 op, stuck>>

\* The settings go with the database that was not restored.
Reject ==
  /\ Step("reject", "set aside")
  /\ RemoveConf("pending")
  /\ UNCHANGED <<file, snaps, volatile, readable, mine, Rest>>

SetAside ==
  /\ Step("set aside", "open")
  /\ \/ There("pending") /\ Gone("pending") /\ NoFault
     \/ Fault /\ UNCHANGED <<file, volatile>>
     \/ ~There("pending") /\ NoFault /\ UNCHANGED <<file, volatile>>
  /\ seen' = Nothing
  /\ UNCHANGED <<conf, snaps, readable, mine, installs, replaced, op, stuck,
                 stranded>>

\* Database::open creates the file when there is none.
OpenDb ==
  /\ Step("open", "running")
  /\ Data # Torn
  /\ IF There("db") THEN UNCHANGED file ELSE Put("db", Copy("own"))
  /\ UNCHANGED <<conf, snaps, volatile, readable, mine, faults, Held>>

Starting == \/ Start \/ CheckPending \/ CheckpointLive \/ SnapshotLive
            \/ FlushPending \/ MoveSidecarsAside \/ Install \/ InstallCopy
            \/ RestoreSidecars \/ RetirePending \/ DropAside \/ PruneSnapshots
            \/ SavePrevious \/ WriteConfig \/ DiscardConfig \/ SettleConfig
            \/ Reject \/ SetAside \/ OpenDb

-----------------------------------------------------------------------------
(* The running service, and the end of it. *)

Commit ==
  /\ svc \in {"running", "exiting"}
  /\ Data.at < MaxCommits
  /\ Put("wal", [Data EXCEPT !.at = @ + 1])
  /\ UNCHANGED <<conf, snaps, volatile, svc, readable, mine, faults, Held>>

\* The web's request dies with the service; process::exit skips the checkpoint
\* that closing the database would make.
Stop ==
  /\ svc \in {"running", "exiting"}
  /\ svc' = "off"
  /\ op' = [op EXCEPT !["web"] = Idle]
  /\ \E g \in {file, [file EXCEPT !["db"] = Data, !["wal"] = Nothing]} :
       file' = [g EXCEPT !["web"] = Nothing]
  /\ volatile' = volatile \ {"web"}
  /\ UNCHANGED <<conf, snaps, readable, mine, installs, seen, replaced,
                 faults, stuck, stranded>>

\* Power: everything stops, and data that was never flushed may be gone.
Crash ==
  /\ Fault
  /\ svc' = "off"
  /\ op' = [a \in Actor |-> Idle]
  /\ \E lost \in SUBSET volatile :
       file' = [n \in FileName |-> IF n \in Actor THEN Nothing
                                   ELSE IF n \in lost THEN Torn ELSE file[n]]
  /\ volatile' = {} /\ seen' = Nothing /\ taken' = "none" /\ moved' = FALSE
  /\ stranded' = (stranded \/ ~Loads(conf["running"]))
  /\ UNCHANGED <<conf, snaps, readable, installs, replaced, stuck>>

Init ==
  /\ \E d \in {Copy("own"), Nothing} :
       file = [n \in FileName |-> IF n = "db" THEN d ELSE Nothing]
  /\ conf = [n \in ConfName |-> IF n = "running"
                                THEN [general |-> "own", machine |-> "here"]
                                ELSE NoConf]
  /\ snaps = <<>> /\ volatile = {} /\ svc = "off" /\ readable = TRUE
  /\ taken = "none" /\ moved = FALSE
  /\ op = [a \in Actor |-> Idle]
  /\ installs = 0 /\ faults = 0 /\ seen = Nothing /\ replaced = Nothing
  /\ stuck = {} /\ stranded = FALSE

Next == Restorer \/ Starting \/ Commit \/ Stop \/ Crash

\* The service manager starts the service again and its start-up runs on;
\* nobody need stage, confirm, commit or stop anything.
Spec == Init /\ [][Next]_vars /\ WF_vars(Starting)

-----------------------------------------------------------------------------
LiveData == IF readable THEN Data
            ELSE [of |-> "damaged", gen |-> file["db"].gen, at |-> 0]
Confirmed == {file["pending"].of, file["tmp"].of} \ {"nothing"}

\* The data the next start opens is only ever the service's own commits on top
\* of what was there, or as a whole the backup that was confirmed.
Promise == INSTANCE AbstractRestore
             WITH Own <- "own", data <- LiveData, chosen <- Confirmed
RestorePromise == Promise!Spec

\* No WAL ever lies beside a database it was not written for: SQLite would
\* replay it (restore_apply.rs, move_sidecars_aside).
WalBelongs == There("wal") => /\ file["wal"].of = file["db"].of
                              /\ file["wal"].gen = file["db"].gen

\* Whatever a restore replaced can be had back from a snapshot that is still
\* there, commits and all (snapshot_live, prune_old_snapshots).
ReplacedIsSaved ==
  replaced # Nothing =>
    \E i \in DOMAIN snaps : Opened(snaps[i].db, snaps[i].wal) = replaced

\* A confirmed config is the one that came with the confirmed database
\* ("Either way no config staged earlier can be left to be applied with a
\* different database"), unless it is one that could not be removed when it
\* should have been: the code ignores that and goes on.
ConfigPairs ==
  (There("pending") /\ conf["pending"] # NoConf) =>
    conf["pending"].general \in {file["pending"].of} \cup stuck

\* The settings that say where this machine keeps its data and what it runs
\* are never the backup's, through any number of restores and reverts.
MachineStays == conf["running"].machine = "here"

\* "A restore that can't be applied must never stop the process from starting."
StartsAgain == svc = "off" ~> svc = "running"

\* The service comes up again, whatever the restore met with, unless a config
\* that does not load was left in place: the machine stopped between writing
\* and settling it, or the previous one could not be put back.
StartsUnlessStranded == svc = "off" ~> svc = "running" \/ stranded
=============================================================================
