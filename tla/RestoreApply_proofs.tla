------------------------ MODULE RestoreApply_proofs ------------------------
(***************************************************************************)
(* Restoring a backup, for any backups, commits, crashes and failed file   *)
(* operations: no WAL lies beside a foreign database, the machine keeps    *)
(* its own settings, what a restore replaced can be had back, a confirmed  *)
(* config is the confirmed database's, and the files implement             *)
(* AbstractRestore.                                                        *)
(***************************************************************************)
EXTENDS RestoreApply, TLAPS

Contents == [of : Backup \cup {"own", "nothing", "torn"}, gen : Nat, at : Nat]
Config == [general : Backup \cup {"own", "nothing"},
           machine : {"here", "there", "nothing"}]
Snapshot == [db : Contents, wal : Contents]

(* Where a restore command, and where the service's start, can stand. *)
Command == {"idle", "clear", "flush", "publish", "config", "unconfirm",
            "flush staged", "confirm", "confirm config"}
OpRecord == [at : Command, of : Backup \cup {"nothing"},
             with : {"config", "nothing"}]
Place == {"off", "check", "checkpoint", "snapshot", "flush", "aside", "install",
          "copied", "put back", "retire", "drop aside", "prune", "config",
          "write", "written", "settle", "discard", "reject", "set aside", "open",
          "running", "exiting"}

TypeFiles == file \in [FileName -> Contents] /\ volatile \subseteq FileName
TypeConf == conf \in [ConfName -> Config]
TypeOps == op \in [Actor -> OpRecord]
TypeService ==
  /\ svc \in Place /\ installs \in Nat
  /\ snaps \in Seq(Snapshot) /\ taken \in {"none", "first", "last"}
  /\ taken # "none" => snaps # <<>>
  /\ seen \in Contents /\ replaced \in Contents
TypeFlags == readable \in BOOLEAN /\ moved \in BOOLEAN
TypeFaults == faults \in Nat
TypeLeft == /\ stuck \subseteq Backup \cup {"own", "nothing"}
            /\ stranded \in BOOLEAN

TypeOK == /\ TypeFiles /\ TypeConf /\ TypeOps
          /\ TypeService /\ TypeFlags /\ TypeFaults /\ TypeLeft

(* Web requests run inside the service. *)
WebInside == op["web"].at # "idle" => svc \in {"running", "exiting"}

(* Only an upload not yet flushed can be lost with the power. *)
OnDisk == \A n \in volatile : n \in Actor /\ op[n].at \in {"clear", "flush"}

(* What is staged, confirmed or about to be installed is a whole backup. *)
CopyName == Actor \cup {"staged", "pending", "tmp"}
Whole(c) == c = Nothing \/ \E b \in Backup : c = Copy(b)
WholeBackups == \A n \in CopyName : Whole(file[n])

(* What the start is about to install is there. *)
ToInstall ==
  /\ svc \in {"checkpoint", "snapshot", "flush", "aside", "install"} => There("pending")
  /\ svc = "copied" => There("tmp")

(* `w` is a WAL of the live database. *)
OfLive(w) == /\ There("db")
             /\ file[w].of = file["db"].of
             /\ file[w].gen = file["db"].gen

(* The live database is never torn, and its generation counts the installs. *)
LiveDb ==
  /\ There("db") => file["db"].of \in Backup \cup {"own"} /\ file["db"].gen = installs
  /\ ~There("db") => installs = 0
  /\ svc \in {"checkpoint", "snapshot", "running", "exiting"} => There("db")

(* The WAL belongs to the database; it is gone while another is installed;
   and what was moved aside for that belongs to the database it left. *)
WalInv ==
  /\ There("wal") => OfLive("wal")
  /\ svc \in {"snapshot", "flush", "aside"} /\ readable => ~There("wal")
  /\ svc \in {"install", "copied", "put back"} =>
       /\ ~There("wal")
       /\ moved => ~readable /\ There("aside") /\ OfLive("aside")

FilesInv == WebInside /\ OnDisk /\ WholeBackups /\ ToInstall /\ LiveDb /\ WalInv

-----------------------------------------------------------------------------
(* The types. *)

LEMMA ContentsFacts ==
  /\ Nothing \in Contents /\ Torn \in Contents /\ Copy("own") \in Contents
  /\ \A b \in Backup : Copy(b) \in Contents
BY DEF Contents, Nothing, Torn, Copy

LEMMA CopyFacts ==
  /\ Nothing.of = "nothing" /\ Nothing.gen = 0 /\ Nothing.at = 0
  /\ \A b \in Backup \cup {"own"} :
       Copy(b) # Nothing /\ Copy(b).of = b /\ Copy(b).gen = 0 /\ Copy(b).at = 0
BY RestoreAssumption DEF Copy, Nothing

LEMMA RecordFacts ==
  /\ Idle \in OpRecord /\ NoConf \in Config
  /\ \A l \in Command, b \in Backup \cup {"nothing"}, w \in {"config", "nothing"} :
       [at |-> l, of |-> b, with |-> w] \in OpRecord
BY DEF OpRecord, Idle, Command, NoConf, Config

LEMMA DataType ==
  ASSUME TypeFiles
  PROVE  Data \in Contents
<1>1. file["db"] \in Contents /\ file["wal"] \in Contents
  BY DEF TypeFiles, FileName
<1> QED
  BY <1>1, ContentsFacts DEF Data, Opened

(* A command goes on, or is done with. *)
LEMMA OpSteps ==
  ASSUME TypeOps, NEW a \in Actor
  PROVE  /\ Done(a) => TypeOps'
         /\ \A l \in Command : Goto(a, l) => TypeOps'
BY RecordFacts DEF TypeOps, OpRecord, Done, Goto

(* A database takes the place of the live one. *)
LEMMA InstalledType ==
  ASSUME TypeFiles, TypeService, NEW src \in FileName, Installed(src)
  PROVE  /\ file' \in [FileName -> Contents]
         /\ installs' \in Nat /\ seen' \in Contents /\ replaced' \in Contents
<1> DEFINE d == [file[src] EXCEPT !.gen = installs + 1]
<1>1. file[src] \in Contents /\ file \in [FileName -> Contents]
  BY DEF TypeFiles
<1>2. d \in Contents
  <2>1. \A c \in Contents, n \in Nat : [c EXCEPT !.gen = n] \in Contents
    BY DEF Contents
  <2>2. installs + 1 \in Nat
    BY DEF TypeService
  <2> QED
    BY <1>1, <2>1, <2>2
<1>3. file' = [file EXCEPT !["db"] = d, ![src] = Nothing]
  BY DEF Installed
<1> HIDE DEF d
<1> QED
  BY <1>1, <1>2, <1>3, ContentsFacts DEF TypeService, Installed, FileName

LEMMA InitTypes == Init => TypeOK
<1> SUFFICES ASSUME Init PROVE TypeOK
  OBVIOUS
<1>1. TypeFiles
  BY ContentsFacts DEF Init, TypeFiles
<1>2. TypeConf
  BY DEF Init, TypeConf, NoConf, Config
<1>3. TypeOps
  BY RecordFacts DEF Init, TypeOps
<1>4. TypeService
  BY ContentsFacts DEF Init, TypeService, Place
<1>5. TypeFlags /\ TypeFaults /\ TypeLeft
  BY DEF Init, TypeFlags, TypeFaults, TypeLeft
<1> QED
  BY <1>1, <1>2, <1>3, <1>4, <1>5 DEF TypeOK

(* Every step keeps the types of the files. *)
LEMMA FilesType ==
  ASSUME TypeOK, Next
  PROVE  TypeFiles'
<1>1. ASSUME NEW a \in Actor, NEW b \in Backup,
             StageRestore(a, b)
      PROVE  TypeFiles'
  BY <1>1, ContentsFacts, DataType
  DEF StageRestore, Put, Service, mine, MayBegin, TypeOK, TypeFiles, FileName
<1>2. ASSUME NEW a \in Actor, NEW w \in {"config", "nothing"},
             ConfirmRestore(a, w)
      PROVE  TypeFiles'
  BY <1>2, ContentsFacts, DataType
  DEF ConfirmRestore, There, Gone, Service, mine, MayBegin, TypeOK,
      TypeFiles, FileName
<1>3. ASSUME NEW a \in Actor,
             ClearStagedConfig(a) \/ FlushUpload(a) \/ PublishStaged(a) \/
             StageConfig(a)
      PROVE  TypeFiles'
  BY <1>3, ContentsFacts, DataType
  DEF ClearStagedConfig, PutConf, Service, mine, Goto, FlushUpload, Done,
      DropCopy, Gone, PublishStaged, Rename, StageConfig, TypeOK, TypeFiles,
      FileName, RemoveConf, Remains
<1>4. ASSUME NEW a \in Actor,
             DropConfirmedConfig(a) \/ FlushStaged(a)
      PROVE  TypeFiles'
  BY <1>4, ContentsFacts, DataType
  DEF DropConfirmedConfig, PutConf, Service, mine, Goto, FlushStaged, There,
      Done, TypeOK, TypeFiles, FileName, RemoveConf, Remains
<1>5. ASSUME NEW a \in Actor, ConfirmDb(a)
      PROVE  TypeFiles'
  <2>1. \/ Rename("staged", "pending")
        \/ Put("pending", file["staged"]) /\ volatile' \subseteq volatile
        \/ UNCHANGED <<file, volatile>>
    BY <1>5 DEF ConfirmDb
  <2> QED
    BY <2>1, ContentsFacts DEF Rename, Put, TypeOK, TypeFiles, FileName
<1>6. ASSUME NEW a \in Actor,
             ConfirmConfig(a)
      PROVE  TypeFiles'
  BY <1>6, ContentsFacts, DataType
  DEF ConfirmConfig, PutConf, mine, Done, TypeOK, TypeFiles, FileName,
      RemoveConf, Remains
<1>7. CASE KillCli
  BY <1>7, ContentsFacts, DataType
  DEF KillCli, Service, mine, Done, DropCopy, Gone, TypeOK, TypeFiles,
      FileName
<1>8. CASE Start \/ CheckPending \/ CheckpointLive \/ SnapshotLive \/
           FlushPending
  BY <1>8, ContentsFacts, DataType
  DEF Start, Step, Rest, CheckPending, There, PutConf, mine, CheckpointLive,
      Refuse, SnapshotLive, FlushPending, TypeOK, TypeFiles, FileName,
      RemoveConf, Remains, Held
<1>9. CASE MoveSidecarsAside
  BY <1>9, ContentsFacts, DataType
  DEF MoveSidecarsAside, There, Rename, Step, Rest, Refuse, mine, TypeOK,
      TypeFiles, FileName, Held
<1>10. CASE Install \/ InstallCopy
  <2>1. CASE Installed("pending") /\ volatile' \subseteq volatile
    BY <2>1, InstalledType DEF TypeOK, TypeFiles, FileName
  <2>2. CASE Installed("tmp") /\ UNCHANGED volatile
    BY <2>2, InstalledType DEF TypeOK, TypeFiles, FileName
  <2>3. CASE (\E c \in {file["pending"], Nothing} : Put("tmp", c)) /\ UNCHANGED volatile
    BY <2>3, ContentsFacts DEF TypeOK, TypeFiles, Put, FileName
  <2> QED
    BY <1>10, <2>1, <2>2, <2>3 DEF Install, InstallCopy
<1>11. CASE RestoreSidecars \/ RetirePending \/ DropAside \/ PruneSnapshots
  BY <1>11, ContentsFacts, DataType
  DEF RestoreSidecars, Rename, Step, Rest, RetirePending, Gone, mine,
      DropAside, Put, PruneSnapshots, TypeOK, TypeFiles, FileName, Held
<1>12. CASE SavePrevious \/ WriteConfig \/ DiscardConfig \/ SettleConfig
  BY <1>12, ContentsFacts, DataType
  DEF SavePrevious, PutConf, mine, Step, Rest, WriteConfig, DiscardConfig,
      SettleConfig, TypeOK, TypeFiles, FileName, RemoveConf, Remains, Held
<1>13. CASE Reject \/ SetAside \/ OpenDb
  BY <1>13, ContentsFacts, DataType
  DEF Reject, PutConf, mine, Step, Rest, SetAside, There, Gone, OpenDb, Put,
      TypeOK, TypeFiles, FileName, RemoveConf, Remains, Held
<1>14. CASE Commit
  <2>1. [Data EXCEPT !.at = @ + 1] \in Contents
    BY DataType DEF TypeOK, Contents
  <2> QED
    BY <1>14, <2>1 DEF TypeOK, TypeFiles, Commit, Put, Rest, Held
<1>15. CASE Stop
  <2>1. [file EXCEPT !["db"] = Data, !["wal"] = Nothing] \in [FileName -> Contents]
    BY DataType, ContentsFacts DEF TypeOK, TypeFiles
  <2> QED
    BY <1>15, <2>1, ContentsFacts DEF TypeOK, TypeFiles, Stop
<1>16. CASE Crash
  BY <1>16, ContentsFacts, DataType DEF Crash, TypeOK, TypeFiles, FileName
<1> QED
  BY <1>1, <1>2, <1>3, <1>4, <1>5, <1>6, <1>7, <1>8, <1>9, <1>10, <1>11,
     <1>12, <1>13, <1>14, <1>15, <1>16
  DEF Next, Restorer, Starting

(* ... of the configs. *)
LEMMA ConfType ==
  ASSUME TypeOK, Next
  PROVE  TypeConf'
<1>1. ASSUME NEW a \in Actor, NEW b \in Backup,
             StageRestore(a, b)
      PROVE  TypeConf'
  BY <1>1, RecordFacts
  DEF StageRestore, Put, Service, mine, MayBegin, TypeOK, TypeConf, ConfName,
      Merge, Config
<1>2. ASSUME NEW a \in Actor, NEW w \in {"config", "nothing"},
             ConfirmRestore(a, w)
      PROVE  TypeConf'
  BY <1>2, RecordFacts
  DEF ConfirmRestore, There, Gone, Service, mine, MayBegin, TypeOK, TypeConf,
      ConfName, Merge, Config
<1>3. ASSUME NEW a \in Actor,
             ClearStagedConfig(a) \/ FlushUpload(a) \/ PublishStaged(a) \/
             StageConfig(a)
      PROVE  TypeConf'
  BY <1>3, RecordFacts, RestoreAssumption
  DEF ClearStagedConfig, PutConf, Service, mine, Goto, FlushUpload, Done,
      DropCopy, Gone, PublishStaged, Rename, StageConfig, TypeOK, TypeConf,
      ConfName, Config, Merge, RemoveConf, Remains
<1>4. ASSUME NEW a \in Actor,
             DropConfirmedConfig(a) \/ FlushStaged(a)
      PROVE  TypeConf'
  BY <1>4, RecordFacts
  DEF DropConfirmedConfig, PutConf, Service, mine, Goto, FlushStaged, There,
      Done, TypeOK, TypeConf, ConfName, Merge, Config, RemoveConf, Remains
<1>5. ASSUME NEW a \in Actor,
             ConfirmDb(a)
      PROVE  TypeConf'
  BY <1>5, RecordFacts
  DEF ConfirmDb, There, Rename, Put, Service, mine, Goto, Done, TypeOK,
      TypeConf, ConfName, Merge, Config
<1>6. ASSUME NEW a \in Actor,
             ConfirmConfig(a)
      PROVE  TypeConf'
  BY <1>6, RecordFacts
  DEF ConfirmConfig, PutConf, mine, Done, TypeOK, TypeConf, ConfName,
      RemoveConf, Remains
<1>7. CASE KillCli
  BY <1>7, RecordFacts
  DEF KillCli, Service, mine, Done, DropCopy, Gone, TypeOK, TypeConf,
      ConfName, Merge, Config
<1>8. CASE Start \/ CheckPending \/ CheckpointLive \/ SnapshotLive \/
           FlushPending
  BY <1>8, RecordFacts
  DEF Start, Step, Rest, CheckPending, There, PutConf, mine, CheckpointLive,
      Refuse, SnapshotLive, FlushPending, TypeOK, TypeConf, ConfName, Merge,
      Config, RemoveConf, Remains, Held
<1>9. CASE MoveSidecarsAside
  BY <1>9, RecordFacts
  DEF MoveSidecarsAside, There, Rename, Step, Rest, Refuse, mine, TypeOK,
      TypeConf, ConfName, Merge, Config, Held
<1>10. CASE Install
  BY <1>10, RecordFacts
  DEF Install, Put, mine, Step, Rest, Installed, TypeOK, TypeConf, ConfName,
      Merge, Config, Held
<1>11. CASE InstallCopy
  BY <1>11, RecordFacts
  DEF InstallCopy, Put, mine, Step, Rest, Installed, TypeOK, TypeConf,
      ConfName, Merge, Config, Held
<1>12. CASE RestoreSidecars \/ RetirePending \/ DropAside \/ PruneSnapshots
  BY <1>12, RecordFacts
  DEF RestoreSidecars, Rename, Step, Rest, RetirePending, Gone, mine,
      DropAside, Put, PruneSnapshots, TypeOK, TypeConf, ConfName, Merge,
      Config, Held
<1>13. CASE SavePrevious \/ WriteConfig \/ DiscardConfig \/ SettleConfig
  BY <1>13, RecordFacts
  DEF SavePrevious, PutConf, mine, Step, Rest, WriteConfig, DiscardConfig,
      SettleConfig, TypeOK, TypeConf, ConfName, Merge, Config, RemoveConf,
      Remains, Held
<1>14. CASE Reject \/ SetAside \/ OpenDb
  BY <1>14, RecordFacts
  DEF Reject, PutConf, mine, Step, Rest, SetAside, There, Gone, OpenDb, Put,
      TypeOK, TypeConf, ConfName, Merge, Config, RemoveConf, Remains, Held
<1>15. CASE Commit
  BY <1>15, RecordFacts
  DEF Commit, Put, mine, Rest, TypeOK, TypeConf, ConfName, Merge, Config, Held
<1>16. CASE Stop
  BY <1>16, RecordFacts
  DEF Stop, mine, TypeOK, TypeConf, ConfName, Merge, Config
<1>17. CASE Crash
  BY <1>17, RecordFacts DEF Crash, TypeOK, TypeConf, ConfName, Merge, Config
<1> QED
  BY <1>1, <1>2, <1>3, <1>4, <1>5, <1>6, <1>7, <1>8, <1>9, <1>10, <1>11,
     <1>12, <1>13, <1>14, <1>15, <1>16, <1>17
  DEF Next, Restorer, Starting

(* ... of the commands. *)
LEMMA OpsType ==
  ASSUME TypeOK, Next
  PROVE  TypeOps'
<1>1. ASSUME NEW a \in Actor, NEW l \in Command, NEW b \in Backup \cup {"nothing"},
              NEW w \in {"config", "nothing"},
              op' = [op EXCEPT ![a] = [at |-> l, of |-> b, with |-> w]]
       PROVE  TypeOps'
  BY <1>1, RecordFacts DEF TypeOK, TypeOps
<1>2. ASSUME NEW a \in Actor, NEW b \in Backup, StageRestore(a, b)
       PROVE  TypeOps'
  BY <1>2, <1>1 DEF StageRestore, Command
<1>3. ASSUME NEW a \in Actor, NEW w \in {"config", "nothing"}, ConfirmRestore(a, w)
       PROVE  TypeOps'
  BY <1>3, <1>1 DEF ConfirmRestore, Command, TypeOK, TypeOps
<1>4. ASSUME NEW a \in Actor,
              \/ ClearStagedConfig(a) \/ FlushUpload(a) \/ PublishStaged(a)
              \/ StageConfig(a) \/ DropConfirmedConfig(a) \/ FlushStaged(a)
              \/ ConfirmDb(a) \/ ConfirmConfig(a)
       PROVE  TypeOps'
  <2>1. Done(a) \/ \E l \in Command : Goto(a, l)
    BY <1>4
      DEF ClearStagedConfig, FlushUpload, PublishStaged, StageConfig,
          DropConfirmedConfig, FlushStaged, ConfirmDb, ConfirmConfig, Command,
          RemoveConf, Remains, PutConf
  <2> QED
    BY <2>1, OpSteps DEF TypeOK, Actor
<1>5. CASE KillCli
  BY <1>5, OpSteps DEF KillCli, TypeOK, Actor
<1>6. CASE Start \/ CheckPending \/ CheckpointLive \/ SnapshotLive \/
           FlushPending
  BY <1>6, RecordFacts
  DEF Start, Step, Rest, CheckPending, There, PutConf, mine, CheckpointLive,
      Refuse, SnapshotLive, FlushPending, TypeOK, TypeOps, Actor, RemoveConf,
      Remains, Held
<1>7. CASE MoveSidecarsAside \/ Install \/ InstallCopy
  BY <1>7, RecordFacts
  DEF MoveSidecarsAside, There, Rename, Step, Rest, Refuse, mine, Install, Put,
      Installed, InstallCopy, TypeOK, TypeOps, Actor, Held
<1>8. CASE RestoreSidecars \/ RetirePending \/ DropAside \/ PruneSnapshots
  BY <1>8, RecordFacts
  DEF RestoreSidecars, Rename, Step, Rest, RetirePending, Gone, mine,
      DropAside, Put, PruneSnapshots, TypeOK, TypeOps, Actor, Held
<1>9. CASE SavePrevious \/ WriteConfig \/ DiscardConfig \/ SettleConfig
  BY <1>9, RecordFacts
  DEF SavePrevious, PutConf, mine, Step, Rest, WriteConfig, DiscardConfig,
      SettleConfig, TypeOK, TypeOps, Actor, RemoveConf, Remains, Held
<1>10. CASE Reject \/ SetAside \/ OpenDb
  BY <1>10, RecordFacts
  DEF Reject, PutConf, mine, Step, Rest, SetAside, There, Gone, OpenDb, Put,
      TypeOK, TypeOps, Actor, RemoveConf, Remains, Held
<1>11. CASE Commit \/ Stop \/ Crash
  BY <1>11, RecordFacts
  DEF Commit, Put, mine, Rest, Stop, Crash, TypeOK, TypeOps, Actor, Held
<1> QED
  BY <1>1, <1>2, <1>3, <1>4, <1>5, <1>6, <1>7, <1>8, <1>9, <1>10, <1>11
  DEF Next, Restorer, Starting

(* ... of the service. *)
LEMMA ServiceType ==
  ASSUME TypeOK, Next
  PROVE  TypeService'
<1>1. CASE Restorer
  <2>1. /\ svc' \in {svc, "exiting"}
        /\ UNCHANGED <<installs, snaps, taken, seen, replaced>>
    BY <1>1
      DEF Restorer, StageRestore, ConfirmRestore, ClearStagedConfig,
          FlushUpload, PublishStaged, StageConfig, DropConfirmedConfig,
          FlushStaged, ConfirmDb, ConfirmConfig, KillCli, Service, mine,
          RemoveConf, Remains, PutConf
  <2> QED
    BY <2>1 DEF TypeOK, TypeService, Place
<1>2. CASE Start \/ CheckPending
  BY <1>2, ContentsFacts, DataType
  DEF Start, Step, Rest, CheckPending, There, PutConf, mine, TypeOK,
      TypeService, Place, RemoveConf, Remains, Held
<1>3. CASE CheckpointLive \/ FlushPending
  BY <1>3, ContentsFacts, DataType
  DEF CheckpointLive, mine, Step, Rest, Refuse, FlushPending, TypeOK,
      TypeService, Place, Held
<1>4. CASE SnapshotLive
  <2>1. ASSUME NEW s \in Snapshot
        PROVE  /\ Append(snaps, s) \in Seq(Snapshot) /\ Append(snaps, s) # <<>>
               /\ <<s>> \o snaps \in Seq(Snapshot) /\ <<s>> \o snaps # <<>>
    BY DEF TypeOK, TypeService
  <2>2. \A w \in {Nothing, file["wal"]} : [db |-> file["db"], wal |-> w] \in Snapshot
    BY ContentsFacts DEF TypeOK, TypeFiles, FileName, Snapshot
  <2>3. snaps' \in Seq(Snapshot) /\ (taken' # "none" => snaps' # <<>>)
    BY <1>4, <2>1, <2>2
      DEF SnapshotLive, Refuse, Rest, mine, TypeOK, TypeService, Held
  <2> QED
    BY <1>4, <2>3
      DEF SnapshotLive, Step, Refuse, Rest, mine, TypeOK, TypeService, Place,
          Held
<1>5. CASE MoveSidecarsAside
  BY <1>5, ContentsFacts, DataType
  DEF MoveSidecarsAside, There, Rename, Step, Rest, Refuse, mine, TypeOK,
      TypeService, Place, Held
<1>6. CASE Install \/ InstallCopy
  <2>1. CASE Installed("pending") \/ Installed("tmp")
    <3>1. installs' \in Nat /\ seen' \in Contents /\ replaced' \in Contents
      BY <2>1, InstalledType DEF TypeOK, FileName
    <3> QED
      BY <1>6, <2>1, <3>1
        DEF Install, InstallCopy, Installed, Step, Rest, mine, TypeOK,
            TypeService, Place, Held
  <2>2. CASE UNCHANGED <<snaps, mine, Rest>>
    BY <1>6, <2>2
      DEF Install, InstallCopy, Installed, Step, Rest, mine, TypeOK,
          TypeService, Place, Held
  <2> QED
    BY <1>6, <2>1, <2>2 DEF Install, InstallCopy, Held
<1>7. CASE RestoreSidecars \/ RetirePending \/ DropAside
  BY <1>7, ContentsFacts, DataType
  DEF RestoreSidecars, Rename, Step, Rest, RetirePending, Gone, mine,
      DropAside, Put, TypeOK, TypeService, Place, Held
<1>8. CASE PruneSnapshots
  <2>k. SnapshotsKept \in Nat /\ SnapshotsKept - 1 \in Nat
    BY RestoreAssumption
  <2>1. ASSUME NEW q \in Seq(Snapshot), NEW n \in Nat
        PROVE  Newest(q, n) \in Seq(Snapshot)
    BY DEF Newest
  <2>2. ASSUME taken = "first" PROVE snaps' \in Seq(Snapshot)
    <3>1. Head(snaps) \in Snapshot /\ Tail(snaps) \in Seq(Snapshot)
      BY <2>2 DEF TypeOK, TypeService
    <3>2. Newest(Tail(snaps), SnapshotsKept - 1) \in Seq(Snapshot)
      BY <2>1, <2>k, <3>1
    <3> QED
      BY <1>8, <2>2, <3>1, <3>2 DEF PruneSnapshots
  <2>3. ASSUME taken # "first" PROVE snaps' \in Seq(Snapshot)
    BY <1>8, <2>1, <2>3, <2>k DEF PruneSnapshots, TypeOK, TypeService
  <2> QED
    BY <1>8, <2>2, <2>3
      DEF PruneSnapshots, Step, Rest, TypeOK, TypeService, Place, Held
<1>9. CASE SavePrevious \/ WriteConfig \/ DiscardConfig \/ SettleConfig
  BY <1>9, ContentsFacts, DataType
  DEF SavePrevious, PutConf, mine, Step, Rest, WriteConfig, DiscardConfig,
      SettleConfig, TypeOK, TypeService, Place, RemoveConf, Remains, Held
<1>10. CASE Reject \/ SetAside \/ OpenDb
  BY <1>10, ContentsFacts, DataType
  DEF Reject, PutConf, mine, Step, Rest, SetAside, There, Gone, OpenDb, Put,
      TypeOK, TypeService, Place, RemoveConf, Remains, Held
<1>11. CASE Commit
  BY <1>11, ContentsFacts, DataType
  DEF Commit, Put, mine, Rest, TypeOK, TypeService, Place, Held
<1>12. CASE Stop
  BY <1>12, ContentsFacts, DataType DEF Stop, mine, TypeOK, TypeService, Place
<1>13. CASE Crash
  BY <1>13, ContentsFacts, DataType DEF Crash, TypeOK, TypeService, Place
<1> QED
  BY <1>1, <1>2, <1>3, <1>4, <1>5, <1>6, <1>7, <1>8, <1>9, <1>10, <1>11,
     <1>12, <1>13
  DEF Next, Restorer, Starting

(* ... of its flags. *)
LEMMA FlagsType ==
  ASSUME TypeOK, Next
  PROVE  TypeFlags'
<1>1. ASSUME NEW a \in Actor, NEW b \in Backup,
             StageRestore(a, b)
      PROVE  TypeFlags'
  BY <1>1 DEF StageRestore, Put, Service, mine, MayBegin, TypeOK, TypeFlags
<1>2. ASSUME NEW a \in Actor, NEW w \in {"config", "nothing"},
             ConfirmRestore(a, w)
      PROVE  TypeFlags'
  BY <1>2
  DEF ConfirmRestore, There, Gone, Service, mine, MayBegin, TypeOK, TypeFlags
<1>3. ASSUME NEW a \in Actor,
             ClearStagedConfig(a) \/ FlushUpload(a) \/ PublishStaged(a) \/
             StageConfig(a)
      PROVE  TypeFlags'
  BY <1>3
  DEF ClearStagedConfig, PutConf, Service, mine, Goto, FlushUpload, Done,
      DropCopy, Gone, PublishStaged, Rename, StageConfig, TypeOK, TypeFlags,
      RemoveConf, Remains
<1>4. ASSUME NEW a \in Actor,
             DropConfirmedConfig(a) \/ FlushStaged(a)
      PROVE  TypeFlags'
  BY <1>4
  DEF DropConfirmedConfig, PutConf, Service, mine, Goto, FlushStaged, There,
      Done, TypeOK, TypeFlags, RemoveConf, Remains
<1>5. ASSUME NEW a \in Actor,
             ConfirmDb(a)
      PROVE  TypeFlags'
  BY <1>5
  DEF ConfirmDb, There, Rename, Put, Service, mine, Goto, Done, TypeOK,
      TypeFlags
<1>6. ASSUME NEW a \in Actor,
             ConfirmConfig(a)
      PROVE  TypeFlags'
  BY <1>6
    DEF ConfirmConfig, PutConf, mine, Done, TypeOK, TypeFlags, RemoveConf,
        Remains
<1>7. CASE KillCli
  BY <1>7 DEF KillCli, Service, mine, Done, DropCopy, Gone, TypeOK, TypeFlags
<1>8. CASE Start \/ CheckPending \/ CheckpointLive \/ SnapshotLive \/
           FlushPending
  BY <1>8
  DEF Start, Step, Rest, CheckPending, There, PutConf, mine, CheckpointLive,
      Refuse, SnapshotLive, FlushPending, TypeOK, TypeFlags, RemoveConf,
      Remains, Held
<1>9. CASE MoveSidecarsAside
  BY <1>9
  DEF MoveSidecarsAside, There, Rename, Step, Rest, Refuse, mine, TypeOK,
      TypeFlags, Held
<1>10. CASE Install
  BY <1>10
    DEF Install, Put, mine, Step, Rest, Installed, TypeOK, TypeFlags, Held
<1>11. CASE InstallCopy
  BY <1>11
    DEF InstallCopy, Put, mine, Step, Rest, Installed, TypeOK, TypeFlags, Held
<1>12. CASE RestoreSidecars \/ RetirePending \/ DropAside \/ PruneSnapshots
  BY <1>12
  DEF RestoreSidecars, Rename, Step, Rest, RetirePending, Gone, mine,
      DropAside, Put, PruneSnapshots, TypeOK, TypeFlags, Held
<1>13. CASE SavePrevious \/ WriteConfig \/ DiscardConfig \/ SettleConfig
  BY <1>13
  DEF SavePrevious, PutConf, mine, Step, Rest, WriteConfig, DiscardConfig,
      SettleConfig, TypeOK, TypeFlags, RemoveConf, Remains, Held
<1>14. CASE Reject \/ SetAside \/ OpenDb
  BY <1>14
  DEF Reject, PutConf, mine, Step, Rest, SetAside, There, Gone, OpenDb, Put,
      TypeOK, TypeFlags, RemoveConf, Remains, Held
<1>15. CASE Commit
  BY <1>15 DEF Commit, Put, mine, Rest, TypeOK, TypeFlags, Held
<1>16. CASE Stop
  BY <1>16 DEF Stop, mine, TypeOK, TypeFlags
<1>17. CASE Crash
  BY <1>17 DEF Crash, TypeOK, TypeFlags
<1> QED
  BY <1>1, <1>2, <1>3, <1>4, <1>5, <1>6, <1>7, <1>8, <1>9, <1>10, <1>11,
     <1>12, <1>13, <1>14, <1>15, <1>16, <1>17
  DEF Next, Restorer, Starting

(* ... of the bookkeeping: a step counts one failure or none. *)
LEMMA FaultsType ==
  ASSUME TypeOK, Next
  PROVE  TypeFaults'
<1>1. Fault \/ UNCHANGED faults
  BY
    DEF StageRestore, Service, mine, ConfirmRestore, ClearStagedConfig,
        FlushUpload, NoFault, PublishStaged, StageConfig, DropConfirmedConfig,
        FlushStaged, ConfirmDb, ConfirmConfig, KillCli, Start, Rest,
        CheckPending, CheckpointLive, Refuse, SnapshotLive, FlushPending,
        MoveSidecarsAside, Install, Installed, InstallCopy, RestoreSidecars,
        RetirePending, DropAside, PruneSnapshots, SavePrevious, WriteConfig,
        DiscardConfig, SettleConfig, Reject, SetAside, OpenDb, Commit, Stop,
        Crash, Next, Restorer, Starting, Actor, RemoveConf, Remains, PutConf,
        Held
<1> QED
  BY <1>1 DEF Fault, TypeOK, TypeFaults

(* What cannot be removed is a config there was, and is never forgotten. *)
LEMMA StuckGrows ==
  ASSUME Next
  PROVE  \/ UNCHANGED stuck
         \/ \E n \in ConfName : stuck' = stuck \cup {conf[n].general}
<1>1. CASE Restorer
  BY <1>1 DEF Restorer, StageRestore, ConfirmRestore, ClearStagedConfig,
      FlushUpload, PublishStaged, StageConfig, DropConfirmedConfig,
      FlushStaged, ConfirmDb, ConfirmConfig, KillCli, RemoveConf, Remains,
      ConfName
<1>2. CASE CheckPending \/ DiscardConfig \/ Reject
  BY <1>2 DEF CheckPending, DiscardConfig, Reject, RemoveConf, Remains,
      ConfName
<1>3. CASE Start \/ CheckpointLive \/ SnapshotLive \/ FlushPending \/
           MoveSidecarsAside \/ Install \/ InstallCopy \/ RestoreSidecars
  BY <1>3 DEF Start, CheckpointLive, SnapshotLive, FlushPending, Refuse,
      MoveSidecarsAside, Install, InstallCopy, Installed, RestoreSidecars,
      Held
<1>4. CASE RetirePending \/ DropAside \/ PruneSnapshots \/ SavePrevious \/
           WriteConfig \/ SettleConfig \/ SetAside \/ OpenDb
  BY <1>4 DEF RetirePending, DropAside, PruneSnapshots, SavePrevious,
      WriteConfig, SettleConfig, SetAside, OpenDb, Held
<1>5. CASE Commit \/ Stop \/ Crash
  BY <1>5 DEF Commit, Stop, Crash, Held
<1> QED
  BY <1>1, <1>2, <1>3, <1>4, <1>5 DEF Next, Starting

(* ... of what was left behind. *)
LEMMA LeftType ==
  ASSUME TypeOK, Next
  PROVE  TypeLeft'
<1>1. \A n \in ConfName : conf[n].general \in Backup \cup {"own", "nothing"}
  BY DEF TypeOK, TypeConf, Config
<1>2. \/ UNCHANGED stuck
      \/ \E n \in ConfName : stuck' = stuck \cup {conf[n].general}
  BY StuckGrows
<1>3. stranded' \in {stranded, TRUE, stranded \/ ~Loads(conf["running"])}
  <2>1. CASE Restorer
    BY <2>1 DEF Restorer, StageRestore, ConfirmRestore, ClearStagedConfig,
        FlushUpload, PublishStaged, StageConfig, DropConfirmedConfig,
        FlushStaged, ConfirmDb, ConfirmConfig, KillCli, Service
  <2>2. CASE Starting
    BY <2>2 DEF Starting, Start, CheckPending, CheckpointLive, SnapshotLive,
        FlushPending, Refuse, MoveSidecarsAside, Install, InstallCopy,
        Installed, RestoreSidecars, RetirePending, DropAside, PruneSnapshots,
        SavePrevious, WriteConfig, DiscardConfig, SettleConfig, Reject,
        SetAside, OpenDb, Rest, Held
  <2>3. CASE Commit \/ Stop \/ Crash
    BY <2>3 DEF Commit, Stop, Crash, Rest, Held
  <2> QED
    BY <2>1, <2>2, <2>3 DEF Next
<1> QED
  BY <1>1, <1>2, <1>3 DEF TypeOK, TypeLeft

LEMMA TypesNext ==
  ASSUME TypeOK, [Next]_vars
  PROVE  TypeOK'
<1>1. CASE Next
  BY <1>1, FilesType, ConfType, OpsType, ServiceType, FlagsType, FaultsType,
     LeftType
  DEF TypeOK
<1>2. CASE UNCHANGED vars
  BY <1>2 DEF vars, TypeOK, TypeFiles, TypeConf, TypeOps, TypeService,
              TypeFlags, TypeFaults, TypeLeft
<1> QED
  BY <1>1, <1>2

(* Every variable keeps its type through staging, confirming, starting,
   committing, stopping and losing power. *)
THEOREM RestoreTypes == Spec => []TypeOK
<1>1. Init => TypeOK
  BY InitTypes
<1>2. TypeOK /\ [Next]_vars => TypeOK'
  BY TypesNext
<1> QED
  BY <1>1, <1>2, PTL DEF Spec

-----------------------------------------------------------------------------
(* What the two sides leave to each other. *)

(* A restore command does not touch what the service runs on. *)
RestorerLeaves ==
  /\ \A n \in {"db", "wal", "aside", "tmp"} : file'[n] = file[n]
  /\ UNCHANGED <<snaps, readable, taken, moved, installs, seen, replaced>>
  /\ \A n \in {"running", "previous"} : conf'[n] = conf[n]
  /\ svc' # svc => svc' = "exiting" /\ op["web"].at # "idle"
  /\ There("pending") => There("pending")'

(* A start does not touch what is being staged. *)
StartingLeaves ==
  /\ op' = op /\ svc \notin {"running", "exiting"}
  /\ \A n \in Actor \cup {"staged"} : file'[n] = file[n]
  /\ volatile' \subseteq volatile
  /\ conf'["staged"] = conf["staged"]
  /\ file'["pending"] \in {file["pending"], Nothing}
  /\ conf'["pending"] \in {conf["pending"], NoConf}

(* ... and so does each of its steps. *)
LEMMA RestorerFrame ==
  ASSUME TypeOK, Restorer
  PROVE  RestorerLeaves
<1>1. ASSUME NEW a \in Actor, NEW b \in Backup,
             StageRestore(a, b)
      PROVE  RestorerLeaves
  BY <1>1
  DEF StageRestore, Put, Service, mine, MayBegin, TypeOK, TypeFiles,
      TypeConf, TypeOps, ConfName, FileName, Actor, Idle, There,
      RestorerLeaves
<1>2. ASSUME NEW a \in Actor, NEW w \in {"config", "nothing"},
             ConfirmRestore(a, w)
      PROVE  RestorerLeaves
  BY <1>2
  DEF ConfirmRestore, There, Gone, Service, mine, MayBegin, TypeOK,
      TypeFiles, TypeConf, TypeOps, ConfName, FileName, Actor, Idle,
      RestorerLeaves
<1>3. ASSUME NEW a \in Actor,
             ClearStagedConfig(a) \/ FlushUpload(a) \/ PublishStaged(a) \/
             StageConfig(a)
      PROVE  RestorerLeaves
  BY <1>3
  DEF ClearStagedConfig, PutConf, Service, mine, Goto, FlushUpload, Done,
      DropCopy, Gone, PublishStaged, Rename, StageConfig, TypeOK, TypeFiles,
      TypeConf, TypeOps, ConfName, FileName, Actor, Idle, There,
      RestorerLeaves, RemoveConf, Remains
<1>4. ASSUME NEW a \in Actor,
             DropConfirmedConfig(a) \/ FlushStaged(a) \/ ConfirmDb(a)
      PROVE  RestorerLeaves
  BY <1>4
  DEF DropConfirmedConfig, PutConf, Service, mine, Goto, FlushStaged, There,
      Done, ConfirmDb, Rename, Put, TypeOK, TypeFiles, TypeConf, TypeOps,
      ConfName, FileName, Actor, Idle, RestorerLeaves, RemoveConf, Remains
<1>5. ASSUME NEW a \in Actor,
             ConfirmConfig(a)
      PROVE  RestorerLeaves
  BY <1>5
  DEF ConfirmConfig, PutConf, mine, Done, TypeOK, TypeFiles, TypeConf, TypeOps,
      ConfName, FileName, Actor, Idle, There, RestorerLeaves, RemoveConf,
      Remains
<1>6. CASE KillCli
  BY <1>6
  DEF KillCli, Service, mine, Done, DropCopy, Gone, TypeOK, TypeFiles,
      TypeConf, TypeOps, ConfName, FileName, Actor, Idle, There,
      RestorerLeaves
<1> QED
  BY <1>1, <1>2, <1>3, <1>4, <1>5, <1>6 DEF Restorer

(* ... nor does any of its steps. *)
LEMMA StartingFrame ==
  ASSUME TypeOK, OnDisk, Starting
  PROVE  StartingLeaves
<1>1. CASE Start \/ CheckPending \/ CheckpointLive
  BY <1>1
  DEF Start, Step, Rest, CheckPending, There, PutConf, mine, CheckpointLive,
      Refuse, TypeOK, TypeFiles, TypeConf, ConfName, FileName, Actor, OnDisk,
      StartingLeaves, RemoveConf, Remains, Held
<1>2. CASE SnapshotLive \/ FlushPending
  BY <1>2
  DEF SnapshotLive, Step, Rest, Refuse, mine, FlushPending, TypeOK, TypeFiles,
      TypeConf, ConfName, FileName, Actor, OnDisk, StartingLeaves, Held
<1>3. CASE MoveSidecarsAside
  BY <1>3
  DEF MoveSidecarsAside, There, Rename, Step, Rest, Refuse, mine, TypeOK,
      TypeFiles, TypeConf, ConfName, FileName, Actor, OnDisk, StartingLeaves,
      Held
<1>4. CASE Install \/ InstallCopy
  BY <1>4
  DEF Install, Put, mine, Step, Rest, Installed, InstallCopy, TypeOK,
      TypeFiles, TypeConf, ConfName, FileName, Actor, OnDisk, StartingLeaves,
      Held
<1>5. CASE RestoreSidecars
  BY <1>5
  DEF RestoreSidecars, Rename, Step, Rest, TypeOK, TypeFiles, TypeConf,
      ConfName, FileName, Actor, OnDisk, StartingLeaves, Held
<1>6. CASE RetirePending \/ DropAside \/ PruneSnapshots
  BY <1>6
  DEF RetirePending, Gone, mine, Step, Rest, DropAside, Put, PruneSnapshots,
      TypeOK, TypeFiles, TypeConf, ConfName, FileName, Actor, OnDisk,
      StartingLeaves, Held
<1>7. CASE SavePrevious \/ WriteConfig \/ DiscardConfig \/ SettleConfig
  BY <1>7
  DEF SavePrevious, PutConf, mine, Step, Rest, WriteConfig, DiscardConfig,
      SettleConfig, TypeOK, TypeFiles, TypeConf, ConfName, FileName, Actor,
      OnDisk, StartingLeaves, RemoveConf, Remains, Held
<1>8. CASE Reject \/ SetAside \/ OpenDb
  BY <1>8
  DEF Reject, PutConf, mine, Step, Rest, SetAside, There, Gone, OpenDb, Put,
      TypeOK, TypeFiles, TypeConf, ConfName, FileName, Actor, OnDisk,
      StartingLeaves, RemoveConf, Remains, Held
<1> QED
  BY <1>1, <1>2, <1>3, <1>4, <1>5, <1>6, <1>7, <1>8 DEF Starting

-----------------------------------------------------------------------------
(* The files. *)

(* What a step does to the data the next start would open. *)
LEMMA DataFacts ==
  ASSUME TypeFiles, LiveDb, WalInv
  PROVE  /\ There("db") => /\ Data.of = file["db"].of /\ Data.gen = file["db"].gen
                           /\ Data # Nothing
         /\ There("db") /\ ~There("wal") => Data = file["db"]
         /\ There("db") /\ There("wal") => Data = file["wal"]
         /\ ~There("db") => Data = Copy("own") /\ ~There("wal")
BY DEF WalInv, LiveDb, There, OfLive, Data, Opened

(* An install makes the confirmed backup the live database. *)
LEMMA InstalledFacts ==
  ASSUME TypeOK, WholeBackups, NEW src \in {"pending", "tmp"}, There(src), Installed(src)
  PROVE  \E b \in Backup :
           /\ file[src] = Copy(b)
           /\ file' = [file EXCEPT !["db"] = [of |-> b, gen |-> installs + 1, at |-> 0],
                                   ![src] = Nothing]
<1>1. PICK b \in Backup : file[src] = Copy(b)
  BY DEF WholeBackups, CopyName, Whole, There
<1>2. [Copy(b) EXCEPT !.gen = installs + 1] = [of |-> b, gen |-> installs + 1, at |-> 0]
  BY DEF Copy
<1>3. file' = [file EXCEPT !["db"] = [Copy(b) EXCEPT !.gen = installs + 1],
                           ![src] = Nothing]
  BY <1>1 DEF Installed
<1> QED
  BY <1>1, <1>2, <1>3

(* A web request ends with the service. *)
LEMMA WebInsideNext ==
  ASSUME TypeOK, WebInside, OnDisk, Next
  PROVE  WebInside'
<1>1. ASSUME NEW a \in Actor, NEW b \in Backup,
             StageRestore(a, b)
      PROVE  WebInside'
  BY <1>1
  DEF StageRestore, Put, Service, mine, MayBegin, TypeOK, TypeOps, WebInside,
      OpRecord, Actor, Idle
<1>2. ASSUME NEW a \in Actor, NEW w \in {"config", "nothing"},
             ConfirmRestore(a, w)
      PROVE  WebInside'
  BY <1>2
  DEF ConfirmRestore, There, Gone, Service, mine, MayBegin, TypeOK, TypeOps,
      WebInside, OpRecord, Actor, Idle
<1>3. ASSUME NEW a \in Actor,
             ClearStagedConfig(a) \/ FlushUpload(a)
      PROVE  WebInside'
  BY <1>3
  DEF ClearStagedConfig, PutConf, Service, mine, Goto, FlushUpload, Done,
      DropCopy, Gone, TypeOK, TypeOps, WebInside, OpRecord, Actor, Idle,
      RemoveConf, Remains
<1>4. ASSUME NEW a \in Actor,
             PublishStaged(a) \/ StageConfig(a)
      PROVE  WebInside'
  BY <1>4
  DEF PublishStaged, Rename, Service, mine, Goto, Done, DropCopy, Gone,
      StageConfig, PutConf, TypeOK, TypeOps, WebInside, OpRecord, Actor, Idle,
      RemoveConf, Remains
<1>5. ASSUME NEW a \in Actor,
             DropConfirmedConfig(a)
      PROVE  WebInside'
  BY <1>5
  DEF DropConfirmedConfig, PutConf, Service, mine, Goto, TypeOK, TypeOps,
      WebInside, OpRecord, Actor, Idle, RemoveConf, Remains
<1>6. ASSUME NEW a \in Actor,
             FlushStaged(a)
      PROVE  WebInside'
  BY <1>6
  DEF FlushStaged, There, Service, mine, Goto, Done, TypeOK, TypeOps,
      WebInside, OpRecord, Actor, Idle
<1>7. ASSUME NEW a \in Actor,
             ConfirmDb(a)
      PROVE  WebInside'
  BY <1>7
  DEF ConfirmDb, There, Rename, Put, Service, mine, Goto, Done, TypeOK,
      TypeOps, WebInside, OpRecord, Actor, Idle
<1>8. ASSUME NEW a \in Actor,
             ConfirmConfig(a)
      PROVE  WebInside'
  BY <1>8
  DEF ConfirmConfig, PutConf, mine, Done, TypeOK, TypeOps, WebInside, OpRecord,
      Actor, Idle, RemoveConf, Remains
<1>9. CASE KillCli
  BY <1>9
  DEF KillCli, Service, mine, Done, DropCopy, Gone, TypeOK, TypeOps,
      WebInside, OpRecord, Actor, Idle
<1>10. CASE Starting
  BY <1>10, StartingFrame DEF StartingLeaves, WebInside
<1>11. CASE Commit \/ Stop \/ Crash
  BY <1>11
  DEF Commit, Put, mine, Rest, Stop, Crash, TypeOK, TypeOps, WebInside,
      OpRecord, Actor, Idle, Held
<1> QED
  BY <1>1, <1>2, <1>3, <1>4, <1>5, <1>6, <1>7, <1>8, <1>9, <1>10, <1>11
  DEF Next, Restorer

(* An upload is flushed before it is published. *)
LEMMA OnDiskNext ==
  ASSUME TypeOK, OnDisk, Next
  PROVE  OnDisk'
<1>1. ASSUME NEW a \in Actor, NEW b \in Backup,
             StageRestore(a, b)
      PROVE  OnDisk'
  BY <1>1
  DEF StageRestore, Put, Service, mine, MayBegin, TypeOK, TypeOps, TypeFiles,
      OnDisk, OpRecord, Actor, Idle
<1>2. ASSUME NEW a \in Actor, NEW w \in {"config", "nothing"},
             ConfirmRestore(a, w)
      PROVE  OnDisk'
  BY <1>2
  DEF ConfirmRestore, There, Gone, Service, mine, MayBegin, TypeOK, TypeOps,
      TypeFiles, OnDisk, OpRecord, Actor, Idle
<1>3. ASSUME NEW a \in Actor,
             ClearStagedConfig(a) \/ FlushUpload(a) \/ PublishStaged(a) \/
             StageConfig(a)
      PROVE  OnDisk'
  BY <1>3
  DEF ClearStagedConfig, PutConf, Service, mine, Goto, FlushUpload, Done,
      DropCopy, Gone, PublishStaged, Rename, StageConfig, TypeOK, TypeOps,
      TypeFiles, OnDisk, OpRecord, Actor, Idle, RemoveConf, Remains
<1>4. ASSUME NEW a \in Actor,
             DropConfirmedConfig(a) \/ FlushStaged(a) \/ ConfirmDb(a)
      PROVE  OnDisk'
  BY <1>4
  DEF DropConfirmedConfig, PutConf, Service, mine, Goto, FlushStaged, There,
      Done, ConfirmDb, Rename, Put, TypeOK, TypeOps, TypeFiles, OnDisk,
      OpRecord, Actor, Idle, RemoveConf, Remains
<1>5. ASSUME NEW a \in Actor,
             ConfirmConfig(a)
      PROVE  OnDisk'
  BY <1>5
  DEF ConfirmConfig, PutConf, mine, Done, TypeOK, TypeOps, TypeFiles, OnDisk,
      OpRecord, Actor, Idle, RemoveConf, Remains
<1>6. CASE KillCli
  BY <1>6
  DEF KillCli, Service, mine, Done, DropCopy, Gone, TypeOK, TypeOps,
      TypeFiles, OnDisk, OpRecord, Actor, Idle
<1>7. CASE Starting
  BY <1>7, StartingFrame DEF StartingLeaves, OnDisk
<1>8. CASE Commit \/ Stop \/ Crash
  BY <1>8
  DEF Commit, Put, mine, Rest, Stop, Crash, TypeOK, TypeOps, TypeFiles, OnDisk,
      OpRecord, Actor, Idle, Held
<1> QED
  BY <1>1, <1>2, <1>3, <1>4, <1>5, <1>6, <1>7, <1>8 DEF Next, Restorer

CopiesMove ==
  \A n \in CopyName : \/ file'[n] = Nothing
                      \/ \E b \in Backup : file'[n] = Copy(b)
                      \/ \E m \in CopyName : file'[n] = file[m]

(* A copy of a backup is moved, copied or deleted, never changed. *)
LEMMA CopiesNext ==
  ASSUME TypeOK, OnDisk, Next
  PROVE  CopiesMove
<1>1. ASSUME NEW a \in Actor, NEW b \in Backup, StageRestore(a, b)
      PROVE  CopiesMove
  BY <1>1 DEF StageRestore, Put, TypeOK, TypeFiles, CopyName, FileName, Actor, CopiesMove
<1>2. ASSUME NEW a \in Actor, NEW w \in {"config", "nothing"},
             ConfirmRestore(a, w)
      PROVE  CopiesMove
  BY <1>2
  DEF ConfirmRestore, There, Gone, Service, mine, MayBegin, TypeOK,
      TypeFiles, CopyName, FileName, OnDisk, Actor, CopiesMove
<1>3. ASSUME NEW a \in Actor,
             ClearStagedConfig(a) \/ FlushUpload(a)
      PROVE  CopiesMove
  BY <1>3
  DEF ClearStagedConfig, PutConf, Service, mine, Goto, FlushUpload, Done,
      DropCopy, Gone, TypeOK, TypeFiles, CopyName, FileName, OnDisk, Actor,
      CopiesMove, RemoveConf, Remains
<1>4. ASSUME NEW a \in Actor,
             PublishStaged(a) \/ StageConfig(a)
      PROVE  CopiesMove
  BY <1>4
  DEF PublishStaged, Rename, Service, mine, Goto, Done, DropCopy, Gone,
      StageConfig, PutConf, TypeOK, TypeFiles, CopyName, FileName, OnDisk,
      Actor, CopiesMove, RemoveConf, Remains
<1>5. ASSUME NEW a \in Actor,
             DropConfirmedConfig(a) \/ FlushStaged(a)
      PROVE  CopiesMove
  BY <1>5
  DEF DropConfirmedConfig, PutConf, Service, mine, Goto, FlushStaged, There,
      Done, TypeOK, TypeFiles, CopyName, FileName, OnDisk, Actor, CopiesMove,
      RemoveConf, Remains
<1>6. ASSUME NEW a \in Actor,
             ConfirmDb(a)
      PROVE  CopiesMove
  BY <1>6
  DEF ConfirmDb, There, Rename, Put, Service, mine, Goto, Done, TypeOK,
      TypeFiles, CopyName, FileName, OnDisk, Actor, CopiesMove
<1>7. ASSUME NEW a \in Actor,
             ConfirmConfig(a)
      PROVE  CopiesMove
  BY <1>7
  DEF ConfirmConfig, PutConf, mine, Done, TypeOK, TypeFiles, CopyName,
      FileName, OnDisk, Actor, CopiesMove, RemoveConf, Remains
<1>8. CASE KillCli
  BY <1>8
  DEF KillCli, Service, mine, Done, DropCopy, Gone, TypeOK, TypeFiles,
      CopyName, FileName, OnDisk, Actor, CopiesMove
<1>9. CASE Start \/ CheckPending \/ CheckpointLive
  BY <1>9
  DEF Start, Step, Rest, CheckPending, There, PutConf, mine, CheckpointLive,
      Refuse, TypeOK, TypeFiles, CopyName, FileName, OnDisk, Actor, CopiesMove,
      RemoveConf, Remains, Held
<1>10. CASE SnapshotLive \/ FlushPending
  BY <1>10
  DEF SnapshotLive, Step, Rest, Refuse, mine, FlushPending, TypeOK, TypeFiles,
      CopyName, FileName, OnDisk, Actor, CopiesMove, Held
<1>11. CASE MoveSidecarsAside
  BY <1>11
  DEF MoveSidecarsAside, There, Rename, Step, Rest, Refuse, mine, TypeOK,
      TypeFiles, CopyName, FileName, OnDisk, Actor, CopiesMove, Held
<1>12. CASE Install
  BY <1>12
  DEF Install, Put, mine, Step, Rest, Installed, TypeOK, TypeFiles, CopyName,
      FileName, OnDisk, Actor, CopiesMove, Held
<1>13. CASE InstallCopy
  BY <1>13
  DEF InstallCopy, Put, mine, Step, Rest, Installed, TypeOK, TypeFiles,
      CopyName, FileName, OnDisk, Actor, CopiesMove, Held
<1>14. CASE RestoreSidecars
  BY <1>14
  DEF RestoreSidecars, Rename, Step, Rest, TypeOK, TypeFiles, CopyName,
      FileName, OnDisk, Actor, CopiesMove, Held
<1>15. CASE RetirePending
  BY <1>15
  DEF RetirePending, Gone, mine, Step, Rest, TypeOK, TypeFiles, CopyName,
      FileName, OnDisk, Actor, CopiesMove, Held
<1>16. CASE DropAside \/ PruneSnapshots
  BY <1>16
  DEF DropAside, Put, Step, Rest, PruneSnapshots, TypeOK, TypeFiles, CopyName,
      FileName, OnDisk, Actor, CopiesMove, Held
<1>17. CASE SavePrevious \/ WriteConfig \/ DiscardConfig \/ SettleConfig
  BY <1>17
  DEF SavePrevious, PutConf, mine, Step, Rest, WriteConfig, DiscardConfig,
      SettleConfig, TypeOK, TypeFiles, CopyName, FileName, OnDisk, Actor,
      CopiesMove, RemoveConf, Remains, Held
<1>18. CASE Reject
  BY <1>18
  DEF Reject, PutConf, mine, Step, Rest, TypeOK, TypeFiles, CopyName, FileName,
      OnDisk, Actor, CopiesMove, RemoveConf, Remains, Held
<1>19. CASE SetAside
  BY <1>19
  DEF SetAside, There, Gone, mine, Step, TypeOK, TypeFiles, CopyName,
      FileName, OnDisk, Actor, CopiesMove
<1>20. CASE OpenDb
  BY <1>20
  DEF OpenDb, There, Put, mine, Step, Rest, TypeOK, TypeFiles, CopyName,
      FileName, OnDisk, Actor, CopiesMove, Held
<1>21. CASE Commit \/ Stop
  BY <1>21
  DEF Commit, Put, mine, Rest, Stop, TypeOK, TypeFiles, CopyName, FileName,
      OnDisk, Actor, CopiesMove, Held
<1>22. CASE Crash
  BY <1>22
  DEF Crash, TypeOK, TypeFiles, CopyName, FileName, OnDisk, Actor, CopiesMove
<1> QED
  BY <1>1, <1>2, <1>3, <1>4, <1>5, <1>6, <1>7, <1>8, <1>9, <1>10, <1>11,
     <1>12, <1>13, <1>14, <1>15, <1>16, <1>17, <1>18, <1>19, <1>20, <1>21,
     <1>22
  DEF Next, Restorer, Starting

LEMMA WholeBackupsNext ==
  ASSUME TypeOK, OnDisk, WholeBackups, Next
  PROVE  WholeBackups'
BY CopiesNext DEF CopiesMove, WholeBackups, Whole

(* What is to be installed stays until it is. *)
LEMMA ToInstallNext ==
  ASSUME TypeOK, FilesInv, Next
  PROVE  ToInstall'
<1>1. CASE Restorer
  BY <1>1, RestorerFrame DEF RestorerLeaves, FilesInv, ToInstall, There
<1>2. CASE Start \/ CheckPending \/ CheckpointLive
  BY <1>2
  DEF Start, Step, Rest, CheckPending, There, PutConf, mine, CheckpointLive,
      Refuse, TypeOK, TypeFiles, FileName, Actor, FilesInv, OnDisk, ToInstall,
      RemoveConf, Remains, Held
<1>3. CASE SnapshotLive \/ FlushPending
  BY <1>3
  DEF SnapshotLive, Step, Rest, Refuse, mine, FlushPending, TypeOK, TypeFiles,
      FileName, Actor, FilesInv, OnDisk, There, ToInstall, Held
<1>4. CASE MoveSidecarsAside
  BY <1>4
  DEF MoveSidecarsAside, There, Rename, Step, Rest, Refuse, mine, TypeOK,
      TypeFiles, FileName, Actor, FilesInv, OnDisk, ToInstall, Held
<1>5. CASE Install \/ InstallCopy
  BY <1>5
  DEF Install, Put, mine, Step, Rest, Installed, InstallCopy, TypeOK,
      TypeFiles, FileName, Actor, FilesInv, OnDisk, There, ToInstall, Held
<1>6. CASE RestoreSidecars
  BY <1>6
  DEF RestoreSidecars, Rename, Step, Rest, TypeOK, TypeFiles, FileName, Actor,
      FilesInv, OnDisk, There, ToInstall, Held
<1>7. CASE RetirePending \/ DropAside \/ PruneSnapshots
  BY <1>7
  DEF RetirePending, Gone, mine, Step, Rest, DropAside, Put, PruneSnapshots,
      TypeOK, TypeFiles, FileName, Actor, FilesInv, OnDisk, There, ToInstall,
      Held
<1>8. CASE SavePrevious \/ WriteConfig \/ DiscardConfig \/ SettleConfig
  BY <1>8
  DEF SavePrevious, PutConf, mine, Step, Rest, WriteConfig, DiscardConfig,
      SettleConfig, TypeOK, TypeFiles, FileName, Actor, FilesInv, OnDisk,
      There, ToInstall, RemoveConf, Remains, Held
<1>9. CASE Reject \/ SetAside \/ OpenDb
  BY <1>9
  DEF Reject, PutConf, mine, Step, Rest, SetAside, There, Gone, OpenDb, Put,
      TypeOK, TypeFiles, FileName, Actor, FilesInv, OnDisk, ToInstall,
      RemoveConf, Remains, Held
<1>10. CASE Commit \/ Stop
  BY <1>10
  DEF Commit, Put, mine, Rest, Stop, TypeOK, TypeFiles, FileName, Actor,
      FilesInv, OnDisk, There, ToInstall, Held
<1>11. CASE Crash
  BY <1>11
  DEF Crash, TypeOK, TypeFiles, FileName, Actor, FilesInv, OnDisk, There,
      ToInstall
<1> QED
  BY <1>1, <1>2, <1>3, <1>4, <1>5, <1>6, <1>7, <1>8, <1>9, <1>10, <1>11
  DEF Next, Starting

(* The live database is always one that was installed, or the first. *)
LEMMA LiveDbNext ==
  ASSUME TypeOK, FilesInv, Next
  PROVE  LiveDb'
<1>1. CASE Restorer
  BY <1>1, RestorerFrame DEF RestorerLeaves, FilesInv, WebInside, LiveDb, There
<1>2. CASE Start \/ CheckPending
  BY <1>2
  DEF Start, Step, Rest, CheckPending, There, PutConf, mine, TypeOK, TypeFiles,
      FileName, Actor, FilesInv, OnDisk, LiveDb, RemoveConf, Remains, Held
<1>3. CASE CheckpointLive
  <2>1. There("db") /\ Data.of = file["db"].of /\ Data.gen = file["db"].gen /\ Data # Nothing
    BY <1>3, DataFacts DEF CheckpointLive, Refuse, Step, TypeOK, FilesInv, LiveDb
  <2>2. file'["db"] \in {file["db"], Data}
    BY <1>3 DEF CheckpointLive, Refuse, Rest, TypeOK, TypeFiles, FileName, Held
  <2> QED
    BY <1>3, <2>1, <2>2
      DEF CheckpointLive, Refuse, Rest, FilesInv, LiveDb, There, Held
<1>4. CASE SnapshotLive \/ FlushPending
  BY <1>4
  DEF SnapshotLive, Step, Rest, Refuse, mine, FlushPending, TypeOK, TypeFiles,
      FileName, Actor, FilesInv, OnDisk, There, LiveDb, Held
<1>5. CASE MoveSidecarsAside
  <2>1. file'["db"] = file["db"]
    BY <1>5 DEF MoveSidecarsAside, Refuse, Rename, TypeOK, TypeFiles, FileName
  <2> QED
    BY <1>5, <2>1
      DEF MoveSidecarsAside, Refuse, Step, Rest, FilesInv, LiveDb, There, Held
<1>6. CASE Install \/ InstallCopy
  <2>1. ASSUME NEW src \in {"pending", "tmp"}, There(src), Installed(src)
        PROVE  LiveDb'
    <3>1. PICK b \in Backup :
            file' = [file EXCEPT !["db"] = [of |-> b, gen |-> installs + 1, at |-> 0],
                                 ![src] = Nothing]
      BY <2>1, InstalledFacts DEF FilesInv
    <3>2. /\ file'["db"] # Nothing
          /\ file'["db"].of = b /\ file'["db"].gen = installs'
      BY <2>1, <3>1, CopyFacts, RestoreAssumption DEF Installed, TypeOK, TypeFiles, FileName, Nothing
    <3> QED
      BY <1>6, <3>2 DEF Install, InstallCopy, Step, LiveDb, There
  <2>2. CASE /\ svc' \in {"copied", "put back"} /\ UNCHANGED <<readable, mine, Rest>>
             /\ \E c \in {file["pending"], Nothing} : Put("tmp", c)
    BY <1>6, <2>2
      DEF Install, InstallCopy, Step, Put, Rest, TypeOK, TypeFiles, FileName,
          FilesInv, LiveDb, There, Held
  <2> QED
    BY <1>6, <2>1, <2>2
      DEF Install, InstallCopy, Step, Rest, mine, ToInstall, FilesInv, Held
<1>7. CASE RestoreSidecars
  BY <1>7
  DEF RestoreSidecars, Rename, Step, Rest, TypeOK, TypeFiles, FileName, Actor,
      FilesInv, OnDisk, There, LiveDb, Held
<1>8. CASE RetirePending \/ DropAside \/ PruneSnapshots
  BY <1>8
  DEF RetirePending, Gone, mine, Step, Rest, DropAside, Put, PruneSnapshots,
      TypeOK, TypeFiles, FileName, Actor, FilesInv, OnDisk, There, LiveDb, Held
<1>9. CASE SavePrevious \/ WriteConfig \/ DiscardConfig \/ SettleConfig
  BY <1>9
  DEF SavePrevious, PutConf, mine, Step, Rest, WriteConfig, DiscardConfig,
      SettleConfig, TypeOK, TypeFiles, FileName, Actor, FilesInv, OnDisk,
      There, LiveDb, RemoveConf, Remains, Held
<1>10. CASE Reject \/ SetAside
  BY <1>10
  DEF Reject, PutConf, mine, Step, Rest, SetAside, There, Gone, TypeOK,
      TypeFiles, FileName, Actor, FilesInv, OnDisk, LiveDb, RemoveConf,
      Remains, Held
<1>11. CASE OpenDb
  <2>1. file'["db"] # Nothing /\ (There("db") => file' = file)
        /\ (~There("db") => file'["db"] = Copy("own"))
    BY <1>11, CopyFacts DEF OpenDb, There, Put, TypeOK, TypeFiles, FileName
  <2> QED
    BY <1>11, <2>1, CopyFacts DEF OpenDb, Rest, FilesInv, LiveDb, There, Held
<1>12. CASE Commit
  BY <1>12
    DEF Commit, Put, Rest, TypeOK, TypeFiles, FileName, FilesInv, LiveDb,
        There, Held
<1>13. CASE Stop
  <2>1. There("db") /\ Data.of = file["db"].of /\ Data.gen = file["db"].gen /\ Data # Nothing
    BY <1>13, DataFacts DEF Stop, TypeOK, FilesInv, LiveDb
  <2>2. file'["db"] \in {file["db"], Data}
    BY <1>13 DEF Stop, TypeOK, TypeFiles, FileName, Actor
  <2> QED
    BY <1>13, <2>1, <2>2 DEF Stop, FilesInv, LiveDb, There
<1>14. CASE Crash
  BY <1>14
  DEF Crash, TypeOK, TypeFiles, FileName, Actor, FilesInv, OnDisk, There,
      LiveDb
<1> QED
  BY <1>1, <1>2, <1>3, <1>4, <1>5, <1>6, <1>7, <1>8, <1>9, <1>10, <1>11,
     <1>12, <1>13, <1>14
  DEF Next, Restorer, Starting

(* Steps that touch neither the live database nor a WAL. *)
LEMMA WalInvKeeps ==
  ASSUME WalInv, \A n \in {"db", "wal", "aside"} : file'[n] = file[n],
         UNCHANGED <<readable, moved>>,
         svc' \in {"snapshot", "flush", "aside"} => svc \in {"snapshot", "flush", "aside"},
         svc' \in {"install", "copied", "put back"} => svc \in {"install", "copied", "put back"}
  PROVE  WalInv'
<1>1. /\ There("wal")' <=> There("wal")
      /\ OfLive("wal")' <=> OfLive("wal")
      /\ There("aside") /\ OfLive("aside") => There("aside")' /\ OfLive("aside")'
  BY DEF There, OfLive
<1>2. (readable' <=> readable) /\ (moved' <=> moved)
  OBVIOUS
<1> QED
  BY <1>1, <1>2 DEF WalInv

(* A WAL is replayed only by the database it was written for. *)
LEMMA WalInvNext ==
  ASSUME TypeOK, FilesInv, Next
  PROVE  WalInv'
<1>1. CASE Restorer
  BY <1>1, RestorerFrame, WalInvKeeps DEF RestorerLeaves, FilesInv
<1>2. CASE Start
  BY <1>2, CopyFacts
  DEF Start, Step, Rest, TypeOK, TypeFiles, FileName, Actor, FilesInv, OnDisk,
      There, OfLive, LiveDb, WalInv, Held
<1>3. CASE CheckPending
  BY <1>3, CopyFacts
  DEF CheckPending, There, PutConf, mine, Step, TypeOK, TypeFiles, FileName,
      Actor, FilesInv, OnDisk, OfLive, LiveDb, WalInv, RemoveConf, Remains
<1>4. CASE CheckpointLive
  <2>1. /\ There("db") /\ Data.of = file["db"].of /\ Data.gen = file["db"].gen
        /\ Data # Nothing
    BY <1>4, DataFacts DEF CheckpointLive, Refuse, Step, TypeOK, FilesInv, LiveDb
  <2>2. CASE svc' = "snapshot" /\ file' = [file EXCEPT !["db"] = Data, !["wal"] = Nothing]
    BY <2>1, <2>2 DEF TypeOK, TypeFiles, FileName, WalInv, There
  <2>3. CASE svc' = "reject" /\ file' = file
    BY <2>3 DEF FilesInv, WalInv, OfLive, There
  <2>4. CASE svc' = "snapshot" /\ ~readable' /\ file' = file
    BY <2>4 DEF FilesInv, WalInv, OfLive, There
  <2> QED
    BY <1>4, <2>2, <2>3, <2>4 DEF CheckpointLive, Refuse, Step, Rest, Held
<1>5. CASE SnapshotLive
  <2>1. /\ svc = "snapshot" /\ svc' \in {"flush", "reject"}
        /\ UNCHANGED <<file, readable, moved>>
    BY <1>5 DEF SnapshotLive, Refuse, Step, Rest, mine, Held
  <2> QED
    BY <2>1 DEF FilesInv, WalInv, OfLive, There
<1>6. CASE FlushPending
  BY <1>6, WalInvKeeps
    DEF FlushPending, Refuse, Step, Rest, mine, FilesInv, WalInv, OfLive,
        There, Held
<1>7. CASE MoveSidecarsAside
  <2>1. CASE There("wal") /\ svc = "aside" /\ Rename("wal", "aside") /\ readable' = readable
    <3>1. /\ file'["db"] = file["db"] /\ file'["wal"] = Nothing
          /\ file'["aside"] = file["wal"]
      BY <2>1 DEF Rename, TypeOK, TypeFiles, FileName
    <3>2. ~readable /\ OfLive("wal")
      BY <2>1 DEF FilesInv, WalInv
    <3> QED
      BY <2>1, <3>1, <3>2 DEF WalInv, OfLive, There
  <2>2. CASE ~There("wal") /\ svc = "aside" /\ ~moved' /\ file' = file
    BY <2>2, <1>7 DEF MoveSidecarsAside, Refuse, Step, WalInv, There
  <2>3. CASE svc' = "reject" /\ file' = file
    BY <2>3 DEF FilesInv, WalInv, OfLive, There
  <2> QED
    BY <1>7, <2>1, <2>2, <2>3 DEF MoveSidecarsAside, Refuse, Step, Rest, Held
<1>8. CASE Install \/ InstallCopy
  <2>1. ASSUME NEW src \in {"pending", "tmp"}, There(src), Installed(src),
               svc' \in {"drop aside", "retire"}
        PROVE  WalInv'
    <3>1. ~There("wal")
      BY <1>8 DEF Install, InstallCopy, Step, FilesInv, WalInv
    <3>2. file'["wal"] = Nothing
      BY <2>1, <3>1 DEF Installed, There, TypeOK, TypeFiles, FileName
    <3> QED
      BY <2>1, <3>2 DEF WalInv, There
  <2>2. CASE /\ svc' \in {"copied", "put back"} /\ UNCHANGED <<readable, mine>>
             /\ \E c \in {file["pending"], Nothing} : Put("tmp", c)
    <3>1. \A n \in {"db", "wal", "aside"} : file'[n] = file[n]
      BY <2>2 DEF Put, TypeOK, TypeFiles, FileName
    <3> QED
      BY <1>8, <2>2, <3>1, WalInvKeeps DEF Install, InstallCopy, Step, FilesInv, mine
  <2> QED
    BY <1>8, <2>1, <2>2
      DEF Install, InstallCopy, Step, Rest, ToInstall, FilesInv, Held
<1>9. CASE RestoreSidecars
  BY <1>9, CopyFacts
  DEF RestoreSidecars, Rename, Step, Rest, TypeOK, TypeFiles, FileName, Actor,
      FilesInv, OnDisk, There, OfLive, LiveDb, WalInv, Held
<1>10. CASE RetirePending \/ DropAside \/ PruneSnapshots
  BY <1>10, CopyFacts
  DEF RetirePending, Gone, mine, Step, Rest, DropAside, Put, PruneSnapshots,
      TypeOK, TypeFiles, FileName, Actor, FilesInv, OnDisk, There, OfLive,
      LiveDb, WalInv, Held
<1>11. CASE SavePrevious \/ WriteConfig \/ DiscardConfig \/ SettleConfig
  BY <1>11, CopyFacts
  DEF SavePrevious, PutConf, mine, Step, Rest, WriteConfig, DiscardConfig,
      SettleConfig, TypeOK, TypeFiles, FileName, Actor, FilesInv, OnDisk,
      There, OfLive, LiveDb, WalInv, RemoveConf, Remains, Held
<1>12. CASE Reject \/ SetAside
  BY <1>12, CopyFacts
  DEF Reject, PutConf, mine, Step, Rest, SetAside, There, Gone, TypeOK,
      TypeFiles, FileName, Actor, FilesInv, OnDisk, OfLive, LiveDb, WalInv,
      RemoveConf, Remains, Held
<1>13. CASE OpenDb
  BY <1>13, CopyFacts
  DEF OpenDb, There, Put, mine, Step, Rest, TypeOK, TypeFiles, FileName, Actor,
      FilesInv, OnDisk, OfLive, LiveDb, WalInv, Held
<1>14. CASE Commit
  <2>1. /\ There("db") /\ Data.of = file["db"].of /\ Data.gen = file["db"].gen
    BY <1>14, DataFacts DEF Commit, TypeOK, FilesInv, LiveDb
  <2>2. Data \in Contents
    BY DataType DEF TypeOK
  <2>3. /\ file'["db"] = file["db"]
        /\ file'["wal"].of = Data.of /\ file'["wal"].gen = Data.gen
    BY <1>14, <2>2 DEF Commit, Put, TypeOK, TypeFiles, FileName, Contents
  <2> QED
    BY <1>14, <2>1, <2>3 DEF Commit, WalInv, OfLive, There
<1>15. CASE Stop
  <2>1. CASE file'["wal"] = Nothing
    BY <1>15, <2>1 DEF Stop, WalInv, There
  <2>2. CASE file'["wal"] = file["wal"] /\ file'["db"] = file["db"]
    BY <1>15, <2>2 DEF Stop, FilesInv, WalInv, OfLive, There
  <2> QED
    BY <1>15, <2>1, <2>2 DEF Stop, TypeOK, TypeFiles, FileName, Actor
<1>16. CASE Crash
  <2>1. /\ file'["db"] = file["db"] /\ file'["wal"] = file["wal"]
        /\ svc' = "off"
    BY <1>16 DEF Crash, TypeOK, TypeFiles, FileName, Actor, FilesInv, OnDisk
  <2> QED
    BY <2>1 DEF FilesInv, WalInv, OfLive, There
<1> QED
  BY <1>1, <1>2, <1>3, <1>4, <1>5, <1>6, <1>7, <1>8, <1>9, <1>10, <1>11,
     <1>12, <1>13, <1>14, <1>15, <1>16
  DEF Next, Restorer, Starting

LEMMA FilesInvNext ==
  ASSUME TypeOK, FilesInv, [Next]_vars
  PROVE  FilesInv'
<1>1. CASE Next
  BY <1>1, WebInsideNext, OnDiskNext, WholeBackupsNext, ToInstallNext, LiveDbNext,
     WalInvNext
  DEF FilesInv
<1>2. CASE UNCHANGED vars
  BY <1>2
  DEF vars, FilesInv, WebInside, OnDisk, WholeBackups, ToInstall, LiveDb, WalInv,
      OfLive, There
<1> QED
  BY <1>1, <1>2

LEMMA InitFiles == Init => FilesInv
<1> SUFFICES ASSUME Init PROVE FilesInv
  OBVIOUS
<1>1. \A n \in FileName : n # "db" => file[n] = Nothing
  BY DEF Init
<1>2. file["db"] \in {Copy("own"), Nothing} /\ svc = "off" /\ volatile = {}
  BY DEF Init, FileName
<1>3. WholeBackups
  BY <1>1 DEF WholeBackups, CopyName, Whole, FileName, Actor
<1>4. op["web"].at = "idle" /\ installs = 0
  BY DEF Init, Actor, Idle
<1> QED
  BY <1>1, <1>2, <1>3, <1>4, CopyFacts
  DEF FilesInv, WebInside, OnDisk, ToInstall, LiveDb, WalInv, There, FileName

(* The invariant of the files, from which the data is followed below. *)
LEMMA FilesHold == Spec => [](TypeOK /\ FilesInv)
<1>1. Init => TypeOK /\ FilesInv
  BY InitTypes, InitFiles
<1>2. TypeOK /\ FilesInv /\ [Next]_vars => (TypeOK /\ FilesInv)'
  BY TypesNext, FilesInvNext
<1> QED
  BY <1>1, <1>2, PTL DEF Spec

(* No WAL ever lies beside a database it was not written for: what a start
   moves aside, puts back or leaves after a crash is the live database's. *)
THEOREM NoForeignWal == Spec => []WalBelongs
<1>1. FilesInv => WalBelongs
  BY DEF FilesInv, WalInv, OfLive, WalBelongs
<1> QED
  BY <1>1, FilesHold, PTL

-----------------------------------------------------------------------------
(* The files implement AbstractRestore. *)

LEMMA LiveFacts ==
  ASSUME TypeOK, FilesInv
  PROVE  /\ LiveData.gen = installs
         /\ readable => LiveData = Data /\ Data \in Contents /\ Data.of # "damaged"
         /\ ~readable => LiveData = [of |-> "damaged", gen |-> installs, at |-> 0]
<1>1. file["db"].gen = installs /\ Data.gen = installs
  BY DataFacts, CopyFacts DEF TypeOK, FilesInv, LiveDb, There
<1>2. Data \in Contents
  BY DataType DEF TypeOK
<1>3. Data.of # "damaged"
  BY <1>2, RestoreAssumption DEF Contents
<1> QED
  BY <1>1, <1>2, <1>3 DEF LiveData

LEMMA InitPromise == Init => Promise!Init
<1> SUFFICES ASSUME Init PROVE Promise!Init
  OBVIOUS
<1>1. \A n \in FileName : n # "db" => file[n] = Nothing
  BY DEF Init
<1>2. file["db"] \in {Copy("own"), Nothing} /\ readable
  BY DEF Init, FileName
<1>3. Data = Copy("own")
  BY <1>1, <1>2 DEF Data, There, Opened, FileName
<1>4. Confirmed = {}
  BY <1>1, CopyFacts DEF Confirmed, FileName
<1> QED
  BY <1>2, <1>3, <1>4 DEF Promise!Init, LiveData, Copy

(* The database and the WAL beside it are not touched. *)
DataStays == \A n \in {"db", "wal"} : file'[n] = file[n]

LEMMA LiveDataStays ==
  ASSUME DataStays, UNCHANGED readable
  PROVE  LiveData' = LiveData
BY DEF DataStays, LiveData, Data, There

(* The data stays, and no backup but the confirmed ones is to be installed. *)
LEMMA KeepsPromise ==
  ASSUME LiveData' = LiveData, Confirmed' \subseteq Confirmed
  PROVE  Promise!Next
BY DEF Promise!Next, Promise!Discard

LEMMA RestorerPromise ==
  ASSUME TypeOK, FilesInv, Restorer
  PROVE  Promise!Next
<1>1. LiveData' = LiveData /\ file'["tmp"] = file["tmp"]
  BY RestorerFrame, LiveDataStays DEF RestorerLeaves, DataStays
<1>2. Whole(file'["pending"])
  BY WholeBackupsNext DEF Next, FilesInv, WholeBackups, CopyName
<1>3. CASE file'["pending"] = Nothing
  BY <1>1, <1>3, KeepsPromise, CopyFacts DEF Confirmed
<1>4. ASSUME NEW b \in Backup, file'["pending"] = Copy(b)
      PROVE  Promise!Next
  <2>1. b \in Confirmed' /\ Confirmed' \subseteq Confirmed \cup {b}
    BY <1>1, <1>4, CopyFacts, RestoreAssumption DEF Confirmed
  <2> QED
    BY <1>1, <2>1 DEF Promise!Next, Promise!Choose
<1> QED
  BY <1>2, <1>3, <1>4 DEF Whole

(* A start installs what is confirmed, or takes it away. *)
LEMMA StartingConfirmed ==
  ASSUME TypeOK, FilesInv, Starting
  PROVE  Confirmed' \subseteq Confirmed
<1>1. file'["pending"] \in {file["pending"], Nothing}
  BY StartingFrame DEF StartingLeaves, FilesInv
<1>2. file'["tmp"] \in {file["tmp"], file["pending"], Nothing}
  BY
    DEF Start, Step, Rest, CheckPending, There, PutConf, mine, CheckpointLive,
        Refuse, SnapshotLive, FlushPending, MoveSidecarsAside, Rename, Install,
        Put, Installed, InstallCopy, RestoreSidecars, RetirePending, Gone,
        DropAside, PruneSnapshots, SavePrevious, WriteConfig, DiscardConfig,
        SettleConfig, Reject, SetAside, OpenDb, Starting, TypeOK, TypeFiles,
        FileName, RemoveConf, Remains, Held
<1> QED
  BY <1>1, <1>2, CopyFacts DEF Confirmed

(* The steps of a start, on the data. *)
LEMMA StartingPromise ==
  ASSUME TypeOK, FilesInv, Starting
  PROVE  Promise!Next
<1>c. Confirmed' \subseteq Confirmed
  BY StartingConfirmed
<1>l. /\ LiveData.gen = installs
      /\ readable => LiveData = Data /\ Data \in Contents /\ Data.of # "damaged"
      /\ ~readable => LiveData = [of |-> "damaged", gen |-> installs, at |-> 0]
  BY LiveFacts
<1>g. file["db"].gen = installs
  BY CopyFacts DEF FilesInv, LiveDb, There
<1>1. CASE \/ Start \/ CheckPending \/ SnapshotLive \/ FlushPending
        \/ RetirePending \/ DropAside \/ PruneSnapshots
        \/ SavePrevious \/ WriteConfig \/ DiscardConfig \/ SettleConfig
        \/ Reject \/ SetAside
  <2>1. DataStays /\ UNCHANGED readable
    BY <1>1
    DEF Start, Step, Rest, CheckPending, There, PutConf, mine, SnapshotLive,
        Refuse, FlushPending, RetirePending, Gone, DropAside, Put,
        PruneSnapshots, SavePrevious, WriteConfig, DiscardConfig, SettleConfig,
        Reject, SetAside, TypeOK, TypeFiles, FileName, DataStays, RemoveConf,
        Remains, Held
  <2> QED
    BY <1>c, <2>1, LiveDataStays, KeepsPromise
<1>2. CASE CheckpointLive
  <2>1. There("db")
    BY <1>2 DEF CheckpointLive, Refuse, Step, FilesInv, LiveDb
  <2>2. CASE file' = [file EXCEPT !["db"] = Data, !["wal"] = Nothing] /\ UNCHANGED readable
    <3>1. Data' = Data /\ file'["db"].gen = file["db"].gen
      BY <2>1, <2>2, DataFacts
      DEF TypeOK, TypeFiles, FileName, FilesInv, Data, There, Opened
    <3> QED
      BY <1>c, <2>2, <3>1, KeepsPromise DEF LiveData
  <2>3. CASE UNCHANGED <<file, readable>>
    BY <1>c, <2>3, LiveDataStays, KeepsPromise DEF DataStays
  <2>4. CASE UNCHANGED file /\ readable' = FALSE /\ UNCHANGED conf
    <3>1. LiveData' = [of |-> "damaged", gen |-> LiveData.gen, at |-> 0]
      BY <2>4, <1>l, <1>g DEF LiveData
    <3>2. Confirmed' = Confirmed
      BY <2>4 DEF Confirmed
    <3>3. LiveData' = Promise!Damaged(LiveData)
      BY <3>1 DEF Promise!Damaged
    <3> QED
      BY <3>2, <3>3 DEF Promise!Next, Promise!Damage
  <2> QED
    BY <1>2, <2>2, <2>3, <2>4 DEF CheckpointLive, Refuse, Rest, Held
<1>3. CASE MoveSidecarsAside
  <2>1. file'["db"] = file["db"] /\ UNCHANGED readable
    BY <1>3 DEF MoveSidecarsAside, Refuse, Rename, TypeOK, TypeFiles, FileName
  <2>2. CASE readable
    <3>1. ~There("wal")
      BY <1>3, <2>2 DEF MoveSidecarsAside, Refuse, Step, FilesInv, WalInv
    <3>2. file' = file
      BY <1>3, <3>1 DEF MoveSidecarsAside, Refuse
    <3> QED
      BY <1>c, <2>1, <3>2, LiveDataStays, KeepsPromise DEF DataStays
  <2>3. CASE ~readable
    BY <1>c, <2>1, <2>3, KeepsPromise DEF LiveData
  <2> QED
    BY <2>2, <2>3
<1>4. CASE Install \/ InstallCopy
  <2>1. ASSUME NEW src \in {"pending", "tmp"}, There(src), Installed(src), ~There("wal")
        PROVE  Promise!Next
    <3>1. PICK b \in Backup :
            /\ file[src] = Copy(b)
            /\ file' = [file EXCEPT !["db"] = [of |-> b, gen |-> installs + 1, at |-> 0],
                                    ![src] = Nothing]
      BY <2>1, InstalledFacts DEF FilesInv
    <3>2. /\ file'["db"] = [of |-> b, gen |-> installs + 1, at |-> 0]
          /\ file'["wal"] = Nothing
      BY <2>1, <3>1 DEF There, TypeOK, TypeFiles, FileName
    <3>3. file'["db"] # Nothing
      BY <3>2, RestoreAssumption DEF Nothing
    <3>4. LiveData' = [of |-> b, gen |-> LiveData.gen + 1, at |-> 0]
      BY <2>1, <3>2, <3>3, <1>l DEF Installed, LiveData, Data, There, Opened
    <3>5. b \in Confirmed
      BY <3>1, CopyFacts, RestoreAssumption DEF Confirmed
    <3> QED
      BY <1>c, <3>4, <3>5 DEF Promise!Next, Promise!Apply
  <2>2. CASE UNCHANGED readable /\ \E c \in {file["pending"], Nothing} : Put("tmp", c)
    BY <1>c, <2>2, LiveDataStays, KeepsPromise DEF DataStays, Put, TypeOK, TypeFiles, FileName
  <2>3. ~There("wal")
    BY <1>4 DEF Install, InstallCopy, Step, FilesInv, WalInv
  <2> QED
    BY <1>4, <2>1, <2>2, <2>3 DEF Install, InstallCopy, Step, FilesInv, ToInstall
<1>5. CASE RestoreSidecars
  <2>1. file'["db"] = file["db"] /\ UNCHANGED readable
    BY <1>5 DEF RestoreSidecars, Step, Rename, TypeOK, TypeFiles, FileName
  <2>2. CASE moved
    <3>1. ~readable
      BY <1>5, <2>2 DEF RestoreSidecars, Step, FilesInv, WalInv
    <3> QED
      BY <1>c, <2>1, <3>1, KeepsPromise DEF LiveData
  <2>3. CASE ~moved
    BY <1>5, <1>c, <2>1, <2>3, LiveDataStays, KeepsPromise DEF RestoreSidecars, DataStays
  <2> QED
    BY <2>2, <2>3
<1>6. CASE OpenDb
  <2>1. CASE There("db")
    BY <1>6, <1>c, <2>1, LiveDataStays, KeepsPromise DEF OpenDb, DataStays
  <2>2. CASE ~There("db")
    <3>1. file'["db"] = Copy("own") /\ file'["wal"] = Nothing /\ file["db"] = Nothing
      BY <1>6, <2>2, DataFacts DEF OpenDb, Put, There, TypeOK, TypeFiles, FileName, FilesInv
    <3>2. Data' = Data /\ file'["db"].gen = file["db"].gen
      BY <2>2, <3>1, CopyFacts DEF Data, There, Opened
    <3> QED
      BY <1>6, <1>c, <3>2, KeepsPromise DEF OpenDb, LiveData
  <2> QED
    BY <2>1, <2>2
<1> QED
  BY <1>1, <1>2, <1>3, <1>4, <1>5, <1>6 DEF Starting

LEMMA ServicePromise ==
  ASSUME TypeOK, FilesInv, Commit \/ Stop \/ Crash
  PROVE  Promise!Next
<1>l. /\ LiveData.gen = installs
      /\ readable => LiveData = Data /\ Data \in Contents /\ Data.of # "damaged"
      /\ ~readable => LiveData = [of |-> "damaged", gen |-> installs, at |-> 0]
  BY LiveFacts
<1>d. Data \in Contents
  BY DataType DEF TypeOK
<1>1. CASE Commit
  <2>0. There("db") /\ Data.of = file["db"].of /\ Data.gen = file["db"].gen /\ Data # Nothing
    BY <1>1, DataFacts DEF Commit, TypeOK, FilesInv, LiveDb
  <2>1. /\ file' = [file EXCEPT !["wal"] = [Data EXCEPT !.at = @ + 1]]
        /\ UNCHANGED readable
    BY <1>1 DEF Commit, Put
  <2>2. /\ \A n \in {"db", "pending", "tmp"} : file'[n] = file[n]
        /\ file'["wal"] = [Data EXCEPT !.at = @ + 1]
    BY <2>1 DEF TypeOK, TypeFiles, FileName
  <2>3. Confirmed' = Confirmed
    BY <2>2 DEF Confirmed
  <2>4. CASE ~readable
    BY <2>1, <2>2, <2>3, <2>4, KeepsPromise DEF LiveData
  <2>5. CASE readable
    <3>1. /\ file'["wal"].of = Data.of /\ file'["wal"].gen = Data.gen
          /\ file'["wal"] # Nothing
      BY <2>2, <1>d, <2>0, CopyFacts DEF Contents
    <3>2. Data' = file'["wal"]
      BY <2>0, <2>2, <3>1 DEF Data, There, Opened
    <3>3. LiveData' = [LiveData EXCEPT !.at = @ + 1]
      BY <1>l, <2>1, <2>2, <2>5, <3>2 DEF LiveData
    <3> QED
      BY <1>l, <2>3, <2>5, <3>3 DEF Promise!Next, Promise!Commit
  <2> QED
    BY <2>4, <2>5
<1>2. CASE Stop
  <2>1. There("db") /\ Data.gen = file["db"].gen /\ Data # Nothing
    BY <1>2, DataFacts DEF Stop, TypeOK, FilesInv, LiveDb
  <2>2. /\ \/ DataStays
           \/ file'["db"] = Data /\ file'["wal"] = Nothing
        /\ \A n \in {"pending", "tmp"} : file'[n] = file[n]
        /\ UNCHANGED readable
    BY <1>2 DEF Stop, DataStays, TypeOK, TypeFiles, FileName, Actor
  <2>3. LiveData' = LiveData
    BY <2>1, <2>2, LiveDataStays DEF LiveData, Data, There, Opened
  <2> QED
    BY <2>2, <2>3, KeepsPromise DEF Confirmed
<1>3. CASE Crash
  <2>1. /\ \A n \in {"db", "wal", "pending", "tmp"} : file'[n] = file[n]
        /\ UNCHANGED readable
    BY <1>3 DEF Crash, TypeOK, TypeFiles, FileName, Actor, FilesInv, OnDisk
  <2> QED
    BY <2>1, LiveDataStays, KeepsPromise DEF DataStays, Confirmed
<1> QED
  BY <1>1, <1>2, <1>3

(* The data the next start opens changes as AbstractRestore promises, whatever
   is staged, confirmed, interrupted and lost: by the service's own commits,
   or as a whole to the confirmed backup. *)
THEOREM FilesKeepPromise == Spec => RestorePromise
<1>1. TypeOK /\ FilesInv /\ [Next]_vars => [Promise!Next]_<<LiveData, Confirmed>>
  <2> SUFFICES ASSUME TypeOK, FilesInv, [Next]_vars
               PROVE  Promise!Next \/ UNCHANGED <<LiveData, Confirmed>>
    OBVIOUS
  <2>1. CASE Next
    BY <2>1, RestorerPromise, StartingPromise, ServicePromise DEF Next
  <2>2. CASE UNCHANGED vars
    BY <2>2 DEF vars, LiveData, Data, There, Confirmed
  <2> QED
    BY <2>1, <2>2
<1> QED
  BY <1>1, InitPromise, FilesHold, PTL DEF Spec, RestorePromise, Promise!Spec

-----------------------------------------------------------------------------
(* The configs. *)

(* While the merged config may still be taken back, the saved one is this
   machine's too. *)
MachineInv ==
  /\ MachineStays
  /\ svc \in {"write", "written", "settle"} => conf["previous"].machine = "here"

(* The running config is written by a merge or put back from the saved one. *)
LEMMA MachineNext ==
  ASSUME TypeOK, MachineInv, Next
  PROVE  MachineInv'
<1>1. CASE Restorer
  BY <1>1, RestorerFrame DEF RestorerLeaves, MachineInv, MachineStays
<1>2. CASE Start \/ CheckPending \/ CheckpointLive \/ SnapshotLive \/
           FlushPending
  BY <1>2
  DEF Start, Step, Rest, CheckPending, There, PutConf, mine, CheckpointLive,
      Refuse, SnapshotLive, FlushPending, TypeOK, TypeConf, ConfName, Config,
      Merge, MachineInv, MachineStays, RemoveConf, Remains, Held
<1>3. CASE MoveSidecarsAside \/ Install \/ InstallCopy \/ RestoreSidecars
  BY <1>3
  DEF MoveSidecarsAside, There, Rename, Step, Rest, Refuse, mine, Install, Put,
      Installed, InstallCopy, RestoreSidecars, TypeOK, TypeConf, ConfName,
      Config, Merge, MachineInv, MachineStays, Held
<1>4. CASE RetirePending \/ DropAside \/ PruneSnapshots
  BY <1>4
  DEF RetirePending, Gone, mine, Step, Rest, DropAside, Put, PruneSnapshots,
      TypeOK, TypeConf, ConfName, Config, Merge, MachineInv, MachineStays, Held
<1>5. CASE SavePrevious \/ DiscardConfig
  BY <1>5
  DEF SavePrevious, PutConf, mine, Step, Rest, DiscardConfig, TypeOK, TypeConf,
      ConfName, Config, Merge, MachineInv, MachineStays, RemoveConf, Remains,
      Held
<1>6. CASE WriteConfig
  BY <1>6
  DEF WriteConfig, PutConf, mine, Step, Rest, TypeOK, TypeConf, ConfName,
      Config, Merge, MachineInv, MachineStays, Held
<1>7. CASE SettleConfig
  BY <1>7
  DEF SettleConfig, PutConf, mine, Step, Rest, TypeOK, TypeConf, ConfName,
      Config, Merge, MachineInv, MachineStays, Held
<1>8. CASE Reject \/ SetAside \/ OpenDb
  BY <1>8
  DEF Reject, PutConf, mine, Step, Rest, SetAside, There, Gone, OpenDb, Put,
      TypeOK, TypeConf, ConfName, Config, Merge, MachineInv, MachineStays,
      RemoveConf, Remains, Held
<1>9. CASE Commit \/ Stop \/ Crash
  BY <1>9
  DEF Commit, Put, mine, Rest, Stop, Crash, TypeOK, TypeConf, ConfName, Config,
      Merge, MachineInv, MachineStays, Held
<1> QED
  BY <1>1, <1>2, <1>3, <1>4, <1>5, <1>6, <1>7, <1>8, <1>9 DEF Next, Starting

(* The settings that say where this machine keeps its data and what it runs
   stay its own, through any number of restores, failures and reverts. *)
THEOREM MachineKeepsItsOwn == Spec => []MachineStays
<1>1. Init => MachineInv
  BY DEF Init, MachineInv, MachineStays, ConfName
<1>2. TypeOK /\ MachineInv /\ [Next]_vars => MachineInv'
  BY MachineNext DEF vars, MachineInv, MachineStays
<1>3. MachineInv => MachineStays
  BY DEF MachineInv
<1> QED
  BY <1>1, <1>2, <1>3, FilesHold, PTL DEF Spec

(* A staged config belongs to the staged database; it is dropped before the
   database changes and set again only for that; and while a database is being
   confirmed no config is.  A config that could not be removed is out of it. *)
Out(n) == conf[n] = NoConf \/ conf[n].general \in stuck
Alone == \A a, b \in Actor : op[a].at # "idle" /\ op[b].at # "idle" => a = b
Fits(a) ==
  /\ op[a].at \in {"clear", "flush", "publish"} => file[a].of = op[a].of
  /\ op[a].at \in {"flush", "publish", "config"} => Out("staged")
  /\ op[a].at = "config" /\ There("staged") => file["staged"].of = op[a].of
  /\ op[a].at \in {"flush staged", "confirm", "confirm config"} =>
       Out("pending")
  /\ op[a].at = "confirm config" /\ There("pending") /\ ~Out("staged") =>
       conf["staged"].general = file["pending"].of
StagedPairs == There("staged") /\ ~Out("staged") =>
                 conf["staged"].general = file["staged"].of
PairInv == Alone /\ (\A a \in Actor : Fits(a)) /\ StagedPairs /\ ConfigPairs

(* A command at work is the only one. *)
LEMMA PairStep ==
  ASSUME TypeOps, PairInv, NEW a \in Actor,
         op[a].at # "idle" \/ \A o \in Actor : op[o].at = "idle",
         \A o \in Actor : o # a => op'[o] = op[o],
         Fits(a)', StagedPairs', ConfigPairs'
  PROVE  PairInv'
<1>1. ASSUME NEW o \in Actor, o # a
      PROVE  op'[o].at = "idle"
  BY <1>1 DEF PairInv, Alone
<1>2. ASSUME NEW o \in Actor
      PROVE  Fits(o)'
  <2>1. CASE o = a
    BY <2>1
  <2>2. CASE o # a
    BY <1>1, <2>2 DEF Fits
  <2> QED
    BY <2>1, <2>2
<1>3. Alone'
  BY <1>1 DEF Alone
<1> QED
  BY <1>2, <1>3 DEF PairInv

(* One command at a time keeps databases and configs together. *)
LEMMA PairNext ==
  ASSUME ~Overlap, TypeOK, OnDisk, PairInv, Next
  PROVE  PairInv'
<1>0. stuck \subseteq stuck'
  BY StuckGrows
<1>1. ASSUME NEW a \in Actor, NEW b \in Backup, StageRestore(a, b)
      PROVE  PairInv'
  <2>0. Fits(a) /\ StagedPairs /\ ConfigPairs
    BY DEF PairInv
  <2>1. /\ op[a].at # "idle" \/ \A o \in Actor : op[o].at = "idle"
        /\ \A o \in Actor : o # a => op'[o] = op[o]
    BY <1>1 DEF StageRestore, MayBegin, Idle, TypeOK, TypeOps, OpRecord
  <2>2. CASE TRUE
    <3>1. op'[a].at = "clear" /\ op'[a].of = b
      BY <1>1, <2>2 DEF StageRestore, MayBegin, Idle, TypeOK, TypeOps, OpRecord
    <3>2. /\ file'[a] = Copy(b)
          /\ \A n \in {"staged", "pending"} : file'[n] = file[n]
          /\ conf' = conf
      BY <1>1, <2>2
      DEF StageRestore, Put, MayBegin, TypeOK, TypeFiles, FileName, Actor,
          TypeConf, ConfName
    <3>3. Fits(a)' /\ StagedPairs' /\ ConfigPairs'
      BY <1>0, <2>0, <3>1, <3>2, CopyFacts DEF Fits, StagedPairs, ConfigPairs, Out, There
    <3> QED
      BY <2>1, <3>3, PairStep DEF TypeOK
  <2> QED
    BY <1>1, <2>2 DEF StageRestore
<1>2. ASSUME NEW a \in Actor,
             NEW w \in {"config", "nothing"}, ConfirmRestore(a, w)
      PROVE  PairInv'
  <2>0. Fits(a) /\ StagedPairs /\ ConfigPairs
    BY DEF PairInv
  <2>1. /\ op[a].at # "idle" \/ \A o \in Actor : op[o].at = "idle"
        /\ \A o \in Actor : o # a => op'[o] = op[o]
    BY <1>2 DEF ConfirmRestore, MayBegin, Idle, TypeOK, TypeOps, OpRecord
  <2>2. CASE UNCHANGED file
           /\ op' = [op EXCEPT ![a] = [at |-> "unconfirm", of |-> "nothing", with |-> w]]
    <3>1. op'[a].at = "unconfirm"
      BY <1>2, <2>2 DEF ConfirmRestore, MayBegin, Idle, TypeOK, TypeOps, OpRecord
    <3>2. /\ file' = file
          /\ conf' = conf
      BY <1>2, <2>2
      DEF ConfirmRestore, There, Gone, MayBegin, TypeOK, TypeFiles, FileName,
          Actor, TypeConf, ConfName
    <3>3. Fits(a)' /\ StagedPairs' /\ ConfigPairs'
      BY <1>0, <2>0, <3>1, <3>2, CopyFacts DEF Fits, StagedPairs, ConfigPairs, Out, There
    <3> QED
      BY <2>1, <3>3, PairStep DEF TypeOK
  <2>3. CASE op' = op /\ Gone("staged")
    <3>1. op'[a].at = op[a].at /\ op[a].at = "idle"
      BY <1>2, <2>3 DEF ConfirmRestore, MayBegin, Idle, TypeOK, TypeOps, OpRecord
    <3>2. /\ file'["staged"] = Nothing
          /\ file'["pending"] = file["pending"]
          /\ conf' = conf
      BY <1>2, <2>3
      DEF ConfirmRestore, There, Gone, MayBegin, TypeOK, TypeFiles, FileName,
          Actor, TypeConf, ConfName
    <3>3. Fits(a)' /\ StagedPairs' /\ ConfigPairs'
      BY <1>0, <2>0, <3>1, <3>2, CopyFacts DEF Fits, StagedPairs, ConfigPairs, Out, There
    <3> QED
      BY <2>1, <3>3, PairStep DEF TypeOK
  <2> QED
    BY <1>2, <2>2, <2>3 DEF ConfirmRestore
<1>3. ASSUME NEW a \in Actor, ClearStagedConfig(a)
      PROVE  PairInv'
  <2>0. Fits(a) /\ StagedPairs /\ ConfigPairs
    BY DEF PairInv
  <2>1. /\ op[a].at # "idle" \/ \A o \in Actor : op[o].at = "idle"
        /\ \A o \in Actor : o # a => op'[o] = op[o]
    BY <1>3
      DEF ClearStagedConfig, Goto, Idle, TypeOK, TypeOps, OpRecord, RemoveConf,
          Remains, PutConf
  <2>2. CASE TRUE
    <3>1. op'[a].at = "flush" /\ op'[a].of = op[a].of /\ op[a].at = "clear"
      BY <1>3, <2>2
        DEF ClearStagedConfig, Goto, Idle, TypeOK, TypeOps, OpRecord,
            RemoveConf, Remains, Out, PutConf
    <3>2. /\ file' = file
          /\ Out("staged")'
          /\ conf'["pending"] = conf["pending"]
      BY <1>3, <2>2
      DEF ClearStagedConfig, PutConf, TypeOK, TypeFiles, FileName, Actor,
          TypeConf, ConfName, RemoveConf, Remains, Out
    <3>3. Fits(a)' /\ StagedPairs' /\ ConfigPairs'
      BY <1>0, <2>0, <3>1, <3>2, CopyFacts DEF Fits, StagedPairs, ConfigPairs, Out, There
    <3> QED
      BY <2>1, <3>3, PairStep DEF TypeOK
  <2> QED
    BY <1>3, <2>2 DEF ClearStagedConfig, RemoveConf, Remains, Out, PutConf
<1>4. ASSUME NEW a \in Actor, FlushUpload(a)
      PROVE  PairInv'
  <2>0. Fits(a) /\ StagedPairs /\ ConfigPairs
    BY DEF PairInv
  <2>1. /\ op[a].at # "idle" \/ \A o \in Actor : op[o].at = "idle"
        /\ \A o \in Actor : o # a => op'[o] = op[o]
    BY <1>4 DEF FlushUpload, Goto, Done, Idle, TypeOK, TypeOps, OpRecord
  <2>2. CASE Goto(a, "publish") /\ UNCHANGED file
    <3>1. op'[a].at = "publish" /\ op'[a].of = op[a].of /\ op[a].at = "flush"
      BY <1>4, <2>2 DEF FlushUpload, Goto, Done, Idle, TypeOK, TypeOps, OpRecord
    <3>2. /\ file' = file
          /\ conf' = conf
      BY <1>4, <2>2
      DEF FlushUpload, DropCopy, Gone, TypeOK, TypeFiles, FileName, Actor,
          TypeConf, ConfName
    <3>3. Fits(a)' /\ StagedPairs' /\ ConfigPairs'
      BY <1>0, <2>0, <3>1, <3>2, CopyFacts DEF Fits, StagedPairs, ConfigPairs, Out, There
    <3> QED
      BY <2>1, <3>3, PairStep DEF TypeOK
  <2>3. CASE Done(a) /\ DropCopy(a)
    <3>1. op'[a].at = "idle"
      BY <1>4, <2>3 DEF FlushUpload, Goto, Done, Idle, TypeOK, TypeOps, OpRecord
    <3>2. /\ \A n \in {"staged", "pending"} : file'[n] = file[n]
          /\ conf' = conf
      BY <1>4, <2>3
      DEF FlushUpload, DropCopy, Gone, TypeOK, TypeFiles, FileName, Actor,
          TypeConf, ConfName
    <3>3. Fits(a)' /\ StagedPairs' /\ ConfigPairs'
      BY <1>0, <2>0, <3>1, <3>2, CopyFacts DEF Fits, StagedPairs, ConfigPairs, Out, There
    <3> QED
      BY <2>1, <3>3, PairStep DEF TypeOK
  <2> QED
    BY <1>4, <2>2, <2>3 DEF FlushUpload
<1>5. ASSUME NEW a \in Actor, PublishStaged(a)
      PROVE  PairInv'
  <2>0. Fits(a) /\ StagedPairs /\ ConfigPairs
    BY DEF PairInv
  <2>1. /\ op[a].at # "idle" \/ \A o \in Actor : op[o].at = "idle"
        /\ \A o \in Actor : o # a => op'[o] = op[o]
    BY <1>5 DEF PublishStaged, Goto, Done, Idle, TypeOK, TypeOps, OpRecord
  <2>2. CASE Rename(a, "staged") /\ Goto(a, "config")
    <3>1. op'[a].at = "config" /\ op'[a].of = op[a].of /\ op[a].at = "publish"
      BY <1>5, <2>2
      DEF PublishStaged, Goto, Done, Idle, TypeOK, TypeOps, OpRecord
    <3>2. /\ file'["staged"] = file[a]
          /\ file'["pending"] = file["pending"]
          /\ conf' = conf
      BY <1>5, <2>2
      DEF PublishStaged, Rename, DropCopy, Gone, TypeOK, TypeFiles, FileName,
          Actor, TypeConf, ConfName
    <3>3. Fits(a)' /\ StagedPairs' /\ ConfigPairs'
      BY <1>0, <2>0, <3>1, <3>2, CopyFacts DEF Fits, StagedPairs, ConfigPairs, Out, There
    <3> QED
      BY <2>1, <3>3, PairStep DEF TypeOK
  <2>3. CASE Done(a) /\ DropCopy(a)
    <3>1. op'[a].at = "idle"
      BY <1>5, <2>3
      DEF PublishStaged, Goto, Done, Idle, TypeOK, TypeOps, OpRecord
    <3>2. /\ \A n \in {"staged", "pending"} : file'[n] = file[n]
          /\ conf' = conf
      BY <1>5, <2>3
      DEF PublishStaged, Rename, DropCopy, Gone, TypeOK, TypeFiles, FileName,
          Actor, TypeConf, ConfName
    <3>3. Fits(a)' /\ StagedPairs' /\ ConfigPairs'
      BY <1>0, <2>0, <3>1, <3>2, CopyFacts DEF Fits, StagedPairs, ConfigPairs, Out, There
    <3> QED
      BY <2>1, <3>3, PairStep DEF TypeOK
  <2> QED
    BY <1>5, <2>2, <2>3 DEF PublishStaged
<1>6. ASSUME NEW a \in Actor, StageConfig(a)
      PROVE  PairInv'
  <2>0. Fits(a) /\ StagedPairs /\ ConfigPairs
    BY DEF PairInv
  <2>1. /\ op[a].at # "idle" \/ \A o \in Actor : op[o].at = "idle"
        /\ \A o \in Actor : o # a => op'[o] = op[o]
    BY <1>6
      DEF StageConfig, Done, Idle, TypeOK, TypeOps, OpRecord, RemoveConf,
          Remains, PutConf
  <2>2. CASE op[a].of \in HasConfig /\ UNCHANGED file /\ conf' # conf
    <3>1. op'[a].at = "idle" /\ op[a].at = "config"
      BY <1>6, <2>2
        DEF StageConfig, Done, Idle, TypeOK, TypeOps, OpRecord, RemoveConf,
            Remains, PutConf
    <3>2. /\ file' = file
          /\ conf'["staged"].general = op[a].of
          /\ conf'["pending"] = conf["pending"]
      BY <1>6, <2>2
      DEF StageConfig, Gone, PutConf, Done, TypeOK, TypeFiles, FileName, Actor,
          TypeConf, ConfName, RemoveConf, Remains, Out
    <3>3. Fits(a)' /\ StagedPairs' /\ ConfigPairs'
      BY <1>0, <2>0, <3>1, <3>2, CopyFacts DEF Fits, StagedPairs, ConfigPairs, Out, There
    <3> QED
      BY <2>1, <3>3, PairStep DEF TypeOK
  <2>3. CASE op[a].of \notin HasConfig /\ UNCHANGED file
    <3>1. op'[a].at = "idle"
      BY <1>6, <2>3
        DEF StageConfig, Done, Idle, TypeOK, TypeOps, OpRecord, RemoveConf,
            Remains, PutConf
    <3>2. /\ file' = file
          /\ Out("staged")'
          /\ conf'["pending"] = conf["pending"]
      BY <1>6, <2>3
      DEF StageConfig, Gone, PutConf, Done, TypeOK, TypeFiles, FileName, Actor,
          TypeConf, ConfName, RemoveConf, Remains, Out
    <3>3. Fits(a)' /\ StagedPairs' /\ ConfigPairs'
      BY <1>0, <2>0, <3>1, <3>2, CopyFacts DEF Fits, StagedPairs, ConfigPairs, Out, There
    <3> QED
      BY <2>1, <3>3, PairStep DEF TypeOK
  <2>4. CASE conf' = conf
    <3>1. op'[a].at = "idle"
      BY <1>6, <2>4
        DEF StageConfig, Done, Idle, TypeOK, TypeOps, OpRecord, RemoveConf,
            Remains, PutConf
    <3>2. /\ file'["staged"] \in {file["staged"], Nothing}
          /\ file'["pending"] = file["pending"]
          /\ conf' = conf
      BY <1>6, <2>4
      DEF StageConfig, Gone, PutConf, Done, TypeOK, TypeFiles, FileName, Actor,
          TypeConf, ConfName, RemoveConf, Remains, Out
    <3>3. Fits(a)' /\ StagedPairs' /\ ConfigPairs'
      BY <1>0, <2>0, <3>1, <3>2, CopyFacts DEF Fits, StagedPairs, ConfigPairs, Out, There
    <3> QED
      BY <2>1, <3>3, PairStep DEF TypeOK
  <2> QED
    BY <1>6, <2>2, <2>3, <2>4 DEF StageConfig, RemoveConf, Remains, Out, PutConf
<1>7. ASSUME NEW a \in Actor, DropConfirmedConfig(a)
      PROVE  PairInv'
  <2>0. Fits(a) /\ StagedPairs /\ ConfigPairs
    BY DEF PairInv
  <2>1. /\ op[a].at # "idle" \/ \A o \in Actor : op[o].at = "idle"
        /\ \A o \in Actor : o # a => op'[o] = op[o]
    BY <1>7
      DEF DropConfirmedConfig, Goto, Idle, TypeOK, TypeOps, OpRecord,
          RemoveConf, Remains, Out, PutConf
  <2>2. CASE TRUE
    <3>1. op'[a].at = "flush staged"
      BY <1>7, <2>2
      DEF DropConfirmedConfig, Goto, Idle, TypeOK, TypeOps, OpRecord,
          RemoveConf, Remains, Out, PutConf
    <3>2. /\ file' = file
          /\ Out("pending")'
          /\ conf'["staged"] = conf["staged"]
      BY <1>7, <2>2
      DEF DropConfirmedConfig, PutConf, TypeOK, TypeFiles, FileName, Actor,
          TypeConf, ConfName, RemoveConf, Remains, Out
    <3>3. Fits(a)' /\ StagedPairs' /\ ConfigPairs'
      BY <1>0, <2>0, <3>1, <3>2, CopyFacts DEF Fits, StagedPairs, ConfigPairs, Out, There
    <3> QED
      BY <2>1, <3>3, PairStep DEF TypeOK
  <2> QED
    BY <1>7, <2>2 DEF DropConfirmedConfig, RemoveConf, Remains, Out, PutConf
<1>8. ASSUME NEW a \in Actor, FlushStaged(a)
      PROVE  PairInv'
  <2>0. Fits(a) /\ StagedPairs /\ ConfigPairs
    BY DEF PairInv
  <2>1. /\ op[a].at # "idle" \/ \A o \in Actor : op[o].at = "idle"
        /\ \A o \in Actor : o # a => op'[o] = op[o]
    BY <1>8 DEF FlushStaged, Goto, Done, Idle, TypeOK, TypeOps, OpRecord
  <2>2. CASE Goto(a, "confirm")
    <3>1. op'[a].at = "confirm" /\ op[a].at = "flush staged"
      BY <1>8, <2>2 DEF FlushStaged, Goto, Done, Idle, TypeOK, TypeOps, OpRecord
    <3>2. /\ file' = file
          /\ conf' = conf
      BY <1>8, <2>2
      DEF FlushStaged, There, TypeOK, TypeFiles, FileName, Actor, TypeConf,
          ConfName
    <3>3. Fits(a)' /\ StagedPairs' /\ ConfigPairs'
      BY <1>0, <2>0, <3>1, <3>2, CopyFacts DEF Fits, StagedPairs, ConfigPairs, Out, There
    <3> QED
      BY <2>1, <3>3, PairStep DEF TypeOK
  <2>3. CASE Done(a)
    <3>1. op'[a].at = "idle"
      BY <1>8, <2>3 DEF FlushStaged, Goto, Done, Idle, TypeOK, TypeOps, OpRecord
    <3>2. /\ file' = file
          /\ conf' = conf
      BY <1>8, <2>3
      DEF FlushStaged, There, TypeOK, TypeFiles, FileName, Actor, TypeConf,
          ConfName
    <3>3. Fits(a)' /\ StagedPairs' /\ ConfigPairs'
      BY <1>0, <2>0, <3>1, <3>2, CopyFacts DEF Fits, StagedPairs, ConfigPairs, Out, There
    <3> QED
      BY <2>1, <3>3, PairStep DEF TypeOK
  <2> QED
    BY <1>8, <2>2, <2>3 DEF FlushStaged
<1>9. ASSUME NEW a \in Actor, ConfirmDb(a)
      PROVE  PairInv'
  <2>0. Fits(a) /\ StagedPairs /\ ConfigPairs
    BY DEF PairInv
  <2>1. /\ op[a].at # "idle" \/ \A o \in Actor : op[o].at = "idle"
        /\ \A o \in Actor : o # a => op'[o] = op[o]
    BY <1>9 DEF ConfirmDb, Goto, Done, Idle, TypeOK, TypeOps, OpRecord
  <2>2. CASE There("staged") /\ Rename("staged", "pending") /\ Goto(a, "confirm config")
    <3>1. op'[a].at = "confirm config" /\ op[a].at = "confirm"
      BY <1>9, <2>2 DEF ConfirmDb, Goto, Done, Idle, TypeOK, TypeOps, OpRecord
    <3>2. /\ There("staged")
          /\ file'["pending"] = file["staged"]
          /\ file'["staged"] = Nothing
          /\ conf' = conf
      BY <1>9, <2>2
      DEF ConfirmDb, There, Rename, Put, TypeOK, TypeFiles, FileName, Actor,
          TypeConf, ConfName
    <3>3. Fits(a)' /\ StagedPairs' /\ ConfigPairs'
      BY <1>0, <2>0, <3>1, <3>2, CopyFacts DEF Fits, StagedPairs, ConfigPairs, Out, There
    <3> QED
      BY <2>1, <3>3, PairStep DEF TypeOK
  <2>3. CASE There("staged") /\ Put("pending", file["staged"]) /\ Goto(a, "confirm config")
    <3>1. op'[a].at = "confirm config" /\ op[a].at = "confirm"
      BY <1>9, <2>3 DEF ConfirmDb, Goto, Done, Idle, TypeOK, TypeOps, OpRecord
    <3>2. /\ There("staged")
          /\ file'["pending"] = file["staged"]
          /\ file'["staged"] = file["staged"]
          /\ conf' = conf
      BY <1>9, <2>3
      DEF ConfirmDb, There, Rename, Put, TypeOK, TypeFiles, FileName, Actor,
          TypeConf, ConfName
    <3>3. Fits(a)' /\ StagedPairs' /\ ConfigPairs'
      BY <1>0, <2>0, <3>1, <3>2, CopyFacts DEF Fits, StagedPairs, ConfigPairs, Out, There
    <3> QED
      BY <2>1, <3>3, PairStep DEF TypeOK
  <2>4. CASE Done(a) /\ UNCHANGED file
    <3>1. op'[a].at = "idle"
      BY <1>9, <2>4 DEF ConfirmDb, Goto, Done, Idle, TypeOK, TypeOps, OpRecord
    <3>2. /\ file' = file
          /\ conf' = conf
      BY <1>9, <2>4
      DEF ConfirmDb, There, Rename, Put, TypeOK, TypeFiles, FileName, Actor,
          TypeConf, ConfName
    <3>3. Fits(a)' /\ StagedPairs' /\ ConfigPairs'
      BY <1>0, <2>0, <3>1, <3>2, CopyFacts DEF Fits, StagedPairs, ConfigPairs, Out, There
    <3> QED
      BY <2>1, <3>3, PairStep DEF TypeOK
  <2> QED
    BY <1>9, <2>2, <2>3, <2>4 DEF ConfirmDb
<1>10. ASSUME NEW a \in Actor, ConfirmConfig(a)
      PROVE  PairInv'
  <2>0. Fits(a) /\ StagedPairs /\ ConfigPairs
    BY DEF PairInv
  <2>1. /\ op[a].at # "idle" \/ \A o \in Actor : op[o].at = "idle"
        /\ \A o \in Actor : o # a => op'[o] = op[o]
    BY <1>10
      DEF ConfirmConfig, Done, Idle, TypeOK, TypeOps, OpRecord, RemoveConf,
          Remains, PutConf
  <2>2. CASE TRUE
    <3>1. op'[a].at = "idle" /\ op[a].at = "confirm config"
      BY <1>10, <2>2
        DEF ConfirmConfig, Done, Idle, TypeOK, TypeOps, OpRecord, RemoveConf,
            Remains, PutConf
    <3>2. /\ file' = file
          /\ Out("staged")'
          /\ conf'["pending"] \in {conf["pending"], conf["staged"]}
      BY <1>10, <2>2
      DEF ConfirmConfig, PutConf, TypeOK, TypeFiles, FileName, Actor, TypeConf,
          ConfName, RemoveConf, Remains, Out
    <3>3. Fits(a)' /\ StagedPairs' /\ ConfigPairs'
      BY <1>0, <2>0, <3>1, <3>2, CopyFacts DEF Fits, StagedPairs, ConfigPairs, Out, There
    <3> QED
      BY <2>1, <3>3, PairStep DEF TypeOK
  <2> QED
    BY <1>10, <2>2 DEF ConfirmConfig, RemoveConf, Remains, Out, PutConf
<1>11. CASE KillCli
  <2>1. /\ op'["web"] = op["web"] /\ op'["cli"].at = "idle"
        /\ \A n \in {"staged", "pending", "web"} : file'[n] = file[n]
        /\ conf' = conf
    BY <1>11 DEF KillCli, DropCopy, Gone, Done, Idle, TypeOK, TypeOps, TypeFiles, FileName,
              Actor
  <2> QED
    BY <1>0, <2>1
    DEF PairInv, Alone, Fits, StagedPairs, ConfigPairs, Out, There, Actor
<1>12. CASE Starting
  <2>1. /\ op' = op
        /\ \A n \in Actor \cup {"staged"} : file'[n] = file[n]
        /\ conf'["staged"] = conf["staged"]
        /\ file'["pending"] \in {file["pending"], Nothing}
        /\ conf'["pending"] \in {conf["pending"], NoConf}
    BY <1>12, StartingFrame DEF StartingLeaves
  <2>2. ASSUME NEW a \in Actor, Fits(a) PROVE Fits(a)'
    BY <1>0, <2>1, <2>2 DEF Fits, Out, There
  <2>3. Alone' /\ StagedPairs' /\ ConfigPairs'
    BY <1>0, <2>1 DEF PairInv, Alone, StagedPairs, ConfigPairs, Out, There
  <2> QED
    BY <2>2, <2>3 DEF PairInv
<1>13. CASE Commit \/ Stop \/ Crash
  <2>1. /\ \A n \in {"staged", "pending"} : file'[n] = file[n]
        /\ conf' = conf
    BY <1>13 DEF Commit, Put, Stop, Crash, TypeOK, TypeFiles, FileName, Actor, OnDisk
  <2>2. \A a \in Actor : op'[a].at = "idle" \/ (op'[a] = op[a] /\ file'[a] = file[a])
    BY <1>13
      DEF Commit, Put, Rest, Stop, Crash, TypeOK, TypeOps, TypeFiles, FileName,
          Actor, Idle, Held
  <2>3. ASSUME NEW a \in Actor, Fits(a) PROVE Fits(a)'
    BY <1>0, <2>1, <2>2, <2>3 DEF Fits, Out, There
  <2>4. Alone' /\ StagedPairs' /\ ConfigPairs'
    BY <1>0, <2>1, <2>2
    DEF PairInv, Alone, StagedPairs, ConfigPairs, Out, There
  <2> QED
    BY <2>3, <2>4 DEF PairInv
<1> QED
  BY <1>1, <1>2, <1>3, <1>4, <1>5, <1>6, <1>7, <1>8, <1>9, <1>10, <1>11,
     <1>12, <1>13
  DEF Next, Restorer

(* When the web and the command line do not work at the same time, a confirmed
   config is the one that came with the confirmed database, whatever fails and
   whenever the power goes, or one that could not be removed in time. *)
THEOREM ConfigsStayPaired ==
  ASSUME ~Overlap
  PROVE  Spec => []ConfigPairs
<1>1. Init => PairInv
  BY CopyFacts DEF Init, PairInv, Alone, Fits, StagedPairs, ConfigPairs, Out, Idle, ConfName, FileName, Actor, There
<1>2. TypeOK /\ FilesInv /\ PairInv /\ [Next]_vars => PairInv'
  <2>1. ASSUME UNCHANGED vars, PairInv PROVE PairInv'
    BY <2>1 DEF vars, PairInv, Alone, Fits, StagedPairs, ConfigPairs, Out, There
  <2> QED
    BY <2>1, PairNext DEF FilesInv
<1>3. PairInv => ConfigPairs
  BY DEF PairInv
<1> QED
  BY <1>1, <1>2, <1>3, FilesHold, PTL DEF Spec

-----------------------------------------------------------------------------
(* What was replaced. *)

Saves(s, d) == Opened(s.db, s.wal) = d
Kept(d) == \E i \in 1..Len(snaps) : Saves(snaps[i], d)
KeptByTaken(d) == \/ taken = "first" /\ Saves(snaps[1], d)
                  \/ taken = "last" /\ Saves(snaps[Len(snaps)], d)

(* The snapshot this start took opens as what it found, and stays until what
   it found has been replaced and the others are pruned. *)
SavedInv ==
  /\ svc \in {"checkpoint", "snapshot"} => seen = Data
  /\ svc \in {"flush", "aside", "install", "copied"} => seen = Nothing \/ KeptByTaken(seen)
  /\ svc \in {"retire", "drop aside", "prune"} =>
       replaced = Nothing \/ KeptByTaken(replaced)
  /\ replaced # Nothing => Kept(replaced)

LEMMA TakenIsKept ==
  ASSUME TypeService, NEW d, KeptByTaken(d)
  PROVE  Kept(d)
<1>1. Len(snaps) \in Nat /\ Len(snaps) # 0
  BY DEF TypeService, KeptByTaken
<1>2. 1 \in 1..Len(snaps) /\ Len(snaps) \in 1..Len(snaps)
  BY <1>1
<1> QED
  BY <1>2 DEF Kept, KeptByTaken

(* Steps that leave the snapshots, and the data while it is being saved. *)
LEMMA SavedKeeps ==
  ASSUME SavedInv, UNCHANGED <<snaps, replaced>>,
         svc' \in {"checkpoint", "snapshot"} => seen' = Data',
         svc' \in {"flush", "aside", "install", "copied"} =>
           \/ svc \in {"flush", "aside", "install", "copied"} /\ UNCHANGED <<seen, taken>>
           \/ seen' = Nothing,
         svc' \in {"retire", "drop aside", "prune"} =>
           svc \in {"retire", "drop aside", "prune"} /\ taken' = taken
  PROVE  SavedInv'
BY DEF SavedInv, Kept, KeptByTaken, Saves

(* A pruned sequence keeps its newest element. *)
LEMMA NewestKeepsLast ==
  ASSUME NEW q \in Seq(Snapshot), Len(q) # 0, NEW n \in Nat \ {0}
  PROVE  /\ Len(Newest(q, n)) \in Nat \ {0}
         /\ Newest(q, n)[Len(Newest(q, n))] = q[Len(q)]
<1>1. CASE Len(q) <= n
  BY <1>1 DEF Newest
<1>2. CASE ~(Len(q) <= n)
  BY <1>2 DEF Newest
<1> QED
  BY <1>1, <1>2

(* A snapshot is taken of what is found before anything replaces it. *)
LEMMA SavedNext ==
  ASSUME TypeOK, FilesInv, SavedInv, Next
  PROVE  SavedInv'
<1>1. CASE Restorer
  <2>1. Data' = Data
    BY <1>1, RestorerFrame DEF RestorerLeaves, Data, There
  <2> QED
    BY <1>1, <2>1, RestorerFrame, SavedKeeps DEF RestorerLeaves, SavedInv
<1>2. CASE Start
  BY <1>2, SavedKeeps DEF Start, Step, Rest, SavedInv, Held
<1>3. CASE CheckPending
  <2>1. Data' = Data
    BY <1>3 DEF CheckPending, Data, There, RemoveConf, Remains, PutConf
  <2> QED
    BY <1>3, <2>1, SavedKeeps
      DEF CheckPending, Step, mine, RemoveConf, Remains, PutConf
<1>4. CASE CheckpointLive
  <2>1. There("db")
    BY <1>4 DEF CheckpointLive, Refuse, Step, FilesInv, LiveDb
  <2>2. ASSUME file' = [file EXCEPT !["db"] = Data, !["wal"] = Nothing]
        PROVE  Data' = Data
    BY <2>1, <2>2, DataFacts DEF TypeOK, TypeFiles, FileName, FilesInv, Data, There, Opened
  <2>3. ASSUME file' = file PROVE Data' = Data
    BY <2>3 DEF Data, There
  <2>4. Data' = Data
    BY <1>4, <2>2, <2>3 DEF CheckpointLive, Refuse
  <2> QED
    BY <1>4, <2>4, SavedKeeps
      DEF CheckpointLive, Refuse, Step, Rest, SavedInv, Held
<1>5. CASE SnapshotLive
  <2>1. CASE svc' = "reject" /\ UNCHANGED <<snaps, Rest>>
    BY <2>1, SavedKeeps DEF Rest, Held
  <2> DEFINE s == [db |-> file["db"], wal |-> IF readable THEN Nothing ELSE file["wal"]]
  <2>2. CASE /\ svc = "snapshot" /\ svc' = "flush" /\ UNCHANGED Rest
             /\ \/ taken' = "last" /\ snaps' = Append(snaps, s)
                \/ taken' = "first" /\ snaps' = <<s>> \o snaps
    <3>1. There("db") /\ (readable => ~There("wal")) /\ seen = Data
      BY <2>2 DEF FilesInv, LiveDb, WalInv, SavedInv
    <3>2. Saves(s, seen)
      <4>1. CASE readable
        BY <3>1, <4>1 DEF Saves, Data, There, Opened
      <4>2. CASE ~readable
        BY <3>1, <4>2 DEF Saves, Data
      <4> QED
        BY <4>1, <4>2
    <3> HIDE DEF s
    <3>3. KeptByTaken(seen)'
      BY <2>2, <3>2 DEF Rest, TypeOK, TypeService, KeptByTaken, Saves, Held
    <3>4. ASSUME replaced # Nothing
          PROVE  Kept(replaced)'
      <4>1. PICK i \in 1..Len(snaps) : Saves(snaps[i], replaced)
        BY <3>4 DEF SavedInv, Kept
      <4>2. CASE snaps' = Append(snaps, s)
        <5>1. i \in 1..Len(snaps') /\ snaps'[i] = snaps[i]
          BY <4>2 DEF TypeOK, TypeService
        <5> QED
          BY <2>2, <4>1, <5>1 DEF Kept, Saves, Rest, Held
      <4>3. CASE snaps' = <<s>> \o snaps
        <5>1. i + 1 \in 1..Len(snaps') /\ snaps'[i + 1] = snaps[i]
          BY <4>3 DEF TypeOK, TypeService
        <5> QED
          BY <2>2, <4>1, <5>1 DEF Kept, Saves, Rest, Held
      <4> QED
        BY <2>2, <4>2, <4>3
    <3> QED
      BY <2>2, <3>3, <3>4 DEF SavedInv, Rest, Held
  <2> QED
    BY <1>5, <2>1, <2>2 DEF SnapshotLive, Refuse, Step, Held
<1>6. CASE FlushPending
  BY <1>6, SavedKeeps
    DEF FlushPending, mine, Step, Rest, Refuse, SavedInv, Held
<1>7. CASE MoveSidecarsAside
  BY <1>7, SavedKeeps
    DEF MoveSidecarsAside, Step, Rest, Refuse, mine, SavedInv, Held
<1>8. CASE Install \/ InstallCopy
  <2>1. CASE /\ UNCHANGED <<snaps, mine>> /\ replaced' = seen
             /\ svc \in {"install", "copied"} /\ svc' \in {"drop aside", "retire"}
    <3>1. replaced' = Nothing \/ KeptByTaken(replaced)'
      BY <2>1 DEF SavedInv, KeptByTaken, Saves, mine
    <3>2. KeptByTaken(replaced)' => Kept(replaced)'
      <4>1. KeptByTaken(seen) => Kept(seen)
        BY TakenIsKept DEF TypeOK
      <4> QED
        BY <2>1, <4>1 DEF KeptByTaken, Kept, Saves, mine
    <3> QED
      BY <2>1, <3>1, <3>2 DEF SavedInv
  <2>2. CASE /\ UNCHANGED <<snaps, mine, Rest>>
             /\ svc \in {"install", "copied"} /\ svc' \in {"copied", "put back"}
    BY <2>2, SavedKeeps DEF mine, Rest, Held
  <2> QED
    BY <1>8, <2>1, <2>2 DEF Install, InstallCopy, Installed, Step, Held
<1>9. CASE RestoreSidecars \/ RetirePending \/ DropAside
  BY <1>9, SavedKeeps
  DEF RestoreSidecars, Step, Rest, RetirePending, mine, DropAside, SavedInv,
      Held
<1>10. CASE PruneSnapshots
  <2>1. svc = "prune" /\ svc' = "config" /\ UNCHANGED replaced
    BY <1>10 DEF PruneSnapshots, Step, Rest, Held
  <2>2. SnapshotsKept \in Nat \ {0} /\ snaps \in Seq(Snapshot)
    BY RestoreAssumption DEF TypeOK, TypeService
  <2>3. ASSUME replaced # Nothing
        PROVE  Kept(replaced)'
    <3>1. KeptByTaken(replaced)
      BY <2>1, <2>3 DEF SavedInv
    <3>2. Len(snaps) \in Nat \ {0}
      BY <2>2, <3>1 DEF KeptByTaken, TypeOK, TypeService
    <3>3. CASE taken = "first"
      <4> DEFINE X == Newest(Tail(snaps), SnapshotsKept - 1)
      <4>2. Tail(snaps) \in Seq(Snapshot) /\ SnapshotsKept - 1 \in Nat
        BY <2>2, <3>2
      <4>3. X \in Seq(Snapshot)
        BY <4>2 DEF Newest
      <4>4. snaps' = <<Head(snaps)>> \o X
        BY <1>10, <3>3 DEF PruneSnapshots
      <4> HIDE DEF X
      <4>5. Head(snaps) = snaps[1] /\ Head(snaps) \in Snapshot
        BY <2>2, <3>2
      <4>6. 1 \in 1..Len(snaps') /\ snaps'[1] = snaps[1]
        BY <4>3, <4>4, <4>5
      <4> QED
        BY <2>1, <3>1, <3>3, <4>6 DEF KeptByTaken, Kept, Saves
    <3>4. CASE taken # "first"
      <4>1. snaps' = Newest(snaps, SnapshotsKept)
        BY <1>10, <3>4 DEF PruneSnapshots
      <4>2. Len(snaps') \in Nat \ {0} /\ snaps'[Len(snaps')] = snaps[Len(snaps)]
        BY <2>2, <3>2, <4>1, NewestKeepsLast
      <4>3. Len(snaps') \in 1..Len(snaps')
        BY <4>2
      <4> QED
        BY <2>1, <3>1, <3>4, <4>2, <4>3 DEF KeptByTaken, Kept, Saves
    <3> QED
      BY <3>3, <3>4
  <2> QED
    BY <2>1, <2>3 DEF SavedInv
<1>11. CASE SavePrevious \/ WriteConfig \/ DiscardConfig \/ SettleConfig
  BY <1>11, SavedKeeps
  DEF SavePrevious, mine, Step, Rest, WriteConfig, DiscardConfig, SettleConfig,
      SavedInv, RemoveConf, Remains, PutConf, Held
<1>12. CASE Reject \/ SetAside \/ OpenDb
  BY <1>12, SavedKeeps
    DEF Reject, mine, Step, Rest, SetAside, OpenDb, SavedInv, RemoveConf,
        Remains, PutConf, Held
<1>13. CASE Commit \/ Stop
  BY <1>13, SavedKeeps DEF Commit, mine, Rest, Stop, SavedInv, Held
<1>14. CASE Crash
  BY <1>14, SavedKeeps DEF Crash, SavedInv
<1> QED
  BY <1>1, <1>2, <1>3, <1>4, <1>5, <1>6, <1>7, <1>8, <1>9, <1>10, <1>11,
     <1>12, <1>13, <1>14
  DEF Next, Starting

(* Whatever a restore replaced, commits and WAL and all, can be had back from a
   snapshot that is still there, until the next restore replaces it in turn. *)
THEOREM ReplacedCanBeHadBack == Spec => []ReplacedIsSaved
<1>1. Init => SavedInv
  BY DEF Init, SavedInv
<1>2. TypeOK /\ FilesInv /\ SavedInv /\ [Next]_vars => SavedInv'
  <2>1. ASSUME UNCHANGED vars, SavedInv PROVE SavedInv'
    BY <2>1 DEF vars, SavedInv, Kept, KeptByTaken, Saves, Data, There
  <2> QED
    BY <2>1, SavedNext
<1>3. TypeOK /\ SavedInv => ReplacedIsSaved
  <2>1. TypeOK => DOMAIN snaps = 1..Len(snaps)
    BY DEF TypeOK, TypeService
  <2> QED
    BY <2>1 DEF SavedInv, Kept, Saves, ReplacedIsSaved
<1> QED
  BY <1>1, <1>2, <1>3, FilesHold, PTL DEF Spec
=============================================================================
