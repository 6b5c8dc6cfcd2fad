# Supply Drop BBS: specifications

TLA+ specifications of Supply Drop BBS, a bulletin board reached over LoRa mesh radios, a terminal,
a web admin and external plugin processes. They sit beside the code and model its control: which
state each operation reads and writes, in which order, and what may happen in between.

## 1. The system

One server process (`src/main.rs`) runs a host (`crates/bbs-core`) and the transports that talk to
users. The host answers commands; a transport opens a session per user, awaits the answer to one
command before it sends the next, and delivers the answers. The same binary run as a command line
(`supply-drop-bbs user ...`) is a second process on the same SQLite file.

| Part | State it keeps | Operations | What is hard | What must hold |
|---|---|---|---|---|
| host: sessions and standing (`host.rs`) | session map: account, cached level, workflow, current room | login (one-shot, prompted, by radio node), logout, moderation, admin API | every command is a chain of statements and lock sections between which all others run; the cached level | no command acts on an authority its account no longer has; bans reach every session |
| host: access policy | `require_verify`, guest room | OPENACCESS, CLOSEACCESS, SETGUEST | the policy changes under running commands; it is also written to `config.toml` | an unvalidated account gets what the policy of the moment gives |
| host: rooms, reading, composing | workflow drafts, last read, last confirmation | C, G, N, F, R, E, D, replies | a draft outlives the room and rights it began with; retried lines | nothing is posted twice or into a room that is closed to the author |
| `users` table (`db/user_store.rs`) | status, level, expiry per account | update, suspend, clear, lift | read and write of one update are two statements on two connections | a ban stands, a timeout ends, a Sysop remains |
| messages, rooms tables | messages, room list as a doubly linked list, read pointers | post, delete, mark read, create, reorder, delete a room | five-row rewrites; pointers to deleted messages | one list; pointers never hide or repeat messages |
| restore (`restore_*.rs`, `main.rs`) | staged, pending, set-aside files, snapshots | stage, confirm, apply at start, sweep | crashes between any two file operations; web and CLI at once | the live database is one that was committed or confirmed, with its own log and its config |
| process plugins (`bbs-process-transport`) | plugin state, child process, its exit loop | add, remove, enable, disable, restart, crash restart | a child exits while a command restarts it, or before it is registered | no process escapes the registry; an exit is heard and stops only its own plugin process |
| MeshCore transport: link and sends (`bbs-mesh`, `meshcore-companion`) | three bounded channels between client, event loop and command worker; sends awaiting a verdict or a confirmation | connect, fetch, hand over, reply, retransmit | lost verdicts and confirmations, matching by order, tasks that wait for each other's channels | a reply is retried until confirmed or given up; one fetch empties the radio's queue |
| MeshCore transport: commands (`bbs-mesh`) | an entry per node: session, awaiting flag, recent message identities; the host's session and stored credential | dispatch, refresh, retry, end of workflow | repeated and late messages; the host ends sessions on its own; storage errors | a command runs once; a reply reaches the prompt it answers |
| contact protection (`bbs-plugin-api` advert bus, `bbs-mesh`) | contact records with protection and grace stamps; the radio's contact table | protect, evict, revert, remove; adverts, contact lists, full table | two tasks decide on one record; frames are sent without an answer | a protected contact is a favourite in the radio's table, and none other |
| web admin (`bbs-web`) | its token cache | the admin API | 12-hour logins | every request looks at the account again |

The host and the CLI share the database file, of which the modelled CLI commands write accounts; web
requests call the host's admin API in the server's process; transports share only the session map. A
restore confirmed by the web or the CLI is carried out by the next start of the server. The MeshCore
event loop and its command worker share the send tracker, the session entries and the advert bus.

## 2. Modules

| Module | What it is |
|---|---|
| `UserRows` | one row of `users` and what each statement of the store makes of it; pure operators |
| `AccountAccess` | the host's accounts and sessions, with every command split at each database statement and lock section |
| `MCAccess` | instances of `AccountAccess` for TLC |
| `AccountAccess_proofs` | the inductive invariant and type correctness; what commands in flight rely on, and the four properties that follow; what handlers rely on while they run alone, and four more |
| `PluginSupervision` | the registry of external plugin processes: its commands, start-up and one exit loop per process |
| `MCPlugins`, `PluginSupervision_proofs` | instances for TLC; type correctness, that no process escapes the registry, and that the files follow it |
| `AbstractRestore` | what a restore promises: the data grows by commits and is replaced only whole, by a confirmed backup |
| `RestoreApply` | a restore on files, from the upload to the start that applies it; implements `AbstractRestore` |
| `MCRestore`, `RestoreApply_proofs` | an instance for TLC; the refinement and four invariants |
| `RoomRows` | the `rooms` table as a doubly linked list and what each transaction makes of it; pure operators |
| `AbstractRooms` | what the walk order promises: the rooms are one sequence |
| `RoomOrder` | the commands and requests that create, delete and move rooms; implements `AbstractRooms` |
| `MCRooms`, `RoomOrder_proofs` | an instance for TLC; neighbours stay linked, every start accepts the list, and `AbstractRooms` is implemented |
| `Board` | reading, posting, replying, deleting and blocking, over rooms (`RoomRows`), messages, pointers and blocks |
| `MCBoard` | an instance for TLC: which accounts give which commands |
| `Board_proofs` | the four invariants of reading and posting, for any accounts, rooms and messages |
| `RadioLink` | the companion client, the event loop and the command worker over their channels, with the send tracker |
| `RadioLink_proofs` | verdicts stay with the sends they are about, and no reply goes out more often than its cap |
| `InboundCommands` | what becomes of one node's messages: session entry, deduplication, workflow replies, host session |
| `InboundCommands_proofs` | one session per node, replies that meet their prompt and in time, logouts that stick, no repetition that runs twice |
| `ContactProtection`, `MCContacts` | contact protection between the advert bus and the radio's contact table; its symmetry for TLC |
| `ContactProtection_proofs` | that bus and radio come to agree, nobody who wrote is forgotten, reverts take back only their own |

`RadioLink` and `InboundCommands` are checked as they stand, by configs that give their constants.

### How AccountAccess corresponds to the code

`row` is the `users` table, `sess` the session map (`BbsHost::sessions`), `requireVerify` the access
policy, `mustChange` the accounts holding a temporary password, `now` the wall clock, `audit` the
audit rows written, and `task[t]` the command that caller `t` has under way: a session, a web
request or a command-line invocation. `since[t]` is history no action reads: what was true of the
command's account at some instant since the command began.

`task[t].pc` names the next access the command makes. An action is one SQL statement or one section
under the session lock, together with the local code up to the next one, so TLC interleaves commands
exactly where the executor and the database can:

| `pc` | code |
|---|---|
| `standing`, `lift`, `relook`, `expel` | `log_out_if_account_barred`, `resolve_suspension`, `log_out_account` |
| `reread`, `cache`, `policy`, `treat`, `guest` | `session_auth_user`, `session_auth_or_guest` |
| `handle`, `count`, `load`, `store`, `suspend`, `clear`, `sessions`, `audit`, `newpass` | the moderation handlers, `admin_update_user`, `admin_suspend_user` and the store functions they call |
| `account`, `ask`, `verify`, `retry`, `refused`, `mustchange`, `hold`, `final`, `bind` | LOGIN in its three forms, the password reply, the forced change, `finalize_login` |
| `endflow` | the end of a compose or profile workflow |

Abstracted: names, passwords (a password is right or wrong), texts, hash times, which room. A wrong
password is a choice of `VerifyPassword`. A session id is never reused, as in the code. When
`StorageErrors` holds, any access may fail, with what the code does then: most commands end with
what they have done so far, the standing check and the level read fall back on the session's cache.

### How PluginSupervision corresponds to the code

`entry` is `ProcessPluginManager::plugins`, `toml` and `dropIn` the plugin entries of `config.toml`
and of `plugins.d/`, `task[t]` a request of the web admin or the start-up in
`ProcessPluginManager::new`. `proc[h]` is what belongs to one `ProcessTransport`: its process, which
lives on after the handle is gone, whether it was told to end (the handle stopped or dropped, which
closes its stdin), and the `plugin_exit_loop` that listens to it. A loop that has restarted its
process holds the new handle as `heir` until it stores it.

An action is one section under the registry's lock, or the start of a process between two of them,
or the deletion of a drop-in file, which happens outside the lock. `persist_config` runs under the
lock and is one step. A process may end at any moment with either exit status. A start may fail
(`SpawnFails`). Abstracted: command lines, logs, versions, the restart count, the length of the
restart delay, and failing reads or writes of the config files, which the code only logs; `plugins.d`
exists and no file lists a name twice.

### How RestoreApply corresponds to the code

`file` and `conf` are the files of the data directory by the part they play (live database, its WAL,
the WAL set aside, the private copies, staged, pending), `snaps` the safety snapshots, `volatile`
what was written and not yet flushed. A file is `[of, gen, at]`: whose data it is, which install
began it and how many commits it holds; a WAL names the database it was written for. What SQLite
does on opening a database beside a WAL is `Opened`: it replays the WAL, and a foreign one tears the
database. `op[a]` is the restore command the web or the CLI is in the middle of
(`restore_stage.rs`), `svc` where the start-up sequence stands (`restore_apply.rs`,
`restore_config.rs`, `cmd_run` in `main.rs`), `readable`, `taken`, `moved` its local variables.

Every file operation that what follows depends on is a step, and may fail (`Fault`), taking the
code's error path; `Crash` stops the machine between any two, and what was `volatile` may be lost or
torn. The removal of a config whose error the code ignores may fail too (`RemoveConf`, remembered in
`stuck`), and so may putting the previous config back (`SettleConfig`, remembered in `stranded`).
Taken to succeed: the removal of private copies and temporary files, of a staged database that is
refused or whose config could not be staged, the deletion of old snapshots, and the steps within one
`atomic_write`. The clock may go back, so that a snapshot overwrites the name of an older one. A config is a pair of general settings
and this machine's own keys (`merge_for_restore`). Outside the model: the archive format,
validation beyond its verdict, disk space.

### How RoomOrder and Board correspond to the code

`RoomRows` translates `RoomStore`: `Created`, `Reordered`, `Removed`, the walk of
`list_in_order` and the start-up check `verify_room_walk_order`. In `RoomOrder` a command is two steps, its lookup (a read on the pool) and
its transaction, with everything else possible in between; `task[c]` holds what the lookup found.
`done` is history, the last transaction, which `AbstractRooms` takes to say which operation the new
order answers to.

`Board` has one session per account (`sess`: room, reading position, workflow, draft) and the
command it has under way (`task`). A command is split where it releases its session lock and between
its statements: N reads the pointer, a page, then the blocks, may be overtaken, and marks the page
read; G asks one room after the other; D checks a message and then deletes it, which may be gone by
then. A D of the message on screen that is refused leaves reading mode, as any other input does
(`LeaveReading`). The look-ups of one check (the message and whether it is in the room) are one step,
and so are the queries of one F or R, up to the mark. `msg`, `ptr` and `block` are
`messages` with `room_messages`, `user_room_state` and `user_blocks`. `Mix` says which commands a
behaviour gives, so that TLC explores four kinds of activity fully rather than all of them a little.

### How RadioLink corresponds to the code

`cmd` and `events` are the bounded channels between the reconnecting client
(`meshcore-companion/src/client.rs`) and the event loop (`bbs-mesh/src/transport.rs`), `work` the
command worker's queue. A task that finds a channel full waits: `holding` is the event the client
cannot place, `loop` and `reply` the frames the event loop and the worker still have to send.
`awaitingSent` and `awaitingAck` are the two halves of `SendTracker`. `radio`, `wire`, `fromRadio`,
`inbox` and `onAir` are the environment: radio reachable, connection working, frames on their way,
messages the radio stores, transmissions the mesh may still confirm. A CRC stands for the reply and
the attempt, since timestamps differ.

A command's response is one text or none (`WorkerTakes`). The worker sends a `MultiText` response as
several texts one after the other, each with its own record in the tracker, just as two responses or
a response and a notification follow each other in the model; two texts of one response at once take
the run past what TLC finishes, so more than one frame per response is not modelled.
`PushDomainNotification` is the event loop's own sender. `MeshTransport::notify` sends the same way
from a third task, but nothing in the program calls it (its tests do), so it is no actor here.

### How InboundCommands corresponds to the code

One node sends messages; the mesh repeats and reorders them. `entry` is the node's `SessionEntry`
(`session.rs`), `sessions` the host's sessions by number, `cred` the stored credential, `bus` whether
the advert bus knows the node's key, `job` the message `dispatch_message` is working on. The awaits
in `dispatch_message` (the host's answer, creating a session, restoring a login) are where `job` rests
and where `HostEnds`, `Restart` and the arrival of a key come in. The host's answers to each kind of
line (`Answers`) include what `AccountAccess` says of barred accounts, what a storage error leaves, and
the answers that leave a workflow open without a prompt (`Staying`, `LoggedInReplies`): reading mode's
H and D <another id>, the review queue's V and B. The transport takes every answer that is no prompt
for the end of the workflow; `astray` remembers that the host's went on. Binding and removing the
credential may fail, which the code only logs, and the program may stop between the host's answer and
the removal; `logout` remembers how far the last logout got.

### How ContactProtection corresponds to the code

`bus` holds the records of `advert.rs` (full key known, favourite bit, the two grace stamps, the
generation), `session` and `pending` the parts of `SessionState` that contact protection uses, `task`
what the event loop and the command worker are at between two locks, `removals` the web's deletions
on their way to the event loop, `table` the radio's contacts. A step is one call of the bus or of the
session state, or one `try_send`; the channel to the client may be full. One tick is the grace
window. `excused` is history: the nodes for which one of the code's known gaps opened, each listed
below; the properties speak of all others.

## 3. Runs

| Run | Config | Checks | Shows |
|---|---|---|---|
| `access_concurrent` | `AccessConcurrent.cfg` | `TypeOK`, `AuthorityIsFresh`, `RepliesNeedStanding`, `BarredIsLoggedOut` | Commands of two sessions and of the CLI interleave access by access: no command acts on an authority its account did not have since the command began. |
| `access_serial` | `AccessSerial.cfg` | `BanStands`, `TimeoutIsTemporary`, `SysopRemains`, `BarredHoldsNoSession` | With one command at a time the handlers' own checks keep bans, timeouts and the last Sysop. |
| `access_logins` | `AccessLogins.cfg` | `LoginNeedsStanding`, `LiftsOnlyElapsed` | One-shot and prompted logins, forced password changes and node auto-login interleave with suspensions, status changes and lifts of the CLI and with a sysop's commands while any database access may fail: still no barred account logs in. |
| `rooms` | `Rooms.cfg` | `NeighboursAgree`, `StartAccepts`, `OrderPromise` | Two callers and the web create, delete and move rooms, also under names that differ only in case: the table stays one doubly linked list, implements a sequence of rooms, and the next start accepts it. |
| `board` | `Board.cfg` | `PointersBelong`, `PassedIsAccounted`, `NShowsOnce`, `PositionIsHere` | Readers, posters and moderators share rooms and mail while the web deletes messages and rooms: a read pointer passes nothing its reader was not shown or did not skip, N shows a room's message once, and the reading position stays in the room. |
| `inbound` | `Inbound.cfg` | `OncePerSession`, `FlagsAgree`, `StageExpires`, `PromptTakesReply`, `SessionsMapped`, `LogoutSticks` | Three messages of one node and a repetition, with and without stamps, commands, replies and logouts, while the host ends the session, storage fails and the program restarts: no stamped message runs twice on a session; the transport awaits a reply only for the prompt the host's workflow is at, and takes a workflow for ended only when it is, or went on without a prompt; no reply reaches a stage nobody answered in time; no session is left behind; and a logout whose credential was removed stays. |
| `plugins_concurrent` | `PluginsConcurrent.cfg` | `NoOrphan`, `FilesMatchRegistry`, `ExitIsAnswered` | Start-up with a name in both files, then requests of two administrators against the exit loops of processes that end or crash at any moment, while starts may fail: no process escapes the registry, the files follow it, and every exit heard is answered. |
| `radio_link` | `RadioLink.cfg` | `VerdictsMatch`, `CopiesBounded`, `RepliesSettle`, `QueueDrains` | A user's message and a notification cross the client's, the event loop's and the worker's channels while confirmations and announcements get lost and the link breaks once: verdicts stay with the sends they are about until one is lost, no reply is sent more often than its cap, every reply settles, and one fetch empties the radio's queue. |
| `radio_wedged` | `RadioWedged.cfg` | `Reconnects` (violated) | While the radio is away the event loop waits for room in the command channel, failed reconnections fill the event channel it no longer reads, and the client waits there for ever: the radio comes back and nobody connects to it. |
| `restore` | `Restore.cfg` | `WalBelongs`, `ReplacedIsSaved`, `ConfigPairs`, `MachineStays`, `RestorePromise`, `StartsUnlessStranded` | Backups are staged and confirmed by the web or the command line and applied by the next start, while file operations fail, the clock goes back and the machine stops between any two steps: the data is always the service's own or, whole, a confirmed backup's; what was replaced is in a snapshot; and the service comes up again, unless a restored config that does not load was left in place (its revert failed, or the machine stopped before it). |
| `restore_bricks` | `RestoreBricks.cfg` | `StartsAgain` (violated) | The machine stops after the backup's config was written and before it was found not to load, or the previous one cannot be put back: no later start gets past reading it. |
| `contacts` | `Contacts.cfg` | `ProtectedIsFavourite`, `FavouriteIsKnown`, `MarkedHadDecision`, `RevertsOwn` | Messages, adverts, a full radio table, the web's deletions and an outage meet while the event loop and the command worker protect, evict and revert step by step: once the frames are through, the bus and the radio agree on who is a favourite, no sender is left waiting without a decision, and no attempt undoes another's protection. |

For restores: two backups, one with a config, and that one does not load on this machine;
`MaxCommits` and `MaxInstalls` 1, so a database has been written to before it is replaced and a
second restore meets the remains of the first; two faults, which is a failure and a crash on top of
it; two snapshots kept. `Overlap` is FALSE: the web and the CLI do not stage at the same moment.
`restore_bricks` differs from `restore` only in what it asks: `StartsAgain` is what the module comment
of `restore_apply.rs` promises, `StartsUnlessStranded` what holds, that the service comes up again
unless a config that does not load was left in place. With the one backup that has a config not
loading here, TLC meets no merge that is kept; that a kept one has this machine's keys is proved
(`MachineKeepsItsOwn`).

For rooms: two callers, two names that fold to one (`news`, `News`), four commands and two rooms
beyond the five of the migration, enough for a move or a deletion at either end and in the middle. For
the board: a member, an aide and a guest, one room besides the system rooms, three messages, a page of
one message and a skip of two, so that pages and skips end within a room.

For the radio link: one command, one channel message and one notification over channels of one slot
(`CmdDepth` 5 in `radio_link`, more than these tasks ever queue; 1 in `radio_wedged`, where the
circular wait needs a full channel), two attempts, one outage. For commands: three messages and one
repetition, two ticks, one restart, two sessions and two stages, windows of three and one ticks around
them, and a cache of recent identities of two. For contacts: two chat nodes and a repeater, a cap of
one favourite, a table of two and a channel of two, one grace window and three inputs; the chat nodes
are interchangeable, and no property names one.

For accounts: `MaxCommands` commands in a behaviour, `MaxInFlight` of them at once, `MaxTime` ticks,
timeouts of up to `MaxDays`. `access_logins` starts with only the sysop logged in, so that its four
commands can be two logins, also by a LOGIN typed at a login prompt, with a ban, a timeout or a lift between
the accesses of either, a forced password change that takes two of them, and storage errors. Two commands in flight are enough for every pair of accesses to
interleave, and a third lets the state they leave be used; one tick is enough for a timeout to
elapse. Two or three accounts and two sessions give each command its own account, another's, and
another session of its own.

For plugins: one name, as requests of different names meet only in `persist_config`; two
administrators and three requests let a third one meet what two overlapping ones left; three handles
(`SpareHandle` keeps one in reserve for every start that is due) allow for the start-up instance and
two replacements by hand or by crash.

Fairness, and why the code justifies it:

- `AccountAccess.FairSpec`: every step of a command under way. Tokio runs each ready task, SQLite
  serves each statement, and a command holds no lock across an access that waits for another command.
  Nothing obliges a user to type a command or a timeout to elapse.
- `PluginSupervision.FairSpec`: start-up, every request under way and every exit loop goes on (the
  restart delay is a finite sleep and the lock is never held while waiting for a process). No process
  has to exit, whether told to or not.
- `RestoreApply.Spec`: the start-up sequence goes on, and the service manager starts the service
  again. Nobody need stage, confirm, commit or stop anything, and no failing operation need succeed.
- `RadioLink.FairSpec`: every task that can go on does; `select!` picks at random, so the client
  neither always reads nor always writes; the retry tick keeps ticking; a radio that is away comes
  back. Nobody owes a message, a confirmation or an outage.
- The others state safety only.

Deadlock is not checked: when the bound on inputs is reached every caller may simply be idle.

### What the violation runs show

- `radio_wedged`: Two bounded channels wait on each other. Offline, the client reads no commands and reports every failed attempt with an awaited send on the event channel (64 slots); the event loop, once it has a frame to send and the command channel (32 slots) is full, awaits room there and reads no events. With a full command channel and enough failed attempts both wait for ever, and the radio's return is not noticed. client.rs:39-42 says: "On any I/O error the worker emits [`ClientEvent::Disconnected`] with `will_retry: true`, sleeps for a backoff period (exponential, capped), then reconnects." (`crates/meshcore-companion/src/client.rs:287`)
- `restore_bricks`: apply_config writes the merged config.toml in place before settle_applied checks that it loads; a power cut or kill in between, or a revert_config that fails (lines 285-290; the service then runs on), leaves a config no start can read, and cmd_run exits with 1 (src/main.rs:929-935) before it reaches anything that could put config.toml.pre-restore back. crates/bbs-core/src/restore_apply.rs:10-13 says "A restore that can't be applied must never stop the process from starting. The service runs under `Restart=always`, so exiting with the pending file still in place is a crash loop". (`crates/bbs-core/src/restore_config.rs:232`)

Met in the same way and left without a run of their own:

Accounts
- Two Sysops who demote each other at the same moment both count two Sysops (`host.rs:5741`) and
  none remains; `SysopRemains` is checked with one command at a time. The last Sysop may also be
  banned by `admin_update_user`, which counts Sysops only when the level changes (`host.rs:1354`).
- `UserStore::update` reads the row and writes it back in another statement (`user_store.rs:330`), so
  an update that overlaps a ban may write the old status back.
- BAN and TIMEOUT at the same moment both pass the check at `host.rs:6038`; the ban may end up with
  the timeout's expiry. UNBAN and TIMEOUT at the same moment may leave a ban without an expiry,
  where `docs/CLI.md:677` promises that a timeout ends by itself.
- TIMEOUT accepts a deleted account (`host.rs:6038`), which is Active when the timeout has elapsed,
  against the one-way states of `user.rs:44-48`.
- A login already past its check binds the session after the ban removed the account's sessions;
  the next command logs it out again (`RepliesNeedStanding`, `AuthorityIsFresh`). A login held for a
  forced password change is not checked again when it completes.
- The password reply does not look for a deleted account: deleted between LOGIN and the reply, it is
  still let in, and its next command logs it out.

Plugins
- After `restart_plugin`, the exit of the old process is heard with the plugin Running again, is taken
  for the new one's and stops it (`manager.rs:622` finds the plugin by name).
- A process that exits before its handle is registered goes unnoticed (`manager.rs:278-279`,
  `manager.rs:628`) and stays shown Running.
- `restart_plugin` of a disabled plugin starts no process (`transport.rs:251`) and shows it Running;
  so does the crash restart of a plugin disabled during the delay. `set_enabled(true)` then finds a
  handle and does nothing.
- `set_enabled(false)` while an earlier `set_enabled(true)` or `add_plugin` is starting the process
  is overwritten by Running when that start is stored (`manager.rs:501`).
- A start that fails after another one has succeeded marks the plugin Stopped or Crashed while its
  process runs (`manager.rs:511`, `manager.rs:563`).

Restore
- With the web and the CLI staging at once (`Overlap`), the staged config may be one's and the staged
  database the other's.
- A CLI that confirms while the start-up copies an earlier pending file (the fallback of a failed
  rename) may see its own confirmed restore removed with it.
- A live database that cannot be opened keeps its commits in a WAL that is set aside as it is. If the
  machine stops then and the next start rejects the backup, nothing puts that WAL back, and the sweep
  deletes it; only the snapshot has the commits. `AbstractRestore` counts such a database as damaged.

Rooms and messages
- `.KD` refuses the first three built-in rooms only (`host.rs:6552`); `docs/OPERATIONS.md:797` says
  that none of the five can be deleted. Deleting the guest room leaves `guest_room_id` pointing at it.
- Names that differ only in case both exist when one is created by the web, whose request looks
  nothing up. `admin_update_room` reads a row and writes it back later, and may undo another update.
- `verify_room_walk_order` accepts a table whose rooms all lie on one closed cycle, which has no head to
  start from; `NeighboursAgree` does not exclude it either, `OrderPromise` shows that none is made.
- The repair of a reset mail pointer takes the oldest message (`host.rs:4830`) where the comment above
  it speaks of the newest (`host.rs:4825-4828`).
- When the first message of a room is deleted with pointers on it, they become NULL, which counts as
  caught up: unread messages behind it are not offered by N.
- E in Mail from the reading mode without a current message posts into Mail as if it were a room; "E
  bob" there prompts for a body without a workflow. `S` and `.FF` do nothing for Mail. The count of
  messages hidden by blocks never counts mail. G says that nothing is unread when the first page is
  blocked and a later one is not.
- A draft begun in a room is still posted after the room became read-only for its author's level.

Radio
- A verdict lost in an outage leaves its record in `awaiting_sent`, and every later verdict is
  credited to the send before its own: `RepliesSettle` and `VerdictsMatch` hold until then
  (`lostVerdict`), and the at-least-once of `send_tracker.rs:21-24` does not hold across outages.
- A send the radio refuses (CRC 0) is not retried, though `send_tracker.rs:83-84` hands its record
  back for that.
- A stale session key is answered `Ok("Unknown session.")` (`host.rs:3979`), not the error that
  `transport.rs:2695-2696` and `worked_example.rs:125-126` describe. The transport therefore looks
  for that text.
- A message that triggered a refresh runs again when it is repeated: the fresh entry has not recorded
  it (`OncePerSession` leaves this case out by `retry`).
- Reading mode answers H, ? and D <another id> and stays (`host.rs:3622-3627` for issue #109,
  `host.rs:3640-3644` for #184), and the review queue answers V and B and goes on to the next account
  (`host.rs:3789-3803`); the transport takes each of these answers for the end of the workflow
  (`transport.rs:2963-2975`). Over the radio the node's next line is therefore read as a command, not
  as a reply: what `host.rs:3622-3626` says ("stays in the reading sub-mode rather than bouncing the
  user out") does not hold there, unless the line is one the commands take too. A storage error within
  a reply does the same; "E <recipient>" without text in Mail (`host.rs:5366-5371`) does the opposite
  and leaves a prompt without a workflow. `FlagsAgree` names these cases by `astray`.
- A logout leaves the credential, and a later message logs the node in again, when the bus does not
  know the node's key, when `mesh_node_unbind` fails (`transport.rs:2953-2956` only warns), or when the
  program stops between the answer and the removal. `LogoutSticks` speaks of logouts that removed it.

Contact protection (the cases `excused` stands for)
- The re-check before a removal and its `try_send` are two steps (`advert.rs:721-728`): a protection
  in between is removed from the radio. Likewise a protect frame queued after its protection was
  undone, a removal dropped because the channel is full, and one that a protection voided which is
  then reverted.
- A removal that fails on its way to the event loop (`transport.rs:2460-2465` only warns when the one
  for an evicted contact fails) leaves the radio's contact a favourite no record speaks for. The model
  delivers every removal to the loop and loses it only there, so `FavouriteIsKnown` says nothing of it.
- A revert does not restore `unprotected_at`, so a late contact frame brings a deleted favourite back.
- A frame that fails to be written, is refused by a full radio table or is held by an outage longer
  than the grace window leaves bus and radio apart; `advert.rs:701-704` says that a dropped connection
  reverts, but MeshCore's path reverts only on a full channel.
- The evicted contact whose successor's frame found no slot; an evicted contact that writes again
  before its removal is sent is removed in mid-conversation when the cap is full.
- `clear_unprotected` drops a record with its unprotect stamp, and its generation restarts at 0.
- After a restart a short advert makes a record without a key; a full radio table reported before the
  contact list arrives may then cost a favourite its place (`advert.rs:841-860`, `advert.rs:930-945`).
- A mark for a node may be cleared by the other task's decision just after it was set, though
  `transport.rs:2606-2621` says there is no gap.
- Nodes leave `by_prefix` only on a refresh, so the list of contacts exempt from eviction only grows.

## 4. Proofs

TLAPS checks, for all values of the constants (any number of accounts, sessions, callers, backups,
rooms or plugins, any bounds):

| Theorem | Module | Property | Says |
|---|---|---|---|
| `Consistency` | `AccountAccess_proofs` |  | The inductive invariant: types, the accesses each command may be at, and the tie between a command in flight and the session it runs on, for every number of accounts, sessions and callers. |
| `TypeCorrect` | `AccountAccess_proofs` | `TypeOK` | Type correctness of the account, session and command state. |
| `WhatCommandsRelyOn` | `AccountAccess_proofs` |  | The history invariant: what each access established about the account stays on record while other commands interleave. |
| `AuthorityStaysFresh` | `AccountAccess_proofs` | `AuthorityIsFresh` | As long as the users table can be read, no command acts on an authority its account did not have since the command began, whatever writes interleave. |
| `RepliesAreOfStanding` | `AccountAccess_proofs` | `RepliesNeedStanding` | As long as the users table can be read, no workflow reply completes for an account barred since before the reply. |
| `LoginsAreOfStanding` | `AccountAccess_proofs` | `LoginNeedsStanding` | No one-shot or node login completes for an account barred throughout the attempt, storage errors included. |
| `LiftsAreOfElapsed` | `AccountAccess_proofs` | `LiftsOnlyElapsed` | A suspension is only lifted from a row that is an elapsed timeout at that instant. |
| `WhatHandlersRelyOn` | `AccountAccess_proofs` |  | The serial invariant: with one command at a time, what a handler read and checked still holds at each of its writes, and how much of a ban or an unban is done. |
| `BansStand` | `AccountAccess_proofs` | `BanStands` | With one command at a time a ban stays, without an expiry, until an UNBAN is under way, unless both TIMEOUT and .DU are used. |
| `TimeoutsEnd` | `AccountAccess_proofs` | `TimeoutIsTemporary` | With one command at a time an account nobody banned is never banned without an end. |
| `ASysopRemains` | `AccountAccess_proofs` | `SysopRemains` | With one command at a time, and a Sysop to begin with, no sequence of bans, deletions and level changes leaves the BBS without an active Sysop. |
| `BarredHoldNone` | `AccountAccess_proofs` | `BarredHoldsNoSession` | With one command at a time, .DU and .PW aside, no session of an account barred by BAN or TIMEOUT is logged in between commands. |
| `RoomTypes` | `RoomOrder_proofs` |  | Type correctness of the rooms table and of the callers at work on it. |
| `NeighboursStayLinked` | `RoomOrder_proofs` | `NeighboursAgree` | Whatever is created, deleted and moved, by any number of callers, the rooms stay one doubly linked list whose neighbours agree. |
| `EveryStartAccepts` | `RoomOrder_proofs` | `StartAccepts` | After any creations, deletions and moves, by any callers and wherever the program stopped, verify_room_walk_order accepts the list: one head, one tail, and a walk that meets every room and ends. |
| `OrderIsKept` | `RoomOrder_proofs` | `OrderPromise` | The table with its walk implements AbstractRooms: every transaction creates, moves or deletes one room in one sequence of rooms and leaves the order of all others, and nothing else changes the sequence. |
| `PointersRestInRoom` | `Board_proofs` | `PointersBelong` | A read pointer rests on a message of its room or on its reader's mail, for any accounts, rooms and messages and any order of deletions. |
| `NothingPassedUnread` | `Board_proofs` | `PassedIsAccounted` | No page and no step of F or R moves the pointer past a message its reader was not shown and did not choose to skip, whatever others post, delete or change between the read and the mark, for any page size and skip. |
| `PagesDoNotRepeat` | `Board_proofs` | `NShowsOnce` | N shows no message of a room twice, whatever is deleted, blocked or posted in between. |
| `PositionStaysHere` | `Board_proofs` | `PositionIsHere` | The reading position is a message of the room the session is in, through every move, deletion and room change. |
| `DispatchStaysSound` | `InboundCommands_proofs` |  | The inductive invariant of a node's dispatch, at each stage of a message: types, the one session, what entry and session agree on, and what a logout leaves once its credential is removed, storage failing or not. |
| `OneSessionPerNode` | `InboundCommands_proofs` | `SessionsMapped` | A node never has a live session its entry does not name, for any number of messages, sessions and restarts. |
| `HostAndEntryAgree` | `InboundCommands_proofs` | `FlagsAgree` | Between messages the transport awaits a reply only for the very prompt the host's workflow is at, or for a prompt that opened none; it awaits none only where the session is in no workflow, or in one that went on after an answer that was no prompt (reading mode's H and D, the review queue's V and B, a storage error). |
| `LateRepliesAreCommands` | `InboundCommands_proofs` | `StageExpires` | No stage of a workflow takes a reply once its prompt is older than the workflow timeout. |
| `PromptsTakeReplies` | `InboundCommands_proofs` | `PromptTakesReply` | What an unstamped sender answers at a standing prompt is never dropped as a repetition, even if it repeats its last message. |
| `LogoutsStick` | `InboundCommands_proofs` | `LogoutSticks` | Once a logout has removed the node's credential, no session of the node is logged in until the node logs in, whatever fails, ends or restarts; a logout whose removal failed or was cut short is left out. |
| `OncePerSessionHolds` | `InboundCommands_proofs` | `OncePerSession` | A stamped message runs at most once on a session while it is in the dedup window and no more than RecentCap messages have come since, for any windows, copies and restarts. |
| `PluginTypes` | `PluginSupervision_proofs` |  | Type correctness of the registry, the processes and the commands at work on them. |
| `NoProcessEscapes` | `PluginSupervision_proofs` | `NoOrphan` | Every process that runs and has not been told to end is in the registry's hands or about to be, for any number of plugins, processes and commands. |
| `FilesFollowRegistry` | `PluginSupervision_proofs` | `FilesMatchRegistry` | Once no command is under way the files name exactly the registered plugins, for any number of plugins, processes and commands, and whatever the two files held at the start. |
| `Invariance` | `RadioLink_proofs` |  | The inductive invariant: the verdicts on their way are those of the recorded sends, in order, and what a reply is made from is in one place, which knows how many copies there can be. |
| `VerdictsAreMatched` | `RadioLink_proofs` | `VerdictsMatch` | Until a verdict is lost with the link, each is credited to the send it is about and each confirmation finds its own, for any users, notifications, channel sizes, attempts and outages. |
| `CopiesAreBounded` | `RadioLink_proofs` | `CopiesBounded` | No reply is put on the wire more often than the cap allows, even after verdicts were lost and later ones credited to other sends. |
| `RestoreTypes` | `RestoreApply_proofs` |  | Type correctness of the files, the configs, the snapshots and the commands at work on them. |
| `NoForeignWal` | `RestoreApply_proofs` | `WalBelongs` | No WAL ever lies beside a database it was not written for, through any crashes, failed operations and retries. |
| `FilesKeepPromise` | `RestoreApply_proofs` | `RestorePromise` | The files implement AbstractRestore: the data changes by the service's own commits or, as a whole, to a confirmed backup, for any backups and any number of restores, crashes and failures. |
| `MachineKeepsItsOwn` | `RestoreApply_proofs` | `MachineStays` | The machine-specific settings are never the backup's. |
| `ConfigsStayPaired` | `RestoreApply_proofs` | `ConfigPairs` | If the web and the command line do not work at the same time, a confirmed config is the confirmed database's, or one whose removal failed. |
| `ReplacedCanBeHadBack` | `RestoreApply_proofs` | `ReplacedIsSaved` | What a restore replaced opens, commits and WAL and all, from a snapshot that pruning keeps. |
| `Invariance` | `ContactProtection_proofs` |  | The inductive invariant: records and their generations, what the radio's table will say once the frames on their way are through, what may still be reported of it before, and who will decide on whoever is marked. |
| `ProtectedIsFavourites` | `ContactProtection_proofs` | `ProtectedIsFavourite` | Once the frames are through, whoever the bus protects is a favourite of the radio, for any nodes, cap, channel and table sizes, messages and outages. |
| `FavouritesAreKnown` | `ContactProtection_proofs` | `FavouriteIsKnown` | Once the frames are through, no favourite of the radio whose record is complete passes for unprotected. |
| `MarkedHadDecisions` | `ContactProtection_proofs` | `MarkedHadDecision` | Whoever is still marked at rest, with a complete record, had a decision since the message, in whatever order message, mark and record came. |
| `OnlyOwnReverts` | `ContactProtection_proofs` | `RevertsOwn` | A protection whose frame was queued is not taken back by the revert of another attempt. |

Assumptions: the constants' `NoExpiryAssumption`, `AccessAssumption`, `PluginAssumption`,
`BoundsAssumption`, `RestoreAssumption`, `BoardAssumption`, `InboundAssumption`, `DepthAssumption`,
`NodesAssumption`, `TimeAssumption`, `AttemptsAssumption` and `ChatterAssumption`, which the modules
declare and TLC evaluates, and what the theorem's own ASSUME names.

**Accounts.** `TypeOK` is not inductive. A step's new value depends on which kind of command is at
which access and whose account it acts for, so `SafetyInv` adds, per caller, `OwnOK`: the accesses its
command may be at (`StepFits`), that a command past authentication acts for the account its session is
logged in as (or the session was taken from it), that a login runs on a session nobody is logged in
on, and that a workflow belongs to a session of the right kind. A step of caller `t` restores
`OwnOK(t)` itself, one lemma per action, and disturbs no other caller's: `Frame(t)` says that it may
end or re-level other sessions and never gives one to another account.

The properties about authority need the past. `HistoryInv` adds that `since` holds whatever is true
now (every write to a row is recorded for all commands in flight), that it only grows, and for each
access what it established: past the standing check the account was Active at some instant, past the
level read `lvl` is a level it had, past the policy check open access was on, past a login's checks
the account was Active during the attempt. The four properties follow in a step each.

`AuthorityStaysFresh` and `RepliesAreOfStanding` assume `~StorageErrors`: `account_barred` and
`session_auth_user` let a command through on the cached level when the row cannot be read, so with
failing reads they do not hold, by design. `LoginsAreOfStanding` and `LiftsAreOfElapsed` hold with
storage errors.

What a ban or a level change means once it is done cannot be had with two commands under way (a ban
and a timeout may both pass the same check, an update may write an old status back: section 3), so
the four serial properties assume `Serial`: one command at a time, no storage error (the second
statement of a ban may fail after the first) and no admin request that sets a status outright, whatever
the account's is. Sessions still open, end and are killed and the clock still moves between any two
accesses. `SerialInv` adds to `SafetyInv` that what the command has read is still so (`Given`), that
the checks made of its target still hold (`Judged`: the target is no Sysop, is not banned, or another
Sysop is left), and how far it has come (`Applied`, `Welcome`): a ban between its two statements is
Banned, after them permanent, and its sessions are gone before its audit row is written. `BansStand`
also needs that TIMEOUT and .DU are not both used, and `BarredHoldNone` that neither .DU nor .PW is;
without these two assumptions TLC finds `BanStands` and `BarredHoldsNoSession` violated, by the ways
listed in section 3.
`ASysopRemains` needs a Sysop to begin with.

**Plugins.** `NoOrphan` alone says nothing of the handles requests and exit loops hold between two
locks. `PluginInv` adds that a handle belongs to one plugin, that whoever is about to store one holds
a started handle of the plugin it will store it under, that no two exit loops hold the same heir, and
that a handle taken out of the registry has been told to end. `FilesMatchRegistry` speaks of instants
without commands; `FilesInv` says which command will set right what differs until then (`RunFits`:
the drop-in file of a removed plugin waits for that removal's unlink, everything else for any save),
and for start-up what is still to be loaded (`BootFits`), from any content of the two files.

**Rooms.** Each transaction rewrites up to five rows. That neighbours agree does not say that the
list holds every room: a ring of rooms beside it would agree too, while the walk would miss it and the
start-up check refuse it. `Linked` therefore says that there is one sequence of all rooms, each once, in
which every row names the rooms before and behind it, and that this sequence is the walk from the head
(`WalkOrder`). Each transaction makes a sequence from a sequence, and two lemmas carry them all: the
neighbours stitched together leave the sequence without the room (`DetachedChain`), and a room put
between two others is in it there (`InsertedChain`; a creation puts it behind the last, a move to the
head before the first).

That walking a chain meets its rooms in order (`WalkOfChain`) is an induction over a recursive
function. The library's induction theorems take an operator and cannot be used; its theorem that every
nonempty subset of a well-founded set has a minimal element takes sets, and gives the least position at
which the walk would differ from the chain, where one step of the recursion contradicts it.
From `Linked` follow `NeighboursAgree`, `StartAccepts` (`verify_room_walk_order` reaches the room no
other points to, every room, and an end) and `OrderPromise`: each transaction is a `Create`, `Move` or
`Delete` of `AbstractRooms`, everything else leaves sequence and history alone. `WalkOrder` and the
operators of `AbstractRooms` are written with `SubSeq` and positions, not `SelectSeq`, which the
provers cannot compute with.

**Reading.** The run's invariants speak of pointers and positions, not of what a command knows when
others come between its statements. `BoardInv` adds it: a page is read after a point up to which
everything is accounted for and behind which everything shown lies; a mark is a message of the room, if
both are still there, and what it passes and has not been seen is in `pass` (`TaskFits`). That a page
is the beginning of what follows the pointer is a counting lemma (`FirstIsBeginning`), and that F
passes hidden messages only follows from it (`StepPasses`). Steps of the tables need one argument for
all commands in flight (`Evolves`: ids only grow, a message keeps its people, and its room unless the
room is deleted); what is left for a deletion is where the pointers that rested on the message go
(`RescuedFits`), for a mark that the pointer moves up to it (`MarkStep`).

**Restore.** `FilesInv` says where the files can be at each point of the start-up: the web works only
while the service runs (`WebInside`); nothing but an upload that is still being staged can be lost
with the power (`OnDisk`); staged and pending files are whole backups (`WholeBackups`, `ToInstall`);
the database is there except between its removal and the install (`LiveDb`); the WAL belongs to it
and is gone while another is being installed (`WalInv`). Steps of the commands leave the service's
files alone and the other way round (`RestorerLeaves`, `StartingLeaves`), which halves the cases.
With it `FilesKeepPromise` shows the initial state and each step to map to a step of `AbstractRestore`
or a stutter, crashes and failing operations included. `ReplacedCanBeHadBack` needs that the snapshot
under way opens as what the start found (`SavedInv`) and that pruning keeps the newest. `ConfigsStayPaired`
assumes `~Overlap`: with the web and the CLI staging at once it does not hold. A config whose removal
failed may meet another database, so its invariant (`Out`) says of each config that lies where it
should not that it is in `stuck`. `stranded` stands in no invariant: it only excuses `StartsUnlessStranded`.

**Commands.** The run's invariants speak of the instants between messages; `InboundInv` says what
holds while one is being dispatched. `MappingInv`: the only live session is the entry's and the one
the message runs on, and only a dead session is refreshed. `FlagsInv`: entry and session agree on
stage and timer (`Agree`), after the answer for the entry as `UpdateAwaiting` will leave it; and a
message is taken for a reply only at a prompt that stands (`Suits`), which gives `StageExpires`
because both sides keep the same timer. `LogoutInv`: after a logout that removed it there is no
credential, and no session that is logged in, until a login is answered. `OncePerSession` needs `DedupInv` besides:
a message that ran on the entry's session is either among `recent`, with the time it came and only
messages that ran since behind it, or out of the window, or more than `RecentCap` others have come
since (`Remembers`). The message being dispatched is the last in `recent` before it is in `log`, so
the invariant counts it in (`Pending`); what is in `recent` is distinct, so one that falls out leaves
`RecentCap` others behind; and a fresh session has run nothing. TLC checked `DedupInv` on two small
instances before it was proved.

**Contacts.** The run's invariants speak of the instants when nothing is under way between bus, tasks
and radio; until then bus and table may disagree in many ways, and `Inv` says in which. `Generations`:
a task between its commit and its frame holds the number of its own transition, which nobody else
holds and which is not the one whose frame was queued (`Numbered`); `OnlyOwnReverts` follows.
`Agreement`: what the table will be once the frames in the channel have been taken is decided by the
last frame about the node (`Favoured`), and who is protected will be a favourite or is owed the frame
by the task that holds the latest transition (`Kept`), who is not will be none or is being removed by
somebody (`Released`). A report that was made before such a frame arrives may say the opposite
(`MayHearTrue`, `MayHearFalse`), and then the stamp of the running grace window keeps it out; the
window ends only when nothing is left under way. `Marks`: of message, mark and record, whichever comes
last finds the other two, so a marked sender with a record has had a decision or somebody is on the
way to it. Nodes a fault came between the two for are `excused`, as in the properties. There is one
lemma per action, and most actions leave most nodes alone (`PlainStep`, `MoveKeeps`, `AsideKeeps`).

**Radio link.** Verdicts are matched to sends by order alone, so `VerdictsMatch` relates the tracker's
queue to everything on its way from the command channel over the radio to the event loop. `InStep`
says so with an increasing bijection from the queue to the places of the verdicts on that path, and
four lemmas suffice for all steps: frames that are no verdicts may join or leave anywhere (`Silent`),
the radio's answer takes the place of the text (`Replaced`), a send is recorded as its text joins the
end (`Recorded`), and the first verdict on the path is about the oldest send (`Answered`). With types
it is inductive. `CopiesBounded` is not: the tracker's CRCs say nothing of how often a reply went out,
and after a lost verdict the table may hold a send under another's CRC. `Once` follows what a reply
is made from instead: the message to come, in the radio's queue, on its way, the hand-over, the text to
be sent, the record of its last transmission are one thing that moves from place to place
(`At`, `Moves`), a retransmission included, and `Within` says that it knows how many copies there can
be, through outages and misattributed verdicts.

Only model-checked: liveness (`BarredIsLoggedOut`, `ExitIsAnswered`, `StartsUnlessStranded`, `RepliesSettle`,
`QueueDrains`), which is out of the prover's reach. Every invariant, every action property and both
refinements the runs check are proved.

## 5. Not modelled, and why

Every component, with what is left out of it:

- host: sessions and account standing (partly): process_command's guards, session authentication, login, moderation, the admin account API, the session map and the workflow slot of a session; registration, the login throttle and HELP/WHOAMI/WHO (which change no standing) are left out.
- host: access policy and guest room (partly): OPENACCESS/CLOSEACCESS and what the policy grants to unvalidated accounts; choosing the guest room and writing the policy back to config.toml are not modelled yet.
- host: rooms, reading and composing (partly): The commands that read, walk, compose, delete and block, over the tables they use, and that the workflow ends with the session. Left out: sysop mail and canned texts, SCAN and the room info displays, profile fields, and the stamps and headers of a message.
- users table (partly): Every statement that writes status, level or expiry, and the must-change flag; names, timestamps, password hashes and node bindings are data no property reads.
- rooms table (modelled): Every transaction on the list of rooms and the start-up check; names and descriptions are compared, not read.
- messages, read pointers and blocks (partly): Posting, deleting, the pointers and the blocks, and what the page queries return; searching and the counters of the statistics page are left out.
- database connections (partly): One write connection, a statement at a time, and a read pool that sees the last commit are what every module takes for granted; opening a database and checkpointing its log are in RestoreApply. The delivery table has no reader yet and the audit rows are a set in AccountAccess.
- restore (partly): Staging, confirming and applying a backup with every file operation a step, crashes and failing operations, by the web and by the command line. Downloading a backup and reading the archive are left out.
- backup bundle, audit archive, disk space, directory permissions (not modelled): File I/O and archive formats; RestoreApply takes a bundle as a pair of a database and a config.
- config lock and config editing (not modelled): An flock around each read-modify-write of config.toml, after which the writers are serial; mesh_name is a byte-length rule.
- plugin API (not modelled): Traits and data types; the command parser is a pure function of text, exercised by its own tests.
- advert bus (partly): The records of one transport with their protection, every operation of MeshCore and of the web on them. Names, places and times heard are data no property reads; the Meshtastic entry points (records by node number) are left out.
- MeshCore transport: sending and receiving (partly): Event loop, command worker, send tracker, retransmission and notifications over their three bounded channels; contact protection with the radio's table, and the catch-up requests. Key, channel and config requests and presets are left out.
- MeshCore transport: commands and sessions (partly): dispatch_message with the session table, for one node: deduplication, the awaiting flag and its timer, refresh and retry, the stored credential. Each node has an entry of its own and messages are dispatched one at a time. Configuration, presets and metrics are tables and counters.
- MeshCore companion link (partly): The reconnecting client and its channels; frame encoding and flood scopes are not modelled.
- Meshtastic transport (not modelled): The same shape as the MeshCore transport without its send tracker and its refresh; serial framing and protobuf decoding.
- process plugins (partly): Every command of the registry, start-up and the exit loops, from the start of a process to its exit. The JSON lines between the host and a process, and the sessions it opens, are not modelled.
- CLI transport (not modelled): One session per connection, one command at a time, which is what AccountAccess assumes of every transport; the rest is terminal I/O and device paths.
- web admin (partly): Its account requests, its restore requests and its requests about rooms and messages, as callers of those modules; HTTP routing, its token cache and the monitors are not modelled.
- supervisor and command line (partly): `supply-drop-bbs user ...` is the CLI caller of AccountAccess; the start-up sequence around a restore and `restore` itself are in RestoreApply; the setup wizard and config parsing are not modelled.
- web frontend, contrib and docs (not modelled): A Vue client of the web API, helper scripts and prose.

## 6. Plan

Done: accounts and sessions, restore, process plugins, the room list, reading and posting, the radio
link, commands over radio, contact protection.

Left, in this order:

1. Device requests of the MeshCore event loop (`transport.rs:872-930`, `1013-1030`, `1131-1730`): the
   slots `PendingKeyOp` and `PendingAutoadd` pair an answer with a request by order, as the send
   tracker does.
2. Registration and the login throttle: the first account becomes Sysop on a count that is read
   before the row is written (`host.rs:2592`); the throttle's map is cleared when full.
3. The config lock and the policy's way back to `config.toml` (`host.rs:4733`).
4. The Meshtastic transport, as a second instance of the session entry without refresh.
