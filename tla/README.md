# Bunkerbox, checked

TLA+ models of [bunkerbox](../src), which runs an AI agent in a Kata VM and lets
selected commands through to the host. The modules are translated from the Rust
source; `PROJECT.json` maps each definition to the lines it stands for.
Paths below are relative to `src/`.

## 1. The system

```
 guest VM                        host
 --------                        -----------------------------------------------
 app ── bunkerbox-vscomm ─vsock─► daemon (parent) ─► [bwrap ─► netrelay ─►] command
  │                                                        │            │
  └── bunkerbox-status ──vsock──► status listener (parent) │            ▼
                                     │                     ▼      filter proxy
                                     ▼               overlay workspace
                     terminal UI (parent) ◄── status socket ──► child: sudo, workspace,
                                     ▲                          home, container,
                                     │                          sync and seal at exit
                                   user
```

| Component | Source | State | Operations | What is hard | What makes it correct |
|---|---|---|---|---|---|
| Passthrough daemon | `src/daemon.rs` | per call: event channel, held-back output, bwrap's verdict | accept, validate, spawn, relay, reap | four tasks and a process meet in one queue; background processes hold pipes open; clients vanish | output complete and in order, exit status true and last, a refused launch silent, every call answered |
| Guest client | `src/bin/bunkerbox-vscomm.rs` | a connection | send, print, exit | connection lost half way | the caller's exit status is the command's |
| Network relay | `src/netrelay.rs` | a listener, a command | start, relay, fail | shares stderr with the command | its own words stay out of the stream |
| Filter proxy | `src/proxy.rs` | an accept task, a task per connection | bind, filter, resolve, connect, copy, stop | half-closed connections over two hops, names that change, ends that vanish | connects to what it checked, loses and invents no data, lets go of what has ended |
| Copy-on-write workspace | `src/overlay.rs` | upper layer, `sessions/` files | setup, sync, drop | manual sync, exit and writers overlap; crashes leave files | what was written reaches the repository, nothing else is removed |
| Persistent home | `src/kata.rs` | home, `.enc-cipher` files, `session.img` | unseal, recover, fill, copy back, seal | a crash between any two files; mtimes decide | nothing lost, the newest shown, sealed at rest |
| Bridge firewall | `src/kata.rs` | one iptables chain of the host | install, remove | shared by all runs, built rule by rule | a run never has more network than its list |
| Launcher | `src/main.rs` | two processes, a setup thread, two sockets | fork, hand over, wait, shut down | every part may fail first | takes down what it started, tells the truth, ends |
| Terminal UI | `src/tui.rs`, `src/tui/popup.rs` | one popup, delayed actions; raw mode, capture, size of the user's terminal | poll, read, answer, route keys, resize, show, end | two sources of commands in one popup; signals between any two calls; reads and blocking writes on the same PTY | secrets stay hidden, answers belong to their prompts, the terminal follows the app and is given back |
| Terminal emulator | `src/tui.rs` (`Term`) | an escape state, character sets, modes | translate, answer, encode keys and mouse | a read ends in the middle of a sequence | the stream means what it would uncut |
| Status socket | `src/logging.rs` | a descriptor per thread | log, prompt | answers matched by order only | as above |
| Guest status command | `src/bin/bunkerbox-status.rs` | – | send | one connection per command | the overlay goes when it should |
| Project configuration | `src/cfg.rs`, `src/cfgsetup.rs`, `src/vscomm/buildsys` | `project.conf`, `env.conf` | load, make, migrate, complete, check, ask | read three times in a run by two programs, rewritten by loads, broken off | the user's choice rules, the guest's links fit it |
| Workspace modes | `src/workspace.rs` | – | resolve, prepare | – | – |
| Runtime configuration, profiles | `src/cfg.rs`, `src/sandbox/mod.rs` | – | parse, merge | – | merges keep every entry |
| Image tool, setup sequences, wrappers | `src/bin/bunkerbox-image.rs`, `src/cmdrun.rs`, `src/wrap.rs` | – | run external programs | – | – |

The components interact as follows. The launcher (parent) forks; the child asks
for sudo over the status socket, sets the workspace up, sends its path through
the handoff socket and runs the container. The parent's setup thread waits for
that path and starts the daemon in the same directory. Commands of the guest
reach the daemon, which writes into the overlay's upper layer; when the
container ends, the child copies the home back, seals it, and the drop of the
workspace brings the upper layer into the repository. Only then does the parent,
which sees the terminal close, stop the daemon. `bunkerbox sync` is a process of
its own that shares the files of `.bunkerbox/sessions/` with the drop. The list of
commands comes from the repository's `project.conf`, which the parent loads for the
daemon, the child for the workspace, and the guest for its links.

## 2. Modules

| Module | Models | Checked with |
|---|---|---|
| `CommandRelay` | abstract: what a passthrough call promises its caller | refined by `ExecSession` |
| `ExecSession` | one call: client, connection handler, two pumps, bwrap monitor, host process | `MCExecSession` |
| `ExecSession_proofs` | theorems about it, and that it implements `CommandRelay` | TLAPS |
| `CowWorkspace` | the workspace over several sessions, with manual syncs | `MCCowWorkspace` |
| `CowWorkspace_proofs` | theorems about the sync at exit, the manual one and what a sync removes | TLAPS |
| `HomeSession` | the persisted home over several runs | `MCHomeSession` |
| `HomeSession_proofs` | theorems about its versions: what is lost, found, rolled back, left at rest | TLAPS |
| `StatusOverlay` | popup, prompts, keys, guest commands | `MCStatusOverlay` |
| `StatusOverlay_proofs` | theorems about prompts and errors | TLAPS |
| `TermParser` | the filter ahead of the terminal emulator, keys and mouse (operators) | with `TerminalLoop` |
| `TerminalLoop` | the event loop between the user's terminal and the app | `MCTerminalLoop` |
| `TerminalLoop_proofs` | theorems about the stream, its queries, the mouse capture and its reports | TLAPS |
| `ProjectSetup` | `project.conf` over several runs: loads, migration, wizard, links | `MCProjectSetup` |
| `LauncherRun` | the processes of one run and their shutdown | `MCLauncherRun` |
| `LauncherRun_proofs` | theorems about its shutdown and its result | TLAPS |
| `FilterProxy` | one connection of a command through relay and proxy | `MCFilterProxy` |
| `FilterProxy_proofs` | theorems about the addresses it connects to and the data it copies | TLAPS |
| `BridgeFirewall` | the egress chain of the host, under several runs | `MCBridgeFirewall` |
| `BridgeFirewall_proofs` | theorems about it | TLAPS |

Definitions marked *Slip* in a module are mistakes the code does not make; each
shows that a property would notice one (`mutants` in `PROJECT.json`).

### ExecSession

`handler` is where `handle_connection`/`execute_request` stands; `launched`,
`failed`, `closed`, `buffered` are its local variables; `events` is the mpsc
channel, unbounded as in the code; `wire` the connection. `Handle*` are the arms
of the `match` on a `ChildEvent`, `LoopDone` the condition of its loop, `Pump*`
and `Monitor*` the spawned tasks. The actions of bwrap, the relay and the
command are what they can do with the descriptors they are given. `mode` chooses
between a command without profile, with one, and with relay. A request is
accepted, denied, invalid or malformed; what makes it so is data.

### CowWorkspace

Each file of the walk is a step (`SyncFile`), then `Prune` removes what the old manifest
had and the upper layer no longer has, `SaveManifest` ends it; the same steps serve the
manual sync (`job["cli"]`) and the one at exit (`job["exit"]`). `drop` is the iteration over
`sessions/*.json`, which takes a manifest for one more session, as the code does, and syncs
once more for it: that leaves a manifest of the manifest, `<app>-manifest-manifest.json`, which it
may meet in turn. `Entry` numbers this chain. It ends where a file name cannot be longer and
`save_manifest` fails: after some 27 generations of nine characters each, here after `Longest`.

The overlay is the kernel's (src/overlay.rs:65-89). It marks a deleted file with a character
device under the file's own name and a replaced directory with an extended attribute. The walk
looks for devices named `.wh.*` (381-400), passes over every other device and reads no attributes, so
it never sees either: in `upper` both are `Absent`, and the branch for `.wh.` names and
`delete_opaque_lower_files`, which only they reach, have no action. A deletion comes over only by the
manifest, for a file that a sync of the session has met before (`brought`); a file that was
in the repository from the start stays there (section 3).

Restrictions: files are regular ones outside `.bunkerbox` (the walk skips symbolic links, 402-404,
and that directory, 360-362); the directory listing of a walk is taken at its start; no
setup runs while a manual sync does. `SetupFails` leaves the new mount or not, wherever it fails.

### HomeSession

A file is a version and a modification time. Unsealing, filling, copying back and
sealing visit one file per step, each with the moment between writing one file
and removing another, and `Crash` may come between any two steps. `session` and
`key` say whether a run has an image and a passphrase. Every unmount and removal whose
failure the code ignores may fail (`Discard`; `DiscardTree` with the `rm -rf` of a mount point
that may still be mounted): then the image stays, whole or emptied, mounted or not, and the run goes on. An
image removed while it is mounted counts as gone, since the next one is mounted over it.

`spared` is history. It is false once a run without an image has begun beside a leftover one, a run
without the passphrase beside sealed files, once a copy has failed or was cut short, or a mount
has outlived its run. `NothingLost` and `AppSeesLatest` speak of what was spared all that; section 3
shows what is lost otherwise. `SealedAtRest` speaks of the home alone, not of an image that stayed.

### StatusOverlay

`toTui`/`toChild` are the two directions of the status socket, `overlay` is
`OverlayState`, `Dispatch` is `dispatch_ui_command`. Spinner, progress and message
popups are one kind, "info": no property tells them apart. `ChildAsks`/`ChildReads`
are the halves of `prompt_password`; `UserTypes`, `UserEnters` follow
`handle_password_key`; `ListenerApplies` is the task spawned for one command of
the guest. `ConstantsOK` says what the guest sends: messages and hides, with a text to wait
for or without, at once or delayed. That is what `bunkerbox-status` sends for the commands of the
hooks; a program of the guest that writes frames of its own is not modelled. Time is abstract: a delay ends some time. Two intervals of the code
are taken at their word: the 500 ms a failing child sleeps, and the boot of the
guest, empty the socket (both are tens of turns of a loop that polls every
16 ms). Left out: the error toast, and the trigger on PTY output, which no tool
of the repository sends.

### TermParser and TerminalLoop

`term` is the struct `Term`; `ProcessByte` is one round of the loop of
`process_bytes`, with an operator per `EscapeState`, `CsiComplete` its
`handle_csi_complete`. A byte is a string, and so is the number of a mode. The
vt100 crate behind it is external: `fed` is what it was given, and since the cursor
is where that has brought it, the answer to a query holds how much was fed.
`MouseNumbers`, `LegacyBytes` and `KeyBytes` are `mouse_to_bytes` and `key_to_bytes`.

In `TerminalLoop`, `pc` is where `event_loop` stands: `SeeResized`, `ReadSize`,
`ApplySize` (the signal may come between any two), `Poll`, `ReadPty` (any part of
what is there), `WriteAnswer`, `ReadTty`, `Draw`. `outer` is the user's terminal as
raw mode, alternate screen and mouse capture leave it. The PTY holds `PipeCap` bytes
to the loop and `UnreadCap` writes to the app; a write blocks while it is full.
`CleanUp` is `cleanup_terminal`, each step of which may fail unseen: `failed` is history and
remembers which did. `tty` and `held` are the events before and inside crossterm, one read of which takes
up to `Burst`. The dialogs are `StatusOverlay`'s; here no dialog takes the keys.
What the app writes is any prefix of a script, cut into reads in every way. `Meaning`
says, item by item and without a parser, what a script asks for; `WellFormed` says which
items it is about. `StreamUnderstood` and `QueriesAnswered` compare the two.

### ProjectSetup

`conf` and `legacy` are the two files; `Torn` is a file cut to nothing, between
the halves of `fs::write`. `pc` is where each run's `load_or_create` stands: `Look`,
then `Read`, `Migrate` or `Create`, then `Cut` and `Fill`, then `Check`. The first
load is the launcher's (`rule` is what the daemon gets), the second the child's, for
a copy-on-write workspace; `Boot` is `bunkerbox-vscomm install`, whose reader (`LinesOf`) is
another one: it takes a list an item a line, as the program writes it (`style` "block"). One that is
written in a single line ("flow") it does not see; single quotes, or comments behind the items
("quoted"), it takes for a part of the name. A list has one style for all its items. An entry is a
name with any arguments, some or none; links under names that are no command's are not kept. `rest`
stands for quota, excludes and overrides. A write may fail (`WriteFails`, which ends the load;
`FillFails`, which is ignored), before the file is cut, or after if `MayTear`. `Written` is `to_yaml` and
`Parsed` the parser: what begins with a star is written unquoted and is not read
back. `choice` and `want` are history. While one process loads, another does not
(`Overlap = FALSE`): the loads of a run are apart by construction, those of two runs
by the user.

### LauncherRun

`parent`, `child` and `setup` are the program counters of the two processes and
the setup thread, `writeEnd` who still has the child's end of the handoff socket
open. `free` is the set of vsock ports the run finds free. An error of the child
before `kata::run` (`ChildGetsStuck`) returns into `run()`, whose tokio `Runtime`
is dropped in a process that the fork left without its worker threads; the drop
waits for them. That the drop waits is tokio's documented behaviour, not code of
this repository.

### FilterProxy

`hop` says where the relay's and the proxy's task of this connection stand,
`queue` what is on the three sockets between client and server. `Copy` is one
step of tokio's `copy_bidirectional`, the same code on both hops: an end of file
is passed on as the end of that direction, both ends finish the task, a failed
write ends it at once, and its sockets close (`Closes`). `ProxyReads` to `Greet`
follow `handle_client`. One connection is modelled: the tasks of different
connections share nothing but the immutable allow list. Names are sequences of
labels in lower case, addresses are abstract, `Public` is the set that
`is_public_destination` lets pass, the order of an answer is any order. The proxy
reads the head of a request once: what comes with a second read (`rest`, for the
kinds in `Split`) is not looked at and passes with the data. A client that asks for a
tunnel waits for "200". A connection reset is seen as an end that cuts data off (`cut`).

### BridgeFirewall

`pc` is the `sudo iptables` command a run is at, one action per command of
`remove_bridge_egress_firewall` (`Unhook`, `Flush`, `Drop`) and
`ensure_bridge_egress_firewall` (`Create` to `Fill`); `jumps` and `chain` are what
the kernel holds, for all runs. A command that may fail unseen does so in
`RemovalFails`; one that may not, a failed start and a kill are `Breaks`, which
leaves everything behind, as the early returns of the code do. A destination is
an address with protocol and port; the two rules of a resolver are one.
`FORWARD`'s own policy lets pass what no rule decides. `alone` and `soiled` are
history. Left out: bridged runs without an allow list, and the rules CNI adds.

## 3. Runs

Deadlock is not checked: every one of these systems stops when its run or
session has ended.

| Run | Shows |
|---|---|
| `exec_call` | output conserved, exit truthful and last, refused launches silent, under failures of every side; the call implements `CommandRelay`; every call answered, every handler ends |
| `cow_sync` | two fault-free sessions: written files reach the repository, nothing else is removed |
| `cow_faults` | one session with crashes, failing copies, commands that outlive the container and a manual sync at its end: an undisturbed manual sync still brings over what the agent sees, but for deletions of what no sync has met; the exit always completes |
| `home_runs` | three runs with and without image or passphrase, with every fault: nothing lost and the newest shown, unless by a fault the code does not survive; the home sealed after a good run, though its image may stay; no version goes back |
| `status_run` | prompts against log lines, delayed and concurrent commands: answers belong to their prompts, secrets stay hidden, errors stay shown, prompts are answered, the overlay goes |
| `launcher_ends` | nothing left running, result truthful, daemon outlives the container, the run ends, under every fault |
| `bridge_firewall` | a run alone on the host reaches exactly what it lists, whatever is left of earlier ones; when all have ended well, the kernel is as before |
| `terminal_loop` | streams cut anywhere are understood, queries answered in place, the mouse captured just while the app asks for it, nothing left switched but by its own command's failure, reports true, the last size reaches the app, all it wrote is read |
| `project_setup` | the user's last choice rules the next run across edits, wizard, migration, failed writes and crashes; the guest's links are the daemon's list |
| `proxy_connection` | only checked addresses are connected to; data whole and in order both ways, half-closed or not; clients hear an end; the daemon keeps nothing of an ended command's connection |

Where the code departs from what a document or comment says, a run shows it:

| Run | Departure |
|---|---|
| `cow_stale` | after a crash, the old manifest removes files nobody deleted |
| `project_paranoid` | an empty list in paranoid mode is filled with patterns, which the same load and all later ones refuse |

The same modules show more of these; each follows from the constants and the
property given, without a run kept for it, and each was checked with TLC once. (`AllChangesSynced` states what the
documentation promises and the code does not keep; `WritesReachRepo` is the part
that holds. `NothingLost` is meant without its `spared`.)

| Departure | To see it |
|---|---|
| a deletion of a file of the repository is never brought over, by the exit or a manual sync (comment, src/overlay.rs:324; docs/index.md:52) | `AllChangesSynced`; `ManualSyncIsFaithful` without `brought` |
| an image still mounted by a killed run is thrown away (docs/guides/persistence.md:94) | `NothingLost`, `MountsSurvive = TRUE` |
| a session that only writes dot files is not synced at exit (docs/guides/tutorial.md:211) | `AllChangesSynced`, `File <- HiddenFiles` |
| host commands that outlive the container write after the sync (docs/guides/passthrough.md:57) | `AllChangesSynced`, `CommandsOutlive = TRUE` |
| a manual sync at the end marks later writes as synced (docs/concepts.md:69) | `AllChangesSynced`, `SyncAtExit = TRUE` |
| the upper layer does not survive between sessions (docs/guides/tutorial.md:229) | `Setup` |
| a half-filled image overwrites whole files at home (docs/guides/persistence.md:51) | `NothingLost`, `CopyMayTear = TRUE` |
| the image is removed after a failed copy back (comment, src/kata.rs:880) | `NothingLost`, `CopyMayFail = TRUE` |
| the image stays, secrets and all, if its unmount or removal fails; the run ends well (docs/guides/persistence.md:92) | `SealedAtRest` with `image = "none"` |
| a run with an empty passphrase leaves secrets in plaintext (docs/guides/persistence.md:117) | `SealedAtRest` without `key` |
| the relay's own errors enter the command's stderr (docs/guides/passthrough.md:60) | `RelayFails` |
| the hidden dialog takes Control-C after a refused sudo password (comment, src/tui.rs:545) | `UserInterrupts` |
| a second Enter answers the next prompt with the last password (comment, src/logging.rs:59) | `AnswerFitsPrompt`, `VmScripts <- OneScript`, `InOrder <- Orderly` |
| a second bridged run takes the firewall of the first one away (docs/guides/networking.md:33) | `RejectsAllOther`, `MaxStarts = 1` |
| keys that crossterm has read together wait for the next one (comment, src/tui.rs:545) | `KeysArrive`, `Burst = 2`, `MaxEvents = 2` |
| a window that changes before the handler is installed keeps its old size (comment, src/tui.rs:254) | `SizeSettles`, `EarlyResize = TRUE` |
| a mode of the cursor keys together with others in one sequence is missed | `StreamUnderstood`, a script with `Combined`, without `ScriptsWellFormed` |
| an early error of the event loop leaves raw mode on | `StartFails` |
| an app that reads no more stops the loop, its Control-C included | `LoopServes` without `WF_vars(AppReads)` |
| the rest of a tunnel's head goes to the server | `Conserved`, `Split` = {"connect"} |
| an empty legacy list is migrated to an empty one and is not filled before the second load | `ChoiceRules`, `Legacy <- EmptyLegacy` |
| an exclude like `*.o` is written unquoted, and no load reads the file again | `RefusesOnlyTheUsers`, `Legacy <- Starred`, `Choice <- Starred`, `Answer = {}` |
| the guest links `tool some` as one name and has no link for `tool` | `LinksMatchRule`, `Choice <- WithArguments` |
| a list in one line, with single quotes or with comments is read by the daemon and not by the guest | `LinksMatchRule` without `OwnStyle` |
| two runs that load at once may each read the other's half-written file | `ChoiceRules`, `Overlap = TRUE` |
| a crash or an error inside `fs::write` leaves an empty file and the user's choice is gone | `ChoiceRules`, `MayTear = TRUE` |
| what the app deletes at home comes back (as docs/guides/persistence.md:91 says) | `DeletedStaysAway` |
| two commands of one hook may be applied in either order, the overlay stays (docs/config/hooks.md:33) | `OverlayHides` without `ordered` |
| `popup hide "SEC_2"` waits for that text on the screen (docs/config/hooks.md:42) | `Dispatch` |
| without vsock the run fails instead of going on (docs/guides/passthrough.md:217) | `StartListener` with `free = {}` |

Not in any model: `popup info 'Error' 'message'` (docs/config/hooks.md:67) shows
only its first argument and is not taken for an error; `--on-find` with
`--on-timeout` drops the timeout; the copy of an isolated workspace leaves
`.bunkerbox` out, so that its guest finds no list and links nothing; the wizard
keeps none of the excludes and allowed hosts that were there; `workspace` and
`session_mb` under `image:` are read and not used; after an error of the child the launcher
reports the raw wait status; the password prompt of a failed sudo is not
repeated.

### Bounds

- `ExecSession`: two pieces of output, on one stream or one on each: enough for
  one held back, one in flight, and an order between them. Exit codes 0, 1 and 3:
  success, the client's own failure, another.
- `CowWorkspace`: three files, two plain, one
  behind a dot; two contents, two sessions, three edits, two manual syncs (with
  faults: one content, one session, two edits). A missed write needs two syncs.
  The chain of manifests ends after three (with faults two), so that a manifest of a manifest is
  written, met, and met where none can be written any more; a longer one repeats the middle.
  With faults one session is the bound that matters: a second one meets the
  stale manifest of `cow_stale`.
- `HomeSession`: three files, a secret, a plain one and one the cleanup purges,
  three runs, two edits: a version written, one crashed over, one recovered. An unmount and
  a removal fail in any of them (`CleanupMayFail`).
- `TerminalLoop`: twelve scripts of two or three sequences that use every state of
  the parser and every pair of modes; 8 bytes on the way, so that a sequence
  meets a full pipe; one write unread, one event, two changes of the window: one
  while the other is applied. The mouse stands at the edge of what a byte holds.
- `ProjectSetup`: two runs, three loads begun, two edits by the user or the wizard:
  a file made, changed and read again, by the other run or the same. One build
  system, eight contents of the file, two of them in a style of the user's own, and a legacy list
  in one line. Writes fail (`MayFail`), but not in `project_paranoid`, which is about the program's own
  refusals.
- `StatusOverlay`: both prompts of the program, three scripts of two to four
  guest commands, two pieces per password, one Enter pressed unasked.
- `LauncherRun`: no bound, one run is finite.
- `FilterProxy`: one request, two pieces of data after it either way, so that
  pieces, head and end have an order; three names (below the
  list's with dots at the end, merely ending like it, empty); answers that are
  empty, private, or mix private and public addresses.
- `BridgeFirewall`: two runs with one destination each, started twice: a run that
  broke off, one beside it, and one that finds what both have left.

### Fairness

- `ExecSession`: client, handler, pumps and monitor are scheduled; bwrap and the
  command end; what the command leaves in the background ends (only for
  `CallAnswered`/`HandlerEnds`). The client may vanish, and nothing makes it.
- `CowWorkspace`: the drop and its sync go on; manual syncs and writers need not.
- `StatusOverlay`: processes and tasks get their turns, delays end, the user
  answers a dialog and dismisses an error. Nothing makes the container end, the
  app print or the user interrupt.
- `TerminalLoop`: the loop's calls return (`WF_vars(Turn)`) and the app reads what it
  is sent, even while its own writes wait: an app that stops reading until it has written would
  wait for the loop and the loop for it, which `LoopServes` does not exclude. The app need not write or
  end, nor the user do anything.
- `LauncherRun`: both processes and the setup thread go on, the user leaves the
  app at some time. `RunEnds` excepts two faults under which it is false: an
  error before `kata::run`, which stops the child until it is killed, and an error
  of the event loop itself, after which nobody can type into the app.
- `FilterProxy`: the tasks go on; both ends read what comes and end their side at
  some time. The last is an assumption about servers: with one that never closes,
  the proxy's task stays until the daemon's process ends. Command, daemon and
  server may end or fail early, and nothing makes them.

## 4. Proofs

Each module's proofs use only its `ConstantsOK`, which says what the constants are, and the
hypotheses a theorem names. Every one rests on an inductive invariant, checked with TLC
first, and has a lemma per action or process.

### ExecSession_proofs

For every set of modes and exit codes and any number of pieces:

- `TypesHold`/`TypeCorrect`: `TypeOK` is not inductive alone: the exit code needs an ended
  process to have a status, and the head of the buffer needs draining to have something to
  drain; `TypeInv` adds both.
- `SilenceHolds`/`RefusedLaunchStaysSilent`: a launch bwrap gave up shows its
  caller nothing. The property speaks of what has reached the client; `SilenceInv` follows the
  cause back to its source. `OneVerdict`: at most one verdict exists, in the monitor, the
  channel or the handler. `SilentUntilStarted`: under a profile no output is on the connection
  before the handler has seen the command start.
- `LifeHolds`, `ChannelHolds`, `ExitLast` (`ExitComesLast`): `LifeInv` ties the phases of client,
  handler, pumps and process together. `ChannelInv` accounts for verdict and ends of streams:
  each is with its pump, in the channel, or counted, and just once. So the
  loop ends only when the channel is empty and nobody is left to write to it, and what is
  sent then is last.
- `OutputIsConserved`: what process, pumps, channel, buffer, wire and client hold of
  one stream, read in this order, is what the process has written. That `DataUpTo`, a recursive
  function, lists the pieces of a stream and that it splits over `\o` is proved by
  the least counterexample, from the order of the naturals: induction without a
  theorem that takes an operator. The model has a function there, and no fold, for that.
- `LaunchHolds`, `ReportedHolds`, `ExitIsTruthful`: success is the process's own, and with its
  output; a failed launch is one, in whatever order bwrap writes, ends and is heard.
- `CallMeetsContract`: every step of the call is a step of `CommandRelay` or a stutter,
  `Spec => MeetsContract`. What its steps ask for is `CallInv`, of the results above. (Both
  specifications are without fairness here; the contract has no liveness.)

### CowWorkspace_proofs

`SessionInv` is common to all: the agent sees the upper layer where that has
anything (`LayerInv`), all that a sync or a manifest names is a file the agent has
touched (`TouchInv`), and the rest of the repository is what the agent sees (`Merged`).
It needs `Fresh`: no crash is followed by a session. Without it the old manifest names
files of another session, which is what `cow_stale` shows. `FreshInv` says of a walk that no edit
interferes with that its lists are those of the upper layer.

- `TypeCorrect`.
- `OnlyDeletedRemoved`: no sync removes what is not gone from the workspace. Beside
  `Fresh` it excludes that commands outlive the container while a manual sync overlaps the
  exit: `Calm` then speaks of the manual sync, and an edit that came before it may have
  crossed the other one.
- `WritesArrive`: after the exit every file the agent left is in the repository as it left it.
  A manual sync makes `drop` skip the session's own file, and the manifest, which the same sync
  left in `sessions/`, makes it sync all the same. So `MarkInv` says that a marker never
  comes without a manifest, and `DropInv` that until all is brought over (`Brought`) an unmarked file
  is still to be met (`Waiting`). Its hypothesis `Sound` adds to `Fresh` that no copy fails, no
  command outlives the container and no manual sync overlaps the exit. Each of the four is a
  departure of section 3, and TLC shows `WritesReachRepo` violated without it.
- `ManualSyncFaithful`: after an undisturbed manual sync the repository is what the agent sees, but for
  deleted files that were there from the start and no sync has met, under `Fresh` alone, whatever
  fails. `Recorded`: what the repository did not have at first, or a sync has met, is
  in the manifest, so that its deletion is found. `CalmInv` is how far
  the walk has got with it.

### HomeSession_proofs

For all files, secrets, runs, edits and faults, with a crash between any two steps:

- `TypeCorrect`.
- `SealedHolds`: a good run under a passphrase leaves no secret in plaintext in the home and no torn
  cipher file. (Of its image it says nothing: that stays if its removal fails.) `UnsealInv`: what unsealing need not visit any more is not encrypted. `OpenInv`: so
  nothing is encrypted from then to the end of the container. `SealInv`: so each cipher file
  at the end is one that sealing has written whole.
- `RollsForward` (`NeverRollsBack`): of two copies of a file, in home and image, the later is never
  of an older version (`AgeInv`). A copy keeps the time of what it copies; unsealing, which dates
  a file anew, comes before anything is copied (`OpenedInv`).
- `NothingIsLost`, `AppFindsLatest`, both for the histories `spared` leaves: `KeptInv` says at each step where the last version of each file is:
  home, cipher file or image, and that `cp -u`, which goes by the times, takes it from
  there. `MadeInv` is what a run has made of its image by then, `SparedInv` what `spared` excludes.

### FilterProxy_proofs

- `ConnectionChecked`: whatever the names, the list and
  the answers, the proxy is connected only to a public address out of the answer it
  checked, for a name of the list or below one. `IInv` adds to it the
  order of the steps (`InTurn`: no server before the connection is made, no proxy
  before the relay has dialled) and that what has been accepted stays accepted
  (`Checked`). `SuffixFound` shows that the suffix test of `IsAllowed` means what the
  property says, `LastPlace` that the dots at the end of a name leave a name.
- `TypeCorrect`.
- `FlowHolds` (`Conserved`): what one end sent is at the other or on one of the links between, once
  and in order, both ways, unless a hop broke off. `Balanced` says it of the whole path, with
  what the proxy takes off (`Taken`) and puts in (`Greeting`). Hypothesis: `"connect"` is not in
  `Split`. Of a tunnel's head that comes in two reads the code passes the second on to the
  server (section 3), and the property is false.

### BridgeFirewall_proofs

For every number of runs and starts and all lists:

- `TypeCorrect`: no jump refers to a chain that is not there. `HasRules` is needed
  beside it: a run that still installs has a rule to add.
- `NothingLeft`: when all runs have ended, and ended well, chain and jumps are gone,
  however their commands were interleaved. The invariant `Owed` says that for
  everything in the kernel there is a run that has not yet passed the command
  that takes it away.
- `ExactlyListed`, `AllListed`: a run that is alone reaches what it lists, all of it, and nothing else.
  `Undisturbed` says how far its chain is at each command; `FinishedChain` decides
  what the finished chain lets pass, `MoveHead` that adding a rule keeps the rest.

### LauncherRun_proofs

For all projects, faults and ports, from one invariant. `SetupInv` says what the setup
thread can leave behind (a proxy runs only while it binds or beside a daemon), `ChildInv` what a
status stands for, `ParentInv` what the parent's place says of the others. That the parent
joins the thread before it takes anything down is what makes it hold: from there on
nothing can start a daemon any more.

- `TypeCorrect`.
- `NothingLeft`: a run that has returned has left nothing running.
- `Truthful`: a reported success is one.
- `DaemonOutlives`: the daemon goes only after the child, an action property.

### TerminalLoop_proofs

- `CaptureHolds` (`CaptureFollows`), for every set of scripts of well-formed items and all events: at
  each item's end that the loop has read up to, the terminal captures the mouse just if what the app wrote asks for it, and
  when a started loop is left, what is still switched is what its own command failed for. `Captures`
  says that the capture goes with the modes the parser holds, `SInv` (below) that these are what the
  bytes mean; `Left` follows the switches through `cleanup_terminal`.
- `ReportsHold` (`ReportsDecode`), for every place, button, modifier and encoding: what the app reads
  off a report is where the mouse was and what it did, although a byte holds no place beyond its
  edge and only one of the encodings says which button was released (and, by its last byte, that one was). `ConstantsOK` says what crossterm's events are.
- `StreamIsUnderstood` (`StreamUnderstood`) and `QueriesAreAnswered` (`QueriesAnswered`), for every
  set of scripts of well-formed items, of any length, and wherever the reads cut the output.

The last two, and with them the first, rest on one induction over the bytes. `Midway` says what the parser holds in the
middle of an item (which state, which bytes buffered, whether they have been passed on) and
`Whole` what holds at its end; there is a lemma for each kind of item, that its next byte leads from
one to the other (`TextStep` to `StringStep`, together `ItemStep`). `Understood` is thus defined
at every byte, not only where `HasRead` looks, and a read adds a byte at a time whatever
chunk it came in (`ChunkUnderstood`): the cut does not matter because no formula mentions it.
`SInv` ties this to the loop: `Unread` says the pipe holds the bytes behind those taken,
`Read` that what has been written as answers together with what waits is what `Understood` asks
for, `Quiet` that none waits where the next read would overwrite them.

Their hypothesis, `WellFormed` for each item of a script, is evaluated by TLC on the scripts of
`terminal_loop` (`ScriptsWellFormed`). It leaves out what section 3 shows to be
missed (the mode of the cursor keys together with others) and what is not modelled (an escape
inside a string or a sequence).

### StatusOverlay_proofs

For both prompts and all messages and hides of the guest:

- `TypeCorrect`.
- `SecretsHold`: no piece of a password reaches the guest's terminal.
- `AnswersHold`: an answer is what was typed for its prompt.
- `ErrorsAreSeen`: an error stays on the screen until the user dismisses it. `Reported` follows it from
  the child over the socket to the dialog.

Nothing but order ties an answer to its prompt, so the invariant says where the one conversation is:
`Calm`, or `Asked` (the prompt is last in the socket), `Shown` (the dialog holds what was
typed) or `Entered` (the answer is in the socket), and in each of them all else is
empty. `GuestInv` keeps the guest away meanwhile: it is up only after the last prompt, which
`ScriptOrder` gets from the order of the child's script. `SecretsHold` and `AnswersHold` speak of
runs in which nobody presses Enter unasked; section 3 shows why.

### What is only checked

The type invariants are in no run: those of the eight modules but `TerminalLoop` are theorems
(`TypeCorrect`), those of `TerminalLoop` and `ProjectSetup` were checked with TLC once.

Only model-checked: `ChoiceRules` and `LinksMatchRule` of `ProjectSetup`, for which no
proof has been written; the departures of section 3; and all
liveness properties, since fairness and `ENABLED` are out of the prover's reach.

For some proofs a definition was written in another form. Where the guards of
a `CASE` overlapped, the code's `if` chain is one here as well (`Tracking`, `MouseEncoding`,
`MouseNumbers`, `Look`): a `CASE` leaves open which guard counts. What runs through a
sequence (`ProcessedUpTo`, `Meaning`, `Offset`, `Given`) is a recursive function that gives the result
after each element. That such a function exists, and what it is at the next element,
is proved by the least number at which it would fail (`LeastNumber`, `Recursion`), which takes no
theorem with an operator for a parameter.

## 5. Not modelled

The bytes of frames and paths, the drawing, the arguments of external programs,
runtime configuration, quotas, sandbox profiles, the image tool and the setup
sequences: pure I/O or data. Of the terminal: the vt100 crate; a reset (`ESC c`), which
the filter's own state does not follow; an escape inside a string or a CSI sequence;
a `terminal::size` that fails. Of the configuration: isolated workspaces, and a
wizard that answers a quota with any text. The proxy's address ranges are planned.

## 6. Plan

1. Done: `ExecSession` with its contract, `CowWorkspace`, `HomeSession`,
   `StatusOverlay`, `LauncherRun`, `TermParser` and `TerminalLoop`, `ProjectSetup`,
   `FilterProxy` and `BridgeFirewall`, eight of them with theorems.
2. `AddressPolicy`: `is_public_ipv4` and `is_public_ipv6` with their widths, against
   the documented ranges.
3. `Protocol`: frames and the execution request as sequences, decode of encode
   and decode of every truncation.
4. `SandboxProfile` and the merge of allow lists as operators.
5. A composition of `LauncherRun` with `CowWorkspace`: the sync at exit, the
   shutdown of the daemon and two launchers in one repository.
6. Abstract specifications for the workspace (a repository that receives a
   session's writes) and the home (a versioned store), and refinements to them.
7. Proofs: `ChoiceRules` and `LinksMatchRule` of `ProjectSetup`; the refinements of item 6.
