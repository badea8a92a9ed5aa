---------------------------- MODULE CowWorkspace ----------------------------
(***************************************************************************)
(* The copy-on-write workspace (src/overlay.rs): the repository is the    *)
(* lower layer of an overlay, the agent and the host commands run for it  *)
(* write to the upper layer, and two programs bring the upper layer back  *)
(* into the repository: `bunkerbox sync`, at any time, and the Drop of    *)
(* CowWorkspace when the container has ended.                             *)
(*                                                                         *)
(* Both walk the upper layer entry by entry while others write to it, and *)
(* share the files of .bunkerbox/sessions/, which a crash leaves behind.  *)
(*                                                                         *)
(* The overlay is the kernel's.  It leaves a character device for a       *)
(* deleted file, under the file's own name, and an attribute on a         *)
(* directory made anew; the walk looks for devices named .wh.* instead    *)
(* (as other overlays leave them), so it passes over the one and does not *)
(* see the other.  Here both are Absent in the upper layer: no file for   *)
(* the walk.  Files are regular ones outside .bunkerbox, which is all the *)
(* walk brings over.                                                      *)
(***************************************************************************)
EXTENDS Integers, FiniteSets

CONSTANTS
    File,           \* the paths of interest
    Hidden,         \* those with a component that starts with a dot
    Content,        \* contents of files
    Absent, NoManifest,
    Longest,        \* the manifests of manifests a file name is long enough for
    MayCrash,       \* may the launcher be killed or the host go down?
    MayFail,        \* may a copy fail?
    CommandsOutlive,\* do host commands run on while the container ends?
    SyncAtExit,     \* may `bunkerbox sync` overlap the exit of the container?
    MaxSessions, MaxEdits, MaxSyncs    \* bounds

ASSUME ConstantsOK ==
    /\ Hidden \subseteq File
    /\ {MayCrash, MayFail, CommandsOutlive, SyncAtExit} \subseteq BOOLEAN
    /\ Absent \notin Content
    /\ \A s \in SUBSET File : s # NoManifest
    /\ Longest \in Nat \ {0}
    /\ MaxSessions \in Nat /\ MaxEdits \in Nat /\ MaxSyncs \in Nat

VARIABLES
    repo,       \* the real repository: [File -> Content or Absent]
    upper,      \* upper layer: [File -> Content or Absent]
    mounted,    \* the overlay is mounted
    dir,        \* .bunkerbox/sessions/ exists
    stateFile,  \* sessions/<app>.json exists
    marker,     \* sessions/<app>.synced exists
    manifest,   \* manifest[e]: the manifest that is entry e of sessions/
    phase,      \* the launcher: "down", "up" (container runs), "dropping"
    ended,      \* how the last session ended: "no", "clean", "crashed"
    job,        \* job[x]: the walk of syncer x
    drop,       \* Drop's directory iteration: entries to do and done, entry in work
    view,       \* history: what the agent left in the workspace
    quiet,      \* history: nothing was edited since the manual sync began
    aborted,    \* history: a sync or the exit of this session was cut short
    lower,      \* history: the files the repository had when the overlay was mounted
    brought,    \* history: the files a sync has brought over since
    count       \* bounds: sessions, edits and manual syncs so far

storage == <<repo, upper, mounted>>
sessions == <<dir, stateFile, marker, manifest>>
ghosts == <<view, quiet, aborted, lower, brought>>
vars == <<storage, sessions, phase, ended, job, drop, ghosts, count>>

Syncer == {"cli", "exit"}

\* The .json files of sessions/ that Drop meets: 0 is the state of the session, 1
\* the manifest sync_upper writes for it and, as Drop takes a manifest for one more
\* session, n + 1 the manifest it writes for n; until a file name cannot be longer.
Entry == 0..Longest
NoEntry == -1

Present(e) == IF e = 0 THEN stateFile ELSE manifest[e] # NoManifest

NoManifests == [e \in Entry \ {0} |-> NoManifest]
NothingUpper == [f \in File |-> Absent]

Idle == [pc |-> "idle", stem |-> 0, todo |-> {}, old |-> {}, new |-> {}, changed |-> FALSE]
NoDrop == [left |-> {}, done |-> {}, entry |-> NoEntry]

Init ==
    /\ repo \in [File -> Content \cup {Absent}]
    /\ upper = NothingUpper
    /\ mounted = FALSE
    /\ dir = FALSE
    /\ stateFile = FALSE
    /\ marker = FALSE
    /\ manifest = NoManifests
    /\ phase = "down"
    /\ ended = "no"
    /\ job = [x \in Syncer |-> Idle]
    /\ drop = NoDrop
    /\ view = repo
    /\ quiet = FALSE
    /\ aborted = FALSE
    /\ lower = {}
    /\ brought = {}
    /\ count = [sessions |-> 0, edits |-> 0, syncs |-> 0]

-----------------------------------------------------------------------------
(* CowWorkspace::setup.                                                    *)

\* Stale mounts are taken down and the image is zeroed and formatted anew.
\* What a crash left in sessions/ stays.
Setup ==
    /\ phase = "down"
    /\ job["cli"] = Idle
    /\ count.sessions < MaxSessions
    /\ upper' = NothingUpper
    /\ mounted' = TRUE
    /\ dir' = TRUE
    /\ stateFile' = TRUE
    /\ phase' = "up"
    /\ ended' = "no"
    /\ view' = repo
    /\ quiet' = FALSE
    /\ aborted' = FALSE
    /\ lower' = {f \in File : repo[f] # Absent}
    /\ brought' = {}
    /\ count' = [count EXCEPT !.sessions = @ + 1]
    /\ UNCHANGED <<repo, marker, manifest, job, drop>>

\* A command of setup fails, before the new mount or after it; the state file is
\* the last thing it writes.
SetupFails ==
    /\ MayFail
    /\ phase = "down"
    /\ job["cli"] = Idle
    /\ count.sessions < MaxSessions
    /\ \/ mounted' = FALSE /\ upper' \in {upper, NothingUpper} /\ UNCHANGED dir
       \/ mounted' = TRUE /\ upper' = NothingUpper /\ dir' \in {dir, TRUE}
    /\ count' = [count EXCEPT !.sessions = @ + 1]
    /\ UNCHANGED <<repo, stateFile, marker, manifest, phase, ended, job, drop, ghosts>>

-----------------------------------------------------------------------------
(* The agent and the host commands run for it; the overlay is the kernel's. *)

Working ==
    /\ mounted
    /\ \/ phase = "up"
       \/ phase = "dropping" /\ CommandsOutlive
    /\ count.edits < MaxEdits

\* The agent writes a file, or removes it (c = Absent).
Edit(f, c) ==
    /\ Working
    /\ c = Absent => view[f] # Absent
    /\ upper' = [upper EXCEPT ![f] = c]
    /\ view' = [view EXCEPT ![f] = c]
    /\ quiet' = FALSE
    /\ count' = [count EXCEPT !.edits = @ + 1]
    /\ UNCHANGED <<repo, mounted, sessions, phase, ended, job, drop, aborted, lower, brought>>

-----------------------------------------------------------------------------
(* sync_upper, step by step, for either syncer x.                          *)

\* load_manifest and the files found; devices and links are passed over.
Walk(stem) ==
    [pc |-> "walk", stem |-> stem,
     todo |-> {f \in File : upper[f] \in Content},
     old |-> IF stem = Longest \/ manifest[stem + 1] = NoManifest THEN {} ELSE manifest[stem + 1],
     new |-> {}, changed |-> FALSE]

\* Slip: only what was copied is recorded in the manifest.
SyncFileRecordsCopies(x, f) ==
    /\ job[x].pc = "walk" /\ f \in job[x].todo
    /\ mounted /\ upper[f] \in Content
    /\ repo' = [repo EXCEPT ![f] = upper[f]]
    /\ job' = [job EXCEPT ![x].todo = @ \ {f},
                          ![x].new = IF repo[f] = upper[f] THEN @ ELSE @ \cup {f},
                          ![x].changed = @ \/ repo[f] # upper[f]]
    /\ brought' = brought \cup {f}
    /\ UNCHANGED <<upper, mounted, sessions, phase, ended, drop, view, quiet, aborted, lower, count>>

\* A file is copied if the repository differs, and recorded in either case.
SyncFile(x, f) ==
    /\ job[x].pc = "walk" /\ f \in job[x].todo
    /\ mounted /\ upper[f] \in Content
    /\ repo' = [repo EXCEPT ![f] = upper[f]]
    /\ job' = [job EXCEPT ![x].todo = @ \ {f},
                          ![x].new = @ \cup {f},
                          ![x].changed = @ \/ repo[f] # upper[f]]
    /\ brought' = brought \cup {f}
    /\ UNCHANGED <<upper, mounted, sessions, phase, ended, drop, view, quiet, aborted, lower, count>>

\* Slip: what the upper layer no longer has is not looked for.
WalkDoneNoPrune(x) ==
    /\ job[x].pc = "walk" /\ job[x].todo = {}
    /\ job' = [job EXCEPT ![x].pc = "prune"]
    /\ UNCHANGED <<storage, sessions, phase, ended, drop, ghosts, count>>

WalkDone(x) ==
    /\ job[x].pc = "walk" /\ job[x].todo = {}
    /\ job' = [job EXCEPT ![x].pc = "prune", ![x].todo = job[x].old \ job[x].new]
    /\ UNCHANGED <<storage, sessions, phase, ended, drop, ghosts, count>>

\* A file of the last manifest that the upper layer no longer has.
Prune(x, f) ==
    /\ job[x].pc = "prune" /\ f \in job[x].todo
    /\ repo' = [repo EXCEPT ![f] = Absent]
    /\ job' = [job EXCEPT ![x].todo = @ \ {f},
                          ![x].changed = @ \/ repo[f] # Absent]
    /\ UNCHANGED <<upper, mounted, sessions, phase, ended, drop, ghosts, count>>

\* save_manifest.
SaveManifest(x) ==
    /\ job[x].pc = "prune" /\ job[x].todo = {}
    /\ dir /\ job[x].stem < Longest
    /\ manifest' = [manifest EXCEPT ![job[x].stem + 1] = job[x].new]
    /\ job' = [job EXCEPT ![x] = IF x = "cli" THEN [@ EXCEPT !.pc = "mark"] ELSE Idle]
    /\ UNCHANGED <<storage, dir, stateFile, marker, phase, ended, drop, ghosts, count>>

\* An entry vanished between read_dir and the copy, the overlay was unmounted, a
\* copy or a removal failed, a file of sessions/ cannot be written because that is
\* gone or the name too long: `?` ends the sync.
SyncFails(x) ==
    /\ \/ /\ job[x].pc = "walk"
          /\ ~mounted \/ \E f \in job[x].todo : upper[f] \notin Content \/ MayFail
       \/ /\ job[x].pc = "prune"
          /\ MayFail \/ (job[x].todo = {} /\ (~dir \/ job[x].stem = Longest))
       \/ job[x].pc = "mark" /\ job[x].changed /\ (MayFail \/ ~dir)
    /\ aborted' = TRUE
    /\ job' = [job EXCEPT ![x] = Idle]
    /\ UNCHANGED <<storage, sessions, phase, ended, drop, view, quiet, lower, brought, count>>

Sync(x) ==
    \/ \E f \in File : SyncFile(x, f) \/ Prune(x, f)
    \/ WalkDone(x) \/ SaveManifest(x) \/ SyncFails(x)

-----------------------------------------------------------------------------
(* bunkerbox sync: sync_sessions and sync_session.                         *)

CliReady ==
    /\ job["cli"] = Idle
    /\ dir /\ stateFile
    /\ count.syncs < MaxSyncs
    /\ SyncAtExit \/ phase # "dropping"
    /\ count' = [count EXCEPT !.syncs = @ + 1]

CliSync ==
    /\ CliReady
    /\ mounted
    /\ job' = [job EXCEPT !["cli"] = Walk(0)]
    /\ quiet' = TRUE
    /\ UNCHANGED <<storage, sessions, phase, ended, drop, view, aborted, lower, brought>>

\* "session ended, removing state file"
CliForgets ==
    /\ CliReady
    /\ ~mounted
    /\ stateFile' = FALSE
    /\ UNCHANGED <<storage, dir, marker, manifest, phase, ended, job, drop, ghosts>>

\* The marker is written only if something was added or deleted.
CliMarks ==
    /\ job["cli"].pc = "mark"
    /\ job["cli"].changed => dir
    /\ marker' = (marker \/ job["cli"].changed)
    /\ job' = [job EXCEPT !["cli"] = Idle]
    /\ quiet' = FALSE
    /\ UNCHANGED <<storage, dir, stateFile, manifest, phase, ended, drop, view, aborted, lower, brought, count>>

-----------------------------------------------------------------------------
(* Drop: every .json file of sessions/ is taken for a session.             *)

\* has_unsynced_changes: a regular file no component of which starts with a dot.
HasUnsynced == \E f \in File \ Hidden : upper[f] \in Content

\* Slip: the marker of the session holds for every file found beside it.
MarkedBeside(e) == marker

Marked(e) == e = 0 /\ marker

ContainerEnds ==
    /\ phase = "up"
    /\ SyncAtExit \/ job["cli"] = Idle
    /\ phase' = "dropping"
    /\ drop' = [NoDrop EXCEPT !.left = {e \in Entry : Present(e)}]
    /\ UNCHANGED <<storage, sessions, ended, job, ghosts, count>>

\* Entries that appear during the iteration may be met or not.
DropTakes(e) ==
    /\ phase = "dropping" /\ drop.entry = NoEntry
    /\ Present(e) /\ e \notin drop.done
    /\ drop' = [left |-> drop.left \ {e}, done |-> drop.done \cup {e}, entry |-> e]
    /\ job' = [job EXCEPT !["exit"] =
                    IF ~Marked(e) /\ HasUnsynced THEN Walk(e) ELSE Idle]
    /\ UNCHANGED <<storage, sessions, phase, ended, ghosts, count>>

\* Whatever came of the sync, the file and its marker go.
DropRemoves ==
    /\ phase = "dropping" /\ drop.entry # NoEntry
    /\ job["exit"] = Idle
    /\ drop' = [drop EXCEPT !.entry = NoEntry]
    /\ IF drop.entry = 0
       THEN stateFile' = FALSE /\ marker' = FALSE /\ UNCHANGED manifest
       ELSE /\ manifest' = [manifest EXCEPT ![drop.entry] = NoManifest]
            /\ UNCHANGED <<stateFile, marker>>
    /\ UNCHANGED <<storage, dir, phase, ended, job, ghosts, count>>

\* Slip: sessions/ is removed only once it is empty.
DropEndsEmpty ==
    /\ phase = "dropping" /\ drop.entry = NoEntry
    /\ \A e \in Entry : ~Present(e)
    /\ dir' = FALSE /\ stateFile' = FALSE /\ marker' = FALSE
    /\ manifest' = NoManifests
    /\ mounted' \in {FALSE, CommandsOutlive}
    /\ phase' = "down"
    /\ ended' = "clean"
    /\ drop' = NoDrop
    /\ UNCHANGED <<repo, upper, job, ghosts, count>>

\* remove_dir_all(sessions), umount: a busy mount stays, and nobody is told.
DropEnds ==
    /\ phase = "dropping" /\ drop.entry = NoEntry
    /\ \A e \in drop.left : ~Present(e)
    /\ dir' = FALSE /\ stateFile' = FALSE /\ marker' = FALSE
    /\ manifest' = NoManifests
    /\ mounted' \in {FALSE, CommandsOutlive}
    /\ phase' = "down"
    /\ ended' = "clean"
    /\ drop' = NoDrop
    /\ UNCHANGED <<repo, upper, job, ghosts, count>>

Drop ==
    \/ \E e \in Entry : DropTakes(e)
    \/ DropRemoves \/ DropEnds

\* The launcher is killed (the mounts stay) or the host goes down (and with it
\* a manual sync).
Crash ==
    /\ MayCrash
    /\ phase # "down"
    /\ phase' = "down"
    /\ ended' = "crashed"
    /\ drop' = NoDrop
    /\ \/ UNCHANGED mounted /\ job' = [job EXCEPT !["exit"] = Idle]
       \/ mounted' = FALSE /\ job' = [x \in Syncer |-> Idle]
    /\ aborted' = (aborted \/ phase = "dropping" \/ \E x \in Syncer : job'[x] # job[x])
    /\ UNCHANGED <<repo, upper, sessions, view, quiet, lower, brought, count>>

-----------------------------------------------------------------------------

Next ==
    \/ Setup \/ SetupFails
    \/ \E f \in File, c \in Content \cup {Absent} : Edit(f, c)
    \/ CliSync \/ CliForgets \/ CliMarks
    \/ \E x \in Syncer : Sync(x)
    \/ ContainerEnds \/ Drop
    \/ Crash

Spec == Init /\ [][Next]_vars

\* Drop runs to its end, whatever it meets.
FairSpec == Spec /\ WF_vars(Drop) /\ WF_vars(Sync("exit"))

-----------------------------------------------------------------------------
(* Properties.                                                             *)

Job == [pc : {"idle", "walk", "prune", "mark"}, stem : Entry,
        todo : SUBSET File, old : SUBSET File, new : SUBSET File, changed : BOOLEAN]

TypeOK ==
    /\ repo \in [File -> Content \cup {Absent}]
    /\ upper \in [File -> Content \cup {Absent}]
    /\ {mounted, dir, stateFile, marker, quiet, aborted} \subseteq BOOLEAN
    /\ manifest \in [Entry \ {0} -> {NoManifest} \cup SUBSET File]
    /\ phase \in {"down", "up", "dropping"}
    /\ ended \in {"no", "clean", "crashed"}
    /\ job \in [Syncer -> Job]
    /\ drop \in [left : SUBSET Entry, done : SUBSET Entry, entry : Entry \cup {NoEntry}]
    /\ view \in [File -> Content \cup {Absent}]
    /\ lower \subseteq File /\ brought \subseteq File
    /\ count \in [sessions : 0..MaxSessions, edits : 0..MaxEdits, syncs : 0..MaxSyncs]

\* When the container has ended, every file the agent left in the workspace is
\* in the repository as the agent left it; files behind a dot are excepted, see
\* AllChangesSynced.
WritesReachRepo ==
    ended = "clean" =>
        \A f \in File \ Hidden : view[f] # Absent => repo[f] = view[f]

\* A manual sync during which nothing is edited makes the repository what the
\* agent sees, files behind a dot included, be it the first sync of the session or
\* a later one; except that a file the repository had from the start, and no sync
\* of the session has met since, stays when the agent deletes it (the walk passes
\* over its whiteout).  Excepted is also a session with an earlier sync cut short,
\* which leaves no record of what it had already brought over, and the exit of the
\* container, which brings over files of its own.
ManualSyncIsFaithful ==
    /\ job["cli"].pc = "mark" /\ quiet /\ ~aborted
    /\ phase # "dropping" /\ ended # "clean"
    => \A f \in File : \/ repo[f] = view[f]
                       \/ view[f] = Absent /\ f \in lower \ brought

\* The syncer at work meets no edit.
Calm ==
    \/ quiet
    \/ phase = "dropping" /\ ~CommandsOutlive /\ job["cli"] = Idle

\* A sync no edit interferes with removes from the repository only what is gone
\* from the workspace.
RemovesOnlyDeleted ==
    [][\A f \in File :
        Calm /\ repo[f] # Absent /\ repo'[f] = Absent => view[f] = Absent]_vars

\* Drop ends, and takes sessions/ with it, although each file it syncs for leaves it
\* one more to sync for (up to the longest name), and a manual sync may put back
\* what it has removed.
ExitCompletes == (phase = "dropping") ~> (phase = "down")

\* docs/index.md:52: "All changes auto-sync when the agent exits."
AllChangesSynced == ended = "clean" => repo = view
=============================================================================
