---------------------------- MODULE HomeSession ----------------------------
(***************************************************************************)
(* The persisted home of an app over several runs (src/kata.rs, run):     *)
(* secrets are decrypted, what a crash left in the session image is       *)
(* recovered, a fresh image is made and filled from the home, the         *)
(* container works on it, and what it wrote is copied back and sealed.    *)
(*                                                                         *)
(* Every file of every tree is one step, and the launcher may be killed or *)
(* the host go down between any two of them.                               *)
(***************************************************************************)
EXTENDS Integers, FiniteSets

CONSTANTS
    File,
    Secret,         \* the files the `encrypt` patterns match
    Junk,           \* the files the session cleanup patterns match
    Sessions,       \* SUBSET BOOLEAN: is there a session image (session_mb # 0)?
    Keys,           \* SUBSET BOOLEAN: is the passphrase not empty?
    Absent, Garbled, NoFile,
    MayFail,        \* may a step before the container or a seal fail?
    CopyMayFail,    \* may a copy between home and image fail?
    CopyMayTear,    \* may a crash cut a copied file short?
    MountsSurvive,  \* may the launcher die alone, so that mounts stay?
    CleanupMayFail, \* may an umount or rm of the image fail, which is ignored?
    MaxRuns, MaxEdits    \* bounds

ASSUME ConstantsOK ==
    /\ Secret \subseteq File /\ Junk \subseteq File
    /\ Sessions \subseteq BOOLEAN /\ Keys \subseteq BOOLEAN
    /\ {MayFail, CopyMayFail, CopyMayTear, MountsSurvive, CleanupMayFail} \subseteq BOOLEAN
    /\ NoFile \notin File /\ Absent # Garbled
    /\ \A x \in {Absent, Garbled} : x \notin Nat /\ x \notin [ver : Nat, time : Nat]
    /\ MaxRuns \in Nat /\ MaxEdits \in Nat

VARIABLES
    plain,      \* home directory: [File -> Copy or Absent]
    enc,        \* its .enc-cipher files: version encrypted, Garbled or Absent
    image,      \* .bunker/session.img: "none", "blank" or "fs"
    disk,       \* the files in the image
    mounted,    \* the image is mounted
    pc,         \* where the run stands
    session,    \* this run has a session image
    key,        \* this run has a passphrase
    todo,       \* files the walk or copy at hand has still to visit
    work,       \* the file in work and how far it is
    outcome,    \* of the last run: "none", "ok", "error", "crashed"
    latest,     \* history: the version of each file that is to be kept
    spared,     \* history: no run, copy or crash came by that may lose data (README)
    now,        \* clock: versions and modification times
    count       \* bounds: runs and edits so far

home == <<plain, enc>>
store == <<image, disk, mounted>>
flow == <<pc, session, key, todo, work, outcome>>
vars == <<home, store, flow, latest, spared, now, count>>

\* A file is the version the app wrote, 0 if it was cut short, and its mtime.
Copy(ver, time) == [ver |-> ver, time |-> time]
Torn == 0
Empty == [f \in File |-> Absent]
Idle == [file |-> NoFile, stage |-> "idle"]
Files(tree) == {f \in File : tree[f] # Absent}

\* A home that earlier runs left behind, sealed; its files are version 1.
Init ==
    /\ \E kept \in SUBSET (File \ Junk) :
        /\ plain = [f \in File |-> IF f \in kept \ Secret THEN Copy(1, 1) ELSE Absent]
        /\ enc = [f \in File |-> IF f \in kept \cap Secret THEN 1 ELSE Absent]
        /\ latest = [f \in File |-> IF f \in kept THEN 1 ELSE Absent]
    /\ image = "none"
    /\ disk = Empty
    /\ mounted = FALSE
    /\ pc = "off"
    /\ session = FALSE
    /\ key = FALSE
    /\ todo = {}
    /\ work = Idle
    /\ outcome = "none"
    /\ spared = TRUE
    /\ now = 1
    /\ count = [runs |-> 0, edits |-> 0]

Goto(label) == pc' = label /\ UNCHANGED <<session, key, outcome>>
End(how) ==
    /\ pc' = "off" /\ outcome' = how
    /\ todo' = {} /\ work' = Idle
    /\ UNCHANGED <<session, key>>

\* A run without an image passes over a leftover one; a run without a passphrase
\* passes over sealed files.
Begin ==
    /\ pc = "off" /\ count.runs < MaxRuns
    /\ count' = [count EXCEPT !.runs = @ + 1]
    /\ session' \in Sessions /\ key' \in Keys
    /\ outcome' = "none"
    /\ pc' = IF key' THEN "unseal" ELSE "clean"
    /\ todo' = IF key' THEN Files(enc) ELSE {}
    /\ spared' = (spared /\ (session' \/ image = "none") /\ (key' \/ Files(enc) = {}))
    /\ UNCHANGED <<home, store, work, latest, now>>

-----------------------------------------------------------------------------
(* unseal_home: write the plaintext, then remove the cipher file.          *)

UnsealOpen(f) ==
    /\ pc = "unseal" /\ work = Idle
    /\ f \in todo /\ enc[f] # Garbled
    /\ now' = now + 1
    /\ plain' = [plain EXCEPT ![f] = Copy(Torn, now')]
    /\ work' = [file |-> f, stage |-> "open"]
    /\ UNCHANGED <<enc, store, pc, session, key, todo, outcome, latest, spared, count>>

UnsealWrite(f) ==
    /\ pc = "unseal" /\ work = [file |-> f, stage |-> "open"]
    /\ plain' = [plain EXCEPT ![f].ver = enc[f]]
    /\ work' = [work EXCEPT !.stage = "written"]
    /\ UNCHANGED <<enc, store, pc, session, key, todo, outcome, latest, spared, now, count>>

UnsealRemove(f) ==
    /\ pc = "unseal" /\ work = [file |-> f, stage |-> "written"]
    /\ enc' = [enc EXCEPT ![f] = Absent]
    /\ work' = Idle
    /\ todo' = todo \ {f}
    /\ UNCHANGED <<plain, store, pc, session, key, outcome, latest, spared, now, count>>

\* What cannot be decrypted is removed if the user agrees, who thereby gives it
\* up; else the run ends.
UnsealRefused(f) ==
    /\ pc = "unseal" /\ work = Idle
    /\ f \in todo /\ enc[f] = Garbled
    /\ \/ /\ enc' = [enc EXCEPT ![f] = Absent]
          /\ todo' = todo \ {f}
          /\ latest' = [latest EXCEPT ![f] = IF plain[f] = Absent THEN Absent ELSE plain[f].ver]
          /\ UNCHANGED <<pc, session, key, work, outcome>>
       \/ End("error") /\ UNCHANGED <<enc, latest>>
    /\ UNCHANGED <<plain, store, spared, now, count>>

UnsealDone ==
    /\ pc = "unseal" /\ todo = {}
    /\ Goto("clean")
    /\ UNCHANGED <<home, store, todo, work, latest, spared, now, count>>

\* A read, write or removal fails: `?`.
UnsealFails ==
    /\ MayFail
    /\ pc = "unseal" /\ todo # {}
    /\ End("error")
    /\ UNCHANGED <<home, store, latest, spared, now, count>>

Unseal ==
    \/ \E f \in File : UnsealOpen(f) \/ UnsealWrite(f) \/ UnsealRemove(f) \/ UnsealRefused(f)
    \/ UnsealDone \/ UnsealFails

-----------------------------------------------------------------------------
(* cleanup_home_junk and setup_session.                                    *)

Without(tree) == [f \in File |-> IF f \in Junk THEN Absent ELSE tree[f]]

\* An empty home gets no image, and a leftover one is not looked at.
CleanHome ==
    /\ pc = "clean"
    /\ plain' = Without(plain)
    /\ latest' = Without(latest)
    /\ session' = (session /\ Files(plain') \cup Files(enc) # {})
    /\ pc' = IF ~session' THEN "join" ELSE IF image # "none" THEN "mount" ELSE "allocate"
    /\ UNCHANGED <<enc, store, key, todo, work, outcome, spared, now, count>>

\* Slip: what the crash left is copied whatever its age.
AnyAge(from, to, f) == from[f] # Absent

\* cp -u: only what is newer than what is there.
Newer(from, to, f) ==
    from[f] # Absent /\ (to[f] = Absent \/ from[f].time > to[f].time)

NoImage == image' = "none" /\ disk' = Empty /\ mounted' = FALSE

\* umount and rm -f: whether they succeed is not asked.
Discard ==
    \/ NoImage
    \/ CleanupMayFail /\ mounted' \in {FALSE, mounted} /\ UNCHANGED <<image, disk>>

\* With an rm -rf of the mount point in between, which empties what is mounted still.
DiscardTree ==
    \/ NoImage
    \/ /\ CleanupMayFail
       /\ mounted' \in {FALSE, mounted} /\ image' = image
       /\ disk' = IF mounted' THEN Empty ELSE disk

\* Slip: the leftover is thrown away.
MountLeftoverDiscards ==
    /\ pc = "mount" /\ image = "fs" /\ ~mounted
    /\ NoImage
    /\ Goto("allocate")
    /\ UNCHANGED <<home, todo, work, latest, spared, now, count>>

MountLeftover ==
    /\ pc = "mount" /\ image = "fs" /\ ~mounted
    /\ mounted' = TRUE
    /\ todo' = {f \in File : Newer(disk, plain, f)}
    /\ Goto("recover")
    /\ UNCHANGED <<home, image, disk, work, latest, spared, now, count>>

\* "could not mount leftover session.img, discarding": it has no file system, or
\* it is mounted already, which mount(8) refuses for the same image and place.  There
\* is no umount then.
MountRefused ==
    /\ pc = "mount" /\ (image = "blank" \/ mounted)
    /\ DiscardTree /\ (NoImage \/ mounted' = mounted)
    /\ Goto("allocate")
    /\ UNCHANGED <<home, todo, work, latest, spared, now, count>>

\* After a copy that failed as well.
RecoverDone ==
    /\ pc = "recover" /\ (todo = {} \/ CopyMayFail)
    /\ DiscardTree
    /\ Goto("allocate")
    /\ todo' = {} /\ work' = Idle
    /\ spared' = (spared /\ todo = {})
    /\ UNCHANGED <<home, latest, now, count>>

Allocate ==
    /\ pc = "allocate"
    /\ image' = "blank" /\ disk' = Empty
    /\ Goto("format")
    /\ UNCHANGED <<home, mounted, todo, work, latest, spared, now, count>>

\* mke2fs, mount, chown; then the home is copied, all of it.
Format ==
    /\ pc = "format" /\ ~mounted
    /\ image' = "fs" /\ mounted' = TRUE
    /\ todo' = Files(plain)
    /\ Goto("populate")
    /\ UNCHANGED <<home, disk, work, latest, spared, now, count>>

\* A command fails, as mount does if the image is mounted still: `?`, and what there is
\* of the image stays as it is.
SetupFails ==
    /\ pc \in {"allocate", "format"}
    /\ MayFail \/ (pc = "format" /\ mounted)
    /\ \/ UNCHANGED <<image, mounted>>
       \/ pc = "format" /\ image' = "fs" /\ mounted' \in {mounted, TRUE}
    /\ End("error")
    /\ UNCHANGED <<home, disk, latest, spared, now, count>>

\* cp fails; if the image stays too, the next run recovers what cp left in it.
PopulateFails ==
    /\ CopyMayFail
    /\ pc = "populate" /\ todo # {}
    /\ Discard
    /\ End("error")
    /\ spared' = (spared /\ (work = Idle \/ image' = "none"))
    /\ UNCHANGED <<home, latest, now, count>>

PopulateDone ==
    /\ pc = "populate" /\ todo = {}
    /\ Goto("join")
    /\ UNCHANGED <<home, store, todo, work, latest, spared, now, count>>

-----------------------------------------------------------------------------
(* cp, file by file: home to image while it is filled, image to home when   *)
(* it is recovered or torn down.  The data comes first, then the mtime.     *)

CopyOpen(f) ==
    /\ pc \in {"recover", "populate", "persist"} /\ work = Idle
    /\ f \in todo
    /\ now' = now + 1
    /\ IF pc = "populate"
       THEN disk' = [disk EXCEPT ![f] = Copy(Torn, now')] /\ UNCHANGED plain
       ELSE plain' = [plain EXCEPT ![f] = Copy(Torn, now')] /\ UNCHANGED disk
    /\ work' = [file |-> f, stage |-> "open"]
    /\ UNCHANGED <<enc, image, mounted, pc, session, key, todo, outcome, latest, spared, count>>

CopyClose(f) ==
    /\ pc \in {"recover", "populate", "persist"}
    /\ work = [file |-> f, stage |-> "open"]
    /\ IF pc = "populate"
       THEN disk' = [disk EXCEPT ![f] = plain[f]] /\ UNCHANGED plain
       ELSE plain' = [plain EXCEPT ![f] = disk[f]] /\ UNCHANGED disk
    /\ work' = Idle
    /\ todo' = todo \ {f}
    /\ UNCHANGED <<enc, image, mounted, pc, session, key, outcome, latest, spared, now, count>>

-----------------------------------------------------------------------------
(* The container.                                                          *)

\* The containerd thread is joined.
JoinOK ==
    /\ pc = "join"
    /\ Goto("prepare")
    /\ UNCHANGED <<home, store, todo, work, latest, spared, now, count>>

\* It failed: cleanup_partial_session, if there is a session.
JoinFails ==
    /\ MayFail
    /\ pc = "join"
    /\ IF session THEN Discard ELSE UNCHANGED store
    /\ End("error")
    /\ UNCHANGED <<home, latest, spared, now, count>>

\* resolv.conf or the firewall rules cannot be written: `?`.
PrepareFails ==
    /\ MayFail
    /\ pc = "prepare"
    /\ End("error")
    /\ UNCHANGED <<home, store, latest, spared, now, count>>

Start ==
    /\ pc = "prepare"
    /\ Goto("running")
    /\ UNCHANGED <<home, store, todo, work, latest, spared, now, count>>

\* The app writes or deletes f, in the image or right in the home.
AppEdits(f) ==
    /\ pc = "running" /\ count.edits < MaxEdits
    /\ now' = now + 1
    /\ \E c \in {Copy(now', now'), Absent} :
        /\ latest' = [latest EXCEPT ![f] = IF c = Absent THEN Absent ELSE now']
        /\ IF session THEN disk' = [disk EXCEPT ![f] = c] /\ UNCHANGED plain
           ELSE plain' = [plain EXCEPT ![f] = c] /\ UNCHANGED disk
    /\ count' = [count EXCEPT !.edits = @ + 1]
    /\ UNCHANGED <<enc, image, mounted, flow, spared>>

\* Whatever the container ended with.
ContainerEnds ==
    /\ pc = "running"
    /\ Goto(IF session THEN "teardown" ELSE "seal")
    /\ todo' = IF ~session /\ key THEN Secret \cap Files(plain) ELSE {}
    /\ UNCHANGED <<home, store, work, latest, spared, now, count>>

-----------------------------------------------------------------------------
(* teardown_session.                                                       *)

CleanSession ==
    /\ pc = "teardown"
    /\ disk' = Without(disk)
    /\ latest' = Without(latest)
    /\ todo' = {f \in File : Newer(Without(disk), plain, f)}
    /\ Goto("persist")
    /\ UNCHANGED <<home, image, mounted, work, spared, now, count>>

\* After a copy that failed as well.
Teardown ==
    /\ pc = "persist" /\ (todo = {} \/ CopyMayFail)
    /\ Discard
    /\ Goto("seal")
    /\ todo' = IF key THEN Secret \cap Files(plain) ELSE {}
    /\ work' = Idle
    /\ spared' = (spared /\ todo = {})
    /\ UNCHANGED <<home, latest, now, count>>

-----------------------------------------------------------------------------
(* seal_home: write the cipher file, then remove the plaintext.            *)

\* Slip: the plaintext is gone before the cipher file is there.
SealOpenRemoves(f) ==
    /\ pc = "seal" /\ work = Idle
    /\ f \in todo
    /\ enc' = [enc EXCEPT ![f] = Garbled]
    /\ plain' = [plain EXCEPT ![f] = Absent]
    /\ work' = [file |-> f, stage |-> "open"]
    /\ UNCHANGED <<store, pc, session, key, todo, outcome, latest, spared, now, count>>

SealOpen(f) ==
    /\ pc = "seal" /\ work = Idle
    /\ f \in todo
    /\ enc' = [enc EXCEPT ![f] = Garbled]
    /\ work' = [file |-> f, stage |-> "open"]
    /\ UNCHANGED <<plain, store, pc, session, key, todo, outcome, latest, spared, now, count>>

SealWrite(f) ==
    /\ pc = "seal" /\ work = [file |-> f, stage |-> "open"]
    /\ enc' = [enc EXCEPT ![f] = plain[f].ver]
    /\ work' = [work EXCEPT !.stage = "written"]
    /\ UNCHANGED <<plain, store, pc, session, key, todo, outcome, latest, spared, now, count>>

SealRemove(f) ==
    /\ pc = "seal" /\ work = [file |-> f, stage |-> "written"]
    /\ plain' = [plain EXCEPT ![f] = Absent]
    /\ work' = Idle
    /\ todo' = todo \ {f}
    /\ UNCHANGED <<enc, store, pc, session, key, outcome, latest, spared, now, count>>

\* Slip: a file that cannot be sealed is passed over.
SealPassesOver ==
    /\ MayFail
    /\ pc = "seal"
    /\ \E f \in todo : (work = Idle \/ work.file = f) /\ todo' = todo \ {f}
    /\ work' = Idle
    /\ UNCHANGED <<home, store, pc, session, key, outcome, latest, spared, now, count>>

SealFails ==
    /\ MayFail
    /\ pc = "seal" /\ todo # {}
    /\ End("error")
    /\ UNCHANGED <<home, store, latest, spared, now, count>>

SealDone ==
    /\ pc = "seal" /\ todo = {}
    /\ End("ok")
    /\ UNCHANGED <<home, store, latest, spared, now, count>>

Seal ==
    \/ \E f \in File : SealOpen(f) \/ SealWrite(f) \/ SealRemove(f)
    \/ SealFails \/ SealDone

-----------------------------------------------------------------------------

\* The host goes down or the launcher is killed.
Crash ==
    /\ pc # "off"
    /\ work # Idle /\ pc \notin {"unseal", "seal"} => CopyMayTear
    /\ End("crashed")
    /\ mounted' \in {FALSE, mounted /\ MountsSurvive}
    /\ spared' = (spared /\ ~mounted' /\ (work # Idle => pc \in {"unseal", "seal"}))
    /\ UNCHANGED <<home, image, disk, latest, now, count>>

SetupSession ==
    \/ CleanHome \/ MountLeftover \/ MountRefused \/ RecoverDone
    \/ Allocate \/ Format \/ SetupFails \/ PopulateFails \/ PopulateDone

Container == JoinOK \/ JoinFails \/ PrepareFails \/ Start \/ ContainerEnds

Next ==
    \/ Begin
    \/ Unseal
    \/ SetupSession
    \/ Container
    \/ \E f \in File : CopyOpen(f) \/ CopyClose(f) \/ AppEdits(f)
    \/ CleanSession \/ Teardown
    \/ Seal
    \/ Crash

Spec == Init /\ [][Next]_vars

-----------------------------------------------------------------------------
(* Properties.                                                             *)

Copies == [ver : Nat, time : Nat]

TypeOK ==
    /\ plain \in [File -> Copies \cup {Absent}]
    /\ enc \in [File -> Nat \cup {Absent, Garbled}]
    /\ image \in {"none", "blank", "fs"}
    /\ disk \in [File -> Copies \cup {Absent}]
    /\ {mounted, session, key, spared} \subseteq BOOLEAN
    /\ pc \in {"off", "unseal", "clean", "mount", "recover", "allocate", "format",
               "populate", "join", "prepare", "running", "teardown", "persist", "seal"}
    /\ todo \subseteq File
    /\ work \in [file : File \cup {NoFile}, stage : {"idle", "open", "written"}]
    /\ outcome \in {"none", "ok", "error", "crashed"}
    /\ latest \in [File -> Nat \cup {Absent}]
    /\ now \in Nat
    /\ count \in [runs : 0..MaxRuns, edits : 0..MaxEdits]

\* Whatever the app wrote last is, whole, in the home, sealed in it, or in an image the
\* next run recovers: no crash between two steps loses it, nor does an image that could
\* not be removed (run, setup_session, teardown_session).  Excepted by `spared` are
\* histories with a copy that failed or was cut short, a mount that outlived its run,
\* a run without an image beside a leftover one, or a run without the passphrase
\* beside sealed files.
NothingLost ==
    spared => \A f \in File : latest[f] # Absent =>
        \/ plain[f] # Absent /\ plain[f].ver = latest[f]
        \/ enc[f] = latest[f]
        \/ image = "fs" /\ disk[f] # Absent /\ disk[f].ver = latest[f]

\* When the app runs, it finds every file as it last wrote it, whatever step the run
\* before broke off at, with the same exceptions.
AppSeesLatest ==
    spared /\ pc = "running" =>
        \A f \in File : latest[f] # Absent =>
            LET seen == IF session THEN disk[f] ELSE plain[f] IN
                seen # Absent /\ seen.ver = latest[f]

\* What the app has deleted is not there when it runs again.  It is: both copies
\* between home and image only add (src/kata.rs:886, docs/guides/persistence.md:91).
DeletedStaysAway ==
    spared /\ pc = "running" =>
        \A f \in File \ Junk : latest[f] = Absent =>
            (IF session THEN disk[f] ELSE plain[f]) = Absent

\* A run with a passphrase that ended well left no secret in plaintext in the home
\* and no cipher file half written (run, seal_home), whatever the runs before it did,
\* with or without one.  Nothing is claimed of its image, which stays, secrets and all,
\* if its removal fails.
SealedAtRest ==
    pc = "off" /\ outcome = "ok" /\ key =>
        \A f \in Secret : plain[f] = Absent /\ enc[f] # Garbled

\* What is about to be copied out of an image, be it a leftover one, never holds
\* an older version of a file than the home does, whatever runs came in between:
\* the modification times cp -u goes by agree with the versions.
NeverRollsBack ==
    pc \in {"recover", "persist"} =>
        \A f \in todo :
            plain[f] # Absent /\ disk[f].ver # Torn => disk[f].ver >= plain[f].ver
=============================================================================
