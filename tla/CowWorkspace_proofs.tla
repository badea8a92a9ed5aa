-------------------------- MODULE CowWorkspace_proofs --------------------------
(***************************************************************************)
(* Proofs about CowWorkspace, for all files, contents and edits and any    *)
(* number of sessions, edits and syncs.                                    *)
(*                                                                         *)
(* All of them rest on one observation: a sync only ever changes files of  *)
(* the repository that the agent has touched in this session, whatever it  *)
(* takes from the upper layer or a manifest.                               *)
(***************************************************************************)
EXTENDS CowWorkspace, TLAPS

(***************************************************************************)
(* Types.                                                                  *)
(***************************************************************************)

\* A walk starts with what the upper layer has and what the last one recorded.
LEMMA WalkType ==
    ASSUME TypeOK, NEW stem \in Entry
    PROVE  /\ Walk(stem) \in Job
           /\ Walk(stem).pc = "walk" /\ Walk(stem).stem = stem
           /\ Walk(stem).todo = {f \in File : upper[f] \in Content}
           /\ Walk(stem).new = {}
           /\ Walk(stem).old = IF stem = Longest THEN {}
                               ELSE IF manifest[stem + 1] = NoManifest THEN {}
                               ELSE manifest[stem + 1]
<1>1. stem # Longest => stem + 1 \in Entry \ {0}
    BY ConstantsOK DEF Entry
<1>2. \A e \in Entry \ {0} : manifest[e] \in {NoManifest} \cup SUBSET File
    <2>1. manifest \in [Entry \ {0} -> {NoManifest} \cup SUBSET File]
        BY DEF TypeOK
    <2>2. QED
        BY <2>1
<1>3. Walk(stem).old \in SUBSET File
    BY <1>1, <1>2 DEF Walk
<1>4. {f \in File : upper[f] \in Content} \in SUBSET File
    OBVIOUS
<1>5. Walk(stem) \in Job
    BY <1>3, <1>4 DEF Walk, Job
<1>6. QED
    BY <1>5 DEF Walk

LEMMA IdleType == Idle \in Job /\ Idle.pc = "idle"
BY ConstantsOK DEF Idle, Job, Entry

\* The syncers.
LEMMA SyncType ==
    ASSUME TypeOK, NEW x \in Syncer, Sync(x)
    PROVE  TypeOK'
<1> USE DEF TypeOK
<1>1. job[x] \in Job
    OBVIOUS
<1>2. ASSUME NEW j \in Job, job' = [job EXCEPT ![x] = j]
      PROVE  job' \in [Syncer -> Job]
    BY <1>2
<1>3. ASSUME NEW f \in File, SyncFile(x, f) PROVE TypeOK'
    <2> DEFINE j == [job[x] EXCEPT !.todo = @ \ {f}, !.new = @ \cup {f},
                                   !.changed = @ \/ repo[f] # upper[f]]
    <2>1. j \in Job
        BY <1>1 DEF Job
    <2>2. job' = [job EXCEPT ![x] = j]
        BY <1>3 DEF SyncFile
    <2>3. repo' \in [File -> Content \cup {Absent}] /\ brought' \subseteq File
        BY <1>3 DEF SyncFile
    <2> HIDE DEF j
    <2>4. QED
        BY <1>2, <1>3, <2>1, <2>2, <2>3 DEF SyncFile, sessions, ghosts
<1>5. ASSUME NEW f \in File, Prune(x, f) PROVE TypeOK'
    <2> DEFINE j == [job[x] EXCEPT !.todo = @ \ {f}, !.changed = @ \/ repo[f] # Absent]
    <2>1. j \in Job
        BY <1>1 DEF Job
    <2>2. job' = [job EXCEPT ![x] = j]
        BY <1>5 DEF Prune
    <2>3. repo' \in [File -> Content \cup {Absent}]
        BY <1>5 DEF Prune
    <2> HIDE DEF j
    <2>4. QED
        BY <1>2, <1>5, <2>1, <2>2, <2>3 DEF Prune, sessions, ghosts
<1>7. CASE WalkDone(x)
    <2> DEFINE j == [job[x] EXCEPT !.pc = "prune", !.todo = job[x].old \ job[x].new]
    <2>1. j \in Job
        BY <1>1 DEF Job
    <2>2. job' = [job EXCEPT ![x] = j]
        BY <1>7 DEF WalkDone
    <2> HIDE DEF j
    <2>3. QED
        BY <1>2, <1>7, <2>1, <2>2 DEF WalkDone, storage, sessions, ghosts
<1>8. CASE SaveManifest(x)
    <2> DEFINE j == IF x = "cli" THEN [job[x] EXCEPT !.pc = "mark"] ELSE Idle
    <2>1. j \in Job
        BY <1>1, IdleType DEF Job
    <2>2. job' = [job EXCEPT ![x] = j]
        BY <1>8 DEF SaveManifest
    <2>3. manifest' \in [Entry \ {0} -> {NoManifest} \cup SUBSET File]
        <3>1. job[x].new \in SUBSET File /\ manifest \in [Entry \ {0} -> {NoManifest} \cup SUBSET File]
            BY <1>1 DEF Job
        <3>2. manifest' = [manifest EXCEPT ![job[x].stem + 1] = job[x].new]
            BY <1>8 DEF SaveManifest
        <3>3. QED
            BY <3>1, <3>2
    <2> HIDE DEF j
    <2>4. QED
        BY <1>2, <1>8, <2>1, <2>2, <2>3 DEF SaveManifest, storage, ghosts
<1>9. CASE SyncFails(x)
    <2>1. job' = [job EXCEPT ![x] = Idle] /\ aborted' = TRUE
        BY <1>9 DEF SyncFails
    <2>2. QED
        BY <1>2, <1>9, <2>1, IdleType DEF SyncFails, storage, sessions
<1>10. QED
    BY <1>3, <1>5, <1>7, <1>8, <1>9 DEF Sync

LEMMA TypeInit == Init => TypeOK
<1> SUFFICES ASSUME Init PROVE TypeOK
    OBVIOUS
<1>1. job \in [Syncer -> Job]
    BY IdleType DEF Init
<1>2. drop \in [left : SUBSET Entry, done : SUBSET Entry, entry : Entry \cup {NoEntry}]
    BY DEF Init, NoDrop
<1>3. count \in [sessions : 0..MaxSessions, edits : 0..MaxEdits, syncs : 0..MaxSyncs]
    BY ConstantsOK DEF Init
<1>4. /\ repo \in [File -> Content \cup {Absent}] /\ view \in [File -> Content \cup {Absent}]
      /\ upper \in [File -> Content \cup {Absent}]
      /\ manifest \in [Entry \ {0} -> {NoManifest} \cup SUBSET File]
    BY DEF Init, NothingUpper, NoManifests
<1>5. QED
    BY <1>1, <1>2, <1>3, <1>4 DEF Init, TypeOK

LEMMA TypeStays == TypeOK /\ [Next]_vars => TypeOK'
<1> SUFFICES ASSUME TypeOK, [Next]_vars PROVE TypeOK'
    OBVIOUS
<1> DEFINE Drops == [left : SUBSET Entry, done : SUBSET Entry, entry : Entry \cup {NoEntry}]
           Counts == [sessions : 0..MaxSessions, edits : 0..MaxEdits, syncs : 0..MaxSyncs]
<1>0. /\ count \in Counts /\ drop \in Drops /\ NoDrop \in Drops
      /\ MaxSessions \in Nat /\ MaxEdits \in Nat /\ MaxSyncs \in Nat
    BY ConstantsOK DEF TypeOK, NoDrop
<1>1. CASE Setup
    <2>1. count' \in Counts /\ upper' \in [File -> Content \cup {Absent}]
        BY <1>0, <1>1 DEF Setup, NothingUpper
    <2>2. QED
        BY <1>1, <2>1 DEF Setup, TypeOK
<1>2. CASE SetupFails
    <2>1. count' \in Counts
        BY <1>0, <1>2 DEF SetupFails
    <2>2. upper' \in [File -> Content \cup {Absent}] /\ {mounted', dir'} \subseteq BOOLEAN
        BY <1>2 DEF SetupFails, TypeOK, NothingUpper
    <2>3. QED
        BY <1>2, <2>1, <2>2 DEF SetupFails, TypeOK, ghosts
<1>3. ASSUME NEW f \in File, NEW c \in Content \cup {Absent}, Edit(f, c) PROVE TypeOK'
    <2>1. /\ upper' \in [File -> Content \cup {Absent}]
          /\ view' \in [File -> Content \cup {Absent}]
        BY <1>3 DEF Edit, TypeOK
    <2>2. count' \in Counts
        BY <1>0, <1>3 DEF Edit, Working
    <2>3. QED
        BY <1>3, <2>1, <2>2 DEF Edit, TypeOK, sessions
<1>7. ASSUME CliReady PROVE count' \in Counts
    BY <1>0, <1>7 DEF CliReady
<1>8. CASE CliSync
    <2>1. job' = [job EXCEPT !["cli"] = Walk(0)]
        BY <1>8 DEF CliSync
    <2>2. Walk(0) \in Job
        BY WalkType, ConstantsOK DEF Entry
    <2>3. job' \in [Syncer -> Job]
        BY <2>1, <2>2 DEF TypeOK
    <2>4. QED
        BY <1>7, <1>8, <2>3 DEF CliSync, TypeOK, storage, sessions
<1>9. CASE CliForgets
    BY <1>7, <1>9 DEF CliForgets, TypeOK, storage, ghosts
<1>10. CASE CliMarks
    <2>1. job' \in [Syncer -> Job]
        BY <1>10, IdleType DEF CliMarks, TypeOK
    <2>2. marker' \in BOOLEAN
        <3>1. job["cli"].changed \in BOOLEAN /\ marker \in BOOLEAN
            BY DEF TypeOK, Syncer, Job
        <3>2. marker' = (marker \/ job["cli"].changed)
            BY <1>10 DEF CliMarks
        <3>3. QED
            BY <3>1, <3>2
    <2>3. QED
        BY <1>10, <2>1, <2>2 DEF CliMarks, TypeOK, storage
<1>11. ASSUME NEW x \in Syncer, Sync(x) PROVE TypeOK'
    BY <1>11, SyncType
<1>12. CASE ContainerEnds
    <2>1. drop' \in Drops
        BY <1>12 DEF ContainerEnds, NoDrop
    <2>2. QED
        BY <1>12, <2>1 DEF ContainerEnds, TypeOK, storage, sessions, ghosts
<1>13. ASSUME NEW e \in Entry, DropTakes(e) PROVE TypeOK'
    <2>1. drop' \in Drops
        BY <1>0, <1>13 DEF DropTakes
    <2>2. Walk(e) \in Job
        BY WalkType
    <2>3. job' \in [Syncer -> Job]
        BY <1>13, <2>2, IdleType DEF DropTakes, TypeOK
    <2>4. QED
        BY <1>13, <2>1, <2>3 DEF DropTakes, TypeOK, storage, sessions, ghosts
<1>14. CASE DropRemoves
    <2>1. drop' \in Drops
        BY <1>0, <1>14 DEF DropRemoves
    <2>2. manifest' \in [Entry \ {0} -> {NoManifest} \cup SUBSET File]
        BY <1>14 DEF DropRemoves, TypeOK
    <2>3. {stateFile', marker'} \subseteq BOOLEAN
        <3>1. CASE drop.entry = 0
            BY <1>14, <3>1 DEF DropRemoves
        <3>2. CASE drop.entry # 0
            BY <1>14, <3>2 DEF DropRemoves, TypeOK
        <3>3. QED
            BY <3>1, <3>2
    <2>4. QED
        BY <1>14, <2>1, <2>2, <2>3 DEF DropRemoves, TypeOK, storage, ghosts
<1>15. CASE DropEnds
    <2>1. mounted' \in BOOLEAN
        BY <1>15, ConstantsOK DEF DropEnds
    <2>2. manifest' \in [Entry \ {0} -> {NoManifest} \cup SUBSET File]
        BY <1>15 DEF DropEnds, NoManifests
    <2>3. dir' = FALSE /\ stateFile' = FALSE /\ marker' = FALSE /\ drop' = NoDrop
        BY <1>15 DEF DropEnds
    <2>4. QED
        BY <1>0, <1>15, <2>1, <2>2, <2>3 DEF DropEnds, TypeOK, ghosts
<1>16. CASE Crash
    <2>1. mounted' \in BOOLEAN /\ job' \in [Syncer -> Job]
        <3>1. job \in [Syncer -> Job] /\ mounted \in BOOLEAN
            BY DEF TypeOK
        <3>2. CASE UNCHANGED mounted /\ job' = [job EXCEPT !["exit"] = Idle]
            <4>1. job' \in [Syncer -> Job]
                BY <3>1, <3>2, IdleType
            <4>2. QED
                BY <3>1, <3>2, <4>1
        <3>3. CASE mounted' = FALSE /\ job' = [x \in Syncer |-> Idle]
            <4>1. job' \in [Syncer -> Job]
                BY <3>3, IdleType
            <4>2. QED
                BY <3>3, <4>1
        <3>4. QED
            BY <1>16, <3>2, <3>3 DEF Crash
    <2>2. aborted' \in BOOLEAN
        BY <1>16 DEF Crash, TypeOK
    <2>3. QED
        BY <1>0, <1>16, <2>1, <2>2 DEF Crash, TypeOK, sessions
<1>17. CASE UNCHANGED vars
    BY <1>17 DEF vars, storage, sessions, ghosts, TypeOK
<1>18. QED
    BY <1>1, <1>2, <1>3, <1>8, <1>9, <1>10, <1>11, <1>12, <1>13, <1>14, <1>15, <1>16, <1>17
    DEF Next, Drop

\* Everything has its type.
THEOREM TypeCorrect == Spec => []TypeOK
BY TypeInit, TypeStays, PTL DEF Spec


(***************************************************************************)
(* The records of a walk, step by step.                                    *)
(***************************************************************************)

\* The walk of x goes from one phase to another, for the same entry.
Goes(x, from, to) ==
    /\ job[x].pc = from /\ job'[x].pc = to
    /\ job'[x].stem = job[x].stem /\ job'[x].old = job[x].old

LEMMA FileStep ==
    ASSUME TypeOK, NEW x \in Syncer, NEW f \in File, SyncFile(x, f)
    PROVE  /\ Goes(x, "walk", "walk")
           /\ f \in job[x].todo /\ job'[x].todo = job[x].todo \ {f}
           /\ job'[x].new = job[x].new \cup {f}
<1>1. /\ job' = [job EXCEPT ![x].todo = @ \ {f}, ![x].new = @ \cup {f},
                            ![x].changed = @ \/ repo[f] # upper[f]]
      /\ job[x].pc = "walk" /\ f \in job[x].todo
    BY DEF SyncFile
<1>2. job[x] \in Job /\ job \in [Syncer -> Job]
    BY DEF TypeOK
<1>3. job'[x] = [job[x] EXCEPT !.todo = @ \ {f}, !.new = @ \cup {f},
                               !.changed = @ \/ repo[f] # upper[f]]
    BY <1>1, <1>2
<1>4. QED
    BY <1>1, <1>2, <1>3 DEF Job, Goes

LEMMA WalkDoneStep ==
    ASSUME TypeOK, NEW x \in Syncer, WalkDone(x)
    PROVE  /\ Goes(x, "walk", "prune")
           /\ job[x].todo = {} /\ job'[x].todo = job[x].old \ job[x].new
           /\ job'[x].new = job[x].new
BY DEF WalkDone, TypeOK, Job, Goes

LEMMA PruneStep ==
    ASSUME TypeOK, NEW x \in Syncer, NEW f \in File, Prune(x, f)
    PROVE  /\ Goes(x, "prune", "prune")
           /\ f \in job[x].todo /\ job'[x].todo = job[x].todo \ {f}
           /\ job'[x].new = job[x].new
BY DEF Prune, TypeOK, Job, Goes

LEMMA SaveStep ==
    ASSUME TypeOK, NEW x \in Syncer, SaveManifest(x)
    PROVE  /\ job[x].pc = "prune" /\ job[x].todo = {} /\ dir
           /\ x # "cli" => job'[x] = Idle
           /\ x = "cli" => Goes(x, "prune", "mark") /\ job'[x].new = job[x].new
           /\ job[x].stem < Longest
           /\ manifest' = [manifest EXCEPT ![job[x].stem + 1] = job[x].new]
<1>1. job' = [job EXCEPT ![x] = IF x = "cli" THEN [@ EXCEPT !.pc = "mark"] ELSE Idle]
    BY DEF SaveManifest
<1>2. job[x] \in Job /\ job \in [Syncer -> Job]
    BY DEF TypeOK
<1>3. job'[x] = IF x = "cli" THEN [job[x] EXCEPT !.pc = "mark"] ELSE Idle
    BY <1>1, <1>2
<1>4. QED
    BY <1>2, <1>3 DEF SaveManifest, Job, Goes

LEMMA FailStep ==
    ASSUME TypeOK, NEW x \in Syncer, SyncFails(x)
    PROVE  job'[x] = Idle /\ job'[x].pc = "idle"
BY IdleType DEF SyncFails, TypeOK
(***************************************************************************)
(* The session.  What a crash leaves behind is met by the next session,    *)
(* and then all this is false (see cow_stale): either there is no crash,   *)
(* or no session after it.                                                 *)
(***************************************************************************)

Fresh == ~MayCrash \/ MaxSessions <= 1

\* A session is there, or was until it crashed.
Live == phase # "down" \/ ended = "crashed"

\* The agent has written or removed f: this does not end before the session does.
Touched(f) == upper[f] \in Content \/ view[f] = Absent

Kept(e) == IF manifest[e] = NoManifest THEN {} ELSE manifest[e]

\* All files that a walk may take something from or to.
Reach(j) == j.todo \cup j.old \cup j.new

\* What a clean end leaves of sessions/ is nothing, and no sync begins then.
PhaseInv ==
    /\ Live => count.sessions >= 1
    /\ ended = "crashed" => MayCrash
    /\ phase # "dropping" \/ drop.entry = NoEntry => job["exit"] = Idle
    /\ phase = "up" => mounted /\ dir /\ stateFile
    /\ phase # "down" => ended = "no"
    /\ ~Live => /\ ~stateFile /\ \A e \in Entry \ {0} : manifest[e] = NoManifest
                /\ dir => job["cli"] = Idle

\* The agent sees the upper layer where that has anything.
LayerInv == \A f \in File : upper[f] \in Content => view[f] = upper[f]

\* No sync goes beyond what was touched ...
TouchInv ==
    /\ \A x \in Syncer : \A f \in Reach(job[x]) : Touched(f)
    /\ \A e \in Entry \ {0} : \A f \in Kept(e) : Touched(f)

\* ... and the rest of the repository is what the agent sees.
Merged == Live => \A f \in File : Touched(f) \/ repo[f] = view[f]

SessionInv == TypeOK /\ PhaseInv /\ LayerInv /\ TouchInv /\ Merged

LEMMA KeptType ==
    ASSUME TypeOK, NEW e \in Entry \ {0}
    PROVE  Kept(e) \subseteq File /\ (Kept(e) # {} => manifest[e] # NoManifest)
<1>1. manifest[e] \in {NoManifest} \cup SUBSET File
    BY DEF TypeOK
<1>2. QED
    BY <1>1 DEF Kept

\* What a walk starts with was touched.
LEMMA WalkReach ==
    ASSUME SessionInv, NEW stem \in Entry
    PROVE  \A f \in Reach(Walk(stem)) : Touched(f)
<1>1. TypeOK /\ TouchInv
    BY DEF SessionInv
<1>2. stem # Longest => stem + 1 \in Entry \ {0}
    BY ConstantsOK DEF Entry
<1>3. \A f \in Walk(stem).old : Touched(f)
    BY <1>1, <1>2, WalkType DEF TouchInv, Kept
<1>4. \A f \in Walk(stem).todo \cup Walk(stem).new : Touched(f)
    BY <1>1, WalkType DEF Touched
<1>5. QED
    BY <1>3, <1>4 DEF Reach

LEMMA IdleReach == Reach(Idle) = {} /\ Idle.pc = "idle"
BY DEF Reach, Idle

\* What a step of a sync does to the repository and to its own records.
LEMMA SyncEffect ==
    ASSUME SessionInv, NEW x \in Syncer, Sync(x)
    PROVE  /\ \A f \in File : Touched(f) \/ repo'[f] = repo[f]
           /\ \A y \in Syncer \ {x} : job'[y] = job[y]
           /\ Reach(job'[x]) \subseteq Reach(job[x])
           /\ \A e \in Entry \ {0} : Kept(e)' \subseteq Kept(e) \cup Reach(job[x])
           /\ manifest' = manifest \/ dir
           /\ UNCHANGED <<upper, view, mounted, dir, stateFile, marker, phase, ended, drop, quiet, lower, count>>
<1>1. /\ TypeOK /\ TouchInv /\ job[x] \in Job /\ job \in [Syncer -> Job]
      /\ repo \in [File -> Content \cup {Absent}]
    BY DEF SessionInv, TypeOK
<1>2. \A y \in Syncer \ {x} : job'[y] = job[y]
    <2>1. ASSUME NEW f \in File, SyncFile(x, f) PROVE \A y \in Syncer \ {x} : job'[y] = job[y]
        BY <1>1, <2>1 DEF SyncFile
    <2>2. ASSUME NEW f \in File, Prune(x, f) PROVE \A y \in Syncer \ {x} : job'[y] = job[y]
        BY <1>1, <2>2 DEF Prune
    <2>3. CASE WalkDone(x) \/ SaveManifest(x) \/ SyncFails(x)
        BY <1>1, <2>3 DEF WalkDone, SaveManifest, SyncFails
    <2>4. QED
        BY <2>1, <2>2, <2>3 DEF Sync
<1>3. ASSUME NEW f \in File, SyncFile(x, f)
      PROVE  /\ \A g \in File : Touched(g) \/ repo'[g] = repo[g]
             /\ Reach(job'[x]) \subseteq Reach(job[x])
    <2>1. repo' = [repo EXCEPT ![f] = upper[f]]
        BY <1>3 DEF SyncFile
    <2>2. QED
        BY <1>1, <1>3, <2>1, FileStep DEF TouchInv, Reach, Goes
<1>4. ASSUME NEW f \in File, Prune(x, f)
      PROVE  /\ \A g \in File : Touched(g) \/ repo'[g] = repo[g]
             /\ Reach(job'[x]) \subseteq Reach(job[x])
    BY <1>1, <1>4 DEF Prune, TouchInv, Job, Reach
<1>5. ASSUME WalkDone(x) PROVE Reach(job'[x]) \subseteq Reach(job[x])
    BY <1>1, <1>5 DEF WalkDone, Job, Reach
<1>6. ASSUME SaveManifest(x)
      PROVE  /\ Reach(job'[x]) \subseteq Reach(job[x])
             /\ \A e \in Entry \ {0} : Kept(e)' \subseteq Kept(e) \cup Reach(job[x])
             /\ dir
    <2>1. /\ job' = [job EXCEPT ![x] = IF x = "cli" THEN [@ EXCEPT !.pc = "mark"] ELSE Idle]
          /\ manifest' = [manifest EXCEPT ![job[x].stem + 1] = job[x].new]
          /\ dir
        BY <1>6 DEF SaveManifest
    <2>2. Reach(job'[x]) \subseteq Reach(job[x])
        BY <1>1, <2>1, IdleReach DEF Job, Reach
    <2>3. \A e \in Entry \ {0} : Kept(e)' \subseteq Kept(e) \cup job[x].new
        <3>1. manifest \in [Entry \ {0} -> {NoManifest} \cup SUBSET File]
            BY <1>1 DEF TypeOK
        <3>2. \A e \in Entry \ {0} : manifest'[e] = manifest[e] \/ manifest'[e] = job[x].new
            BY <2>1, <3>1
        <3>3. QED
            BY <3>2 DEF Kept
    <2>4. QED
        BY <2>1, <2>2, <2>3 DEF Reach
<1>7. ASSUME SyncFails(x) PROVE Reach(job'[x]) \subseteq Reach(job[x])
    BY <1>1, <1>7, FailStep, IdleReach
<1>8. ASSUME NEW f \in File, SyncFile(x, f) \/ Prune(x, f)
      PROVE  UNCHANGED <<upper, manifest, view, mounted, dir, stateFile, marker, phase, ended, drop,
                         quiet, lower, count>>
    BY <1>8 DEF SyncFile, Prune, sessions, ghosts
<1>9. ASSUME WalkDone(x) \/ SyncFails(x)
      PROVE  UNCHANGED <<repo, upper, manifest, view, mounted, dir, stateFile, marker, phase, ended, drop,
                         quiet, lower, count>>
    BY <1>9 DEF WalkDone, SyncFails, storage, sessions, ghosts
<1>10. ASSUME SaveManifest(x)
       PROVE  UNCHANGED <<upper, repo, view, mounted, dir, stateFile, marker, phase, ended, drop,
                          quiet, lower, count>>
    BY <1>10 DEF SaveManifest, storage, ghosts
<1>11. ASSUME manifest' = manifest PROVE \A e \in Entry : Kept(e)' = Kept(e)
    BY <1>11 DEF Kept
<1>12. CASE \E f \in File : SyncFile(x, f) \/ Prune(x, f)
    BY <1>12, <1>2, <1>3, <1>4, <1>8, <1>11
<1>13. CASE WalkDone(x) \/ SyncFails(x)
    BY <1>13, <1>2, <1>5, <1>7, <1>9, <1>11
<1>14. CASE SaveManifest(x)
    BY <1>14, <1>2, <1>6, <1>10
<1>15. QED
    BY <1>12, <1>13, <1>14 DEF Sync

Editing == \E f \in File, c \in Content \cup {Absent} : Edit(f, c)

\* What an edit does: files are touched, and stay so.
LEMMA EditEffect ==
    ASSUME SessionInv, Editing
    PROVE  /\ \A f \in File : Touched(f) => Touched(f)'
           /\ \A f \in File : Touched(f)' \/ view'[f] = view[f]
           /\ LayerInv'
           /\ UNCHANGED <<repo, mounted, dir, stateFile, marker, manifest, phase, ended, job, drop,
                          aborted, lower, brought>>
           /\ count'.sessions = count.sessions
           /\ Working /\ quiet' = FALSE
<1>1. /\ upper \in [File -> Content \cup {Absent}] /\ view \in [File -> Content \cup {Absent}]
      /\ count \in [sessions : 0..MaxSessions, edits : 0..MaxEdits, syncs : 0..MaxSyncs]
      /\ Absent \notin Content /\ LayerInv
    BY ConstantsOK DEF SessionInv, TypeOK
<1>2. PICK f \in File, c \in Content \cup {Absent} : Edit(f, c)
    BY DEF Editing
<1>3. /\ UNCHANGED <<repo, mounted, dir, stateFile, marker, manifest, phase, ended, job, drop, aborted,
                     lower, brought>>
      /\ count'.sessions = count.sessions /\ quiet' = FALSE /\ Working
      /\ upper' = [upper EXCEPT ![f] = c] /\ view' = [view EXCEPT ![f] = c]
    BY <1>1, <1>2 DEF Edit, sessions
<1>4. \A g \in File : Touched(g) => Touched(g)'
    BY <1>1, <1>3 DEF Touched
<1>5. \A g \in File : Touched(g)' \/ view'[g] = view[g]
    BY <1>1, <1>3 DEF Touched
<1>6. LayerInv'
    BY <1>1, <1>3 DEF LayerInv
<1>7. QED
    BY <1>3, <1>4, <1>5, <1>6

\* A step that only starts and ends walks, and removes manifests.
LEMMA Housekeeping ==
    ASSUME SessionInv, UNCHANGED <<repo, upper, view>>, Live' => Live,
           \A x \in Syncer : job'[x] \in {job[x], Idle} \cup {Walk(e) : e \in Entry},
           \A e \in Entry \ {0} : manifest'[e] \in {manifest[e], NoManifest}
    PROVE  LayerInv' /\ TouchInv' /\ Merged'
<1>1. \A f : Touched(f)' <=> Touched(f)
    BY DEF Touched
<1>2. LayerInv'
    BY <1>1 DEF SessionInv, LayerInv
<1>3. ASSUME NEW x \in Syncer
      PROVE  \A f \in Reach(job'[x]) : Touched(f)
    <2>1. CASE job'[x] = job[x]
        BY <2>1 DEF SessionInv, TouchInv
    <2>2. CASE job'[x] = Idle
        BY <2>2, IdleReach
    <2>3. CASE \E e \in Entry : job'[x] = Walk(e)
        BY <2>3, WalkReach
    <2>4. QED
        BY <2>1, <2>2, <2>3
<1>4. \A e \in Entry \ {0} : \A f \in Kept(e)' : Touched(f)
    BY DEF SessionInv, TouchInv, Kept
<1>5. TouchInv'
    BY <1>1, <1>3, <1>4 DEF TouchInv
<1>6. Merged'
    BY <1>1 DEF SessionInv, Merged
<1>7. QED
    BY <1>2, <1>5, <1>6

LEMMA SessionInit == Init => SessionInv
<1> SUFFICES ASSUME Init PROVE SessionInv
    OBVIOUS
<1>1. TypeOK
    BY TypeInit
<1>2. PhaseInv
    BY DEF Init, PhaseInv, Live, Syncer, NoManifests, NoDrop
<1>3. LayerInv
    BY ConstantsOK DEF Init, LayerInv, NothingUpper
<1>4. TouchInv
    BY IdleReach DEF Init, TouchInv, Kept, NoManifests
<1>5. Merged
    BY DEF Init, Merged
<1>6. QED
    BY <1>1, <1>2, <1>3, <1>4, <1>5 DEF SessionInv

\* The session that a setup begins has nothing of an earlier one.
LEMMA SetupKeeps ==
    ASSUME Fresh, SessionInv, Setup
    PROVE  SessionInv'
<1> USE DEF SessionInv
<1>1. TypeOK'
    BY TypeStays DEF Next
<1>2. /\ phase = "down" /\ job["cli"] = Idle /\ count.sessions < MaxSessions
      /\ upper' = [f \in File |-> Absent] /\ mounted' = TRUE /\ dir' = TRUE
      /\ stateFile' = TRUE /\ phase' = "up" /\ ended' = "no" /\ view' = repo
      /\ count' = [count EXCEPT !.sessions = @ + 1] /\ repo' = repo /\ manifest' = manifest /\ job' = job
    BY DEF Setup, NothingUpper
<1>3. count \in [sessions : 0..MaxSessions, edits : 0..MaxEdits, syncs : 0..MaxSyncs] /\ MaxSessions \in Nat
    BY ConstantsOK DEF TypeOK
<1>4. ~Live
    BY <1>2, <1>3 DEF Fresh, PhaseInv, Live
<1>5. \A x \in Syncer : job[x] = Idle
    BY <1>2 DEF PhaseInv, Syncer
<1>6. \A e \in Entry \ {0} : Kept(e)' = {}
    BY <1>2, <1>4 DEF PhaseInv, Kept
<1>7. count'.sessions >= 1
    BY <1>2, <1>3
<1>8. PhaseInv'
    BY <1>2, <1>5, <1>7 DEF PhaseInv, Live, Syncer
<1>9. LayerInv'
    BY <1>2, ConstantsOK DEF LayerInv
<1>10. TouchInv'
    BY <1>2, <1>5, <1>6, IdleReach DEF TouchInv
<1>11. Merged'
    BY <1>2 DEF Merged
<1>12. QED
    BY <1>1, <1>8, <1>9, <1>10, <1>11

LEMMA SetupFailsKeeps ==
    ASSUME Fresh, SessionInv, SetupFails
    PROVE  SessionInv'
<1> USE DEF SessionInv
<1>1. TypeOK'
    BY TypeStays DEF Next
<1>2. /\ phase = "down" /\ job["cli"] = Idle /\ count.sessions < MaxSessions
      /\ upper' \in {upper, [f \in File |-> Absent]}
      /\ count' = [count EXCEPT !.sessions = @ + 1] /\ repo' = repo /\ manifest' = manifest /\ job' = job
      /\ phase' = phase /\ ended' = ended /\ view' = view /\ stateFile' = stateFile /\ drop' = drop
    BY DEF SetupFails, ghosts, NothingUpper
<1>3. count \in [sessions : 0..MaxSessions, edits : 0..MaxEdits, syncs : 0..MaxSyncs] /\ MaxSessions \in Nat
    BY ConstantsOK DEF TypeOK
<1>4. ~Live /\ ~Live'
    BY <1>2, <1>3 DEF Fresh, PhaseInv, Live
<1>5. \A x \in Syncer : job[x] = Idle
    BY <1>2 DEF PhaseInv, Syncer
<1>6. \A e \in Entry \ {0} : Kept(e)' = {}
    BY <1>2, <1>4 DEF PhaseInv, Kept
<1>7. PhaseInv'
    BY <1>2, <1>4 DEF PhaseInv, Live
<1>8. LayerInv'
    <2>1. CASE upper' = upper
        BY <1>2, <2>1 DEF LayerInv
    <2>2. CASE upper' = [f \in File |-> Absent]
        BY <2>2, ConstantsOK DEF LayerInv
    <2>3. QED
        BY <1>2, <2>1, <2>2
<1>9. TouchInv'
    BY <1>2, <1>5, <1>6, IdleReach DEF TouchInv
<1>10. QED
    BY <1>1, <1>4, <1>7, <1>8, <1>9 DEF Merged

LEMMA EditKeeps ==
    ASSUME SessionInv, Editing
    PROVE  SessionInv'
<1>1. TypeOK'
    BY TypeStays DEF SessionInv, Editing, Next
<1>2. /\ UNCHANGED <<repo, mounted, dir, stateFile, manifest, phase, ended, job, drop>>
      /\ count'.sessions = count.sessions
      /\ \A f \in File : Touched(f) => Touched(f)'
      /\ \A f \in File : Touched(f)' \/ view'[f] = view[f]
    BY EditEffect
<1>3. PhaseInv'
    BY <1>2 DEF SessionInv, PhaseInv, Live
<1>4. TouchInv'
    <2>1. \A x \in Syncer : Reach(job[x]) \subseteq File
        BY DEF SessionInv, TypeOK, Job, Reach
    <2>2. \A e \in Entry \ {0} : Kept(e)' = Kept(e) /\ Kept(e) \subseteq File
        BY <1>2, KeptType DEF SessionInv, Kept
    <2>3. QED
        BY <1>2, <2>1, <2>2 DEF SessionInv, TouchInv
<1>5. Merged'
    BY <1>2 DEF SessionInv, Merged, Live
<1>6. QED
    BY <1>1, <1>3, <1>4, <1>5, EditEffect DEF SessionInv

LEMMA SyncKeeps ==
    ASSUME SessionInv, NEW x \in Syncer, Sync(x)
    PROVE  SessionInv'
<1>1. TypeOK'
    BY TypeStays DEF SessionInv, Next
<1>2. TypeOK /\ PhaseInv /\ LayerInv /\ TouchInv /\ Merged
    BY DEF SessionInv
<1>3. /\ \A f \in File : Touched(f) \/ repo'[f] = repo[f]
      /\ \A y \in Syncer \ {x} : job'[y] = job[y]
      /\ Reach(job'[x]) \subseteq Reach(job[x])
      /\ \A e \in Entry \ {0} : Kept(e)' \subseteq Kept(e) \cup Reach(job[x])
      /\ manifest' = manifest \/ dir
      /\ UNCHANGED <<upper, view, mounted, dir, stateFile, phase, ended, drop, count>>
    BY SyncEffect
<1>4. job[x].pc # "idle"
    BY DEF Sync, SyncFile, Prune, WalkDone, SaveManifest, SyncFails
<1>5. \A f \in File : Touched(f)' <=> Touched(f)
    BY <1>3 DEF Touched
<1>6. PhaseInv'
    <2>1. phase # "dropping" \/ drop.entry = NoEntry => x # "exit" /\ job'["exit"] = Idle
        BY <1>2, <1>3, <1>4, IdleReach DEF PhaseInv, Syncer
    <2>2. ~Live => ~dir /\ manifest' = manifest
        <3>1. ~Live => x = "cli"
            BY <2>1 DEF Live, Syncer
        <3>2. QED
            BY <1>2, <1>3, <1>4, <3>1, IdleReach DEF PhaseInv
    <2>3. QED
        BY <1>2, <1>3, <2>1, <2>2 DEF PhaseInv, Live
<1>7. LayerInv'
    BY <1>2, <1>3 DEF LayerInv
<1>8. TouchInv'
    <2>1. \A y \in Syncer : Reach(job[y]) \subseteq File
        BY <1>2 DEF TypeOK, Job, Reach
    <2>2. \A e \in Entry \ {0} : Kept(e) \subseteq File
        BY <1>2, KeptType
    <2>3. ASSUME NEW y \in Syncer PROVE \A f \in Reach(job'[y]) : Touched(f)'
        BY <1>2, <1>3, <1>5, <2>1 DEF TouchInv
    <2>4. \A e \in Entry \ {0} : \A f \in Kept(e)' : Touched(f)'
        BY <1>2, <1>3, <1>5, <2>1, <2>2 DEF TouchInv
    <2>5. QED
        BY <2>3, <2>4 DEF TouchInv
<1>9. Merged'
    BY <1>2, <1>3, <1>5 DEF Merged, Live
<1>10. QED
    BY <1>1, <1>6, <1>7, <1>8, <1>9 DEF SessionInv

\* The session is what it should be, whoever does what.
LEMMA SessionStays == Fresh /\ SessionInv /\ [Next]_vars => SessionInv'
<1> SUFFICES ASSUME Fresh, SessionInv, [Next]_vars PROVE SessionInv'
    OBVIOUS
<1>1. TypeOK'
    BY TypeStays DEF SessionInv
<1>2. TypeOK /\ PhaseInv /\ job \in [Syncer -> Job] /\ manifest \in [Entry \ {0} -> {NoManifest} \cup SUBSET File]
      /\ count \in [sessions : 0..MaxSessions, edits : 0..MaxEdits, syncs : 0..MaxSyncs]
    BY DEF SessionInv, TypeOK
<1>3. ASSUME LayerInv' /\ TouchInv' /\ Merged', PhaseInv' PROVE SessionInv'
    BY <1>1, <1>3 DEF SessionInv
<1>4. CASE CliSync
    <2>1. /\ job' = [job EXCEPT !["cli"] = Walk(0)] /\ mounted /\ stateFile
          /\ UNCHANGED <<repo, upper, mounted, dir, stateFile, manifest, phase, ended, view, drop>>
          /\ count'.sessions = count.sessions
        BY <1>2, <1>4 DEF CliSync, CliReady, storage, sessions
    <2>2. LayerInv' /\ TouchInv' /\ Merged'
        BY <1>2, <2>1, ConstantsOK, Housekeeping DEF Live, Entry
    <2>3. PhaseInv'
        BY <1>2, <2>1 DEF PhaseInv, Live, Syncer
    <2>4. QED
        BY <1>3, <2>2, <2>3
<1>5. CASE CliForgets
    <2>1. /\ ~mounted /\ stateFile' = FALSE
          /\ UNCHANGED <<repo, upper, mounted, dir, manifest, phase, ended, view, job, drop>>
          /\ count'.sessions = count.sessions
        BY <1>2, <1>5 DEF CliForgets, CliReady, storage, ghosts
    <2>2. LayerInv' /\ TouchInv' /\ Merged'
        BY <1>2, <2>1, Housekeeping DEF Live
    <2>3. PhaseInv'
        <3>1. phase # "up"
            BY <1>2, <2>1 DEF PhaseInv
        <3>2. Live' = Live
            BY <2>1 DEF Live
        <3>3. QED
            BY <1>2, <2>1, <3>1, <3>2 DEF PhaseInv
    <2>4. QED
        BY <1>3, <2>2, <2>3
<1>6. CASE CliMarks
    <2>1. /\ job' = [job EXCEPT !["cli"] = Idle]
          /\ UNCHANGED <<repo, upper, mounted, dir, stateFile, manifest, phase, ended, view, drop, count>>
        BY <1>6 DEF CliMarks, storage
    <2>2. LayerInv' /\ TouchInv' /\ Merged'
        BY <1>2, <2>1, Housekeeping DEF Live
    <2>3. PhaseInv'
        BY <1>2, <2>1 DEF PhaseInv, Live, Syncer
    <2>4. QED
        BY <1>3, <2>2, <2>3
<1>7. CASE ContainerEnds
    <2>1. /\ phase = "up" /\ phase' = "dropping" /\ drop'.entry = NoEntry
          /\ UNCHANGED <<repo, upper, mounted, dir, stateFile, manifest, ended, view, job, count>>
        BY <1>7 DEF ContainerEnds, NoDrop, storage, sessions, ghosts
    <2>2. LayerInv' /\ TouchInv' /\ Merged'
        BY <1>2, <2>1, Housekeeping DEF Live
    <2>3. PhaseInv'
        BY <1>2, <2>1 DEF PhaseInv, Live
    <2>4. QED
        BY <1>3, <2>2, <2>3
<1>8. ASSUME NEW e \in Entry, DropTakes(e) PROVE SessionInv'
    <2>1. /\ phase = "dropping" /\ drop'.entry # NoEntry
          /\ job' = [job EXCEPT !["exit"] = IF ~Marked(e) /\ HasUnsynced THEN Walk(e) ELSE Idle]
          /\ UNCHANGED <<repo, upper, mounted, dir, stateFile, manifest, phase, ended, view, count>>
        BY <1>8 DEF DropTakes, Entry, NoEntry, storage, sessions, ghosts
    <2>2. LayerInv' /\ TouchInv' /\ Merged'
        BY <1>2, <2>1, Housekeeping DEF Live
    <2>3. PhaseInv'
        BY <1>2, <2>1 DEF PhaseInv, Live
    <2>4. QED
        BY <1>3, <2>2, <2>3
<1>9. CASE DropRemoves
    <2>1. /\ phase = "dropping" /\ job["exit"] = Idle
          /\ UNCHANGED <<repo, upper, mounted, dir, phase, ended, view, job, count>> /\ (stateFile' => stateFile)
          /\ \A e \in Entry \ {0} : manifest'[e] \in {manifest[e], NoManifest}
        BY <1>2, <1>9 DEF DropRemoves, storage, ghosts
    <2>2. LayerInv' /\ TouchInv' /\ Merged'
        BY <1>2, <2>1, Housekeeping DEF Live
    <2>3. PhaseInv'
        BY <1>2, <2>1 DEF PhaseInv, Live
    <2>4. QED
        BY <1>3, <2>2, <2>3
<1>10. CASE DropEnds
    <2>1. /\ phase = "dropping" /\ phase' = "down" /\ ended' = "clean" /\ dir' = FALSE
          /\ stateFile' = FALSE /\ drop.entry = NoEntry /\ job' = job
          /\ UNCHANGED <<repo, upper, view, count>>
          /\ manifest' = [e \in Entry \ {0} |-> NoManifest]
        BY <1>10 DEF DropEnds, NoManifests, ghosts
    <2>2. LayerInv' /\ TouchInv' /\ Merged'
        BY <1>2, <2>1, Housekeeping DEF Live
    <2>3. PhaseInv'
        BY <1>2, <2>1 DEF PhaseInv, Live
    <2>4. QED
        BY <1>3, <2>2, <2>3
<1>11. CASE Crash
    <2>1. /\ MayCrash /\ phase # "down" /\ phase' = "down" /\ ended' = "crashed"
          /\ UNCHANGED <<repo, upper, manifest, view, count>>
          /\ \/ job' = [job EXCEPT !["exit"] = Idle]
             \/ job' = [x \in Syncer |-> Idle]
        BY <1>11 DEF Crash, sessions
    <2>2. job'["exit"] = Idle /\ \A x \in Syncer : job'[x] \in {job[x], Idle}
        BY <1>2, <2>1 DEF Syncer
    <2>3. LayerInv' /\ TouchInv' /\ Merged'
        BY <1>2, <2>1, <2>2, Housekeeping DEF Live
    <2>4. PhaseInv'
        BY <1>2, <2>1, <2>2 DEF PhaseInv, Live
    <2>5. QED
        BY <1>3, <2>3, <2>4
<1>12. CASE UNCHANGED vars
    <2>1. UNCHANGED <<repo, upper, mounted, dir, stateFile, manifest, phase, ended, view, job, drop, count>>
        BY <1>12 DEF vars, storage, sessions, ghosts
    <2>2. LayerInv' /\ TouchInv' /\ Merged'
        BY <1>2, <2>1, Housekeeping DEF Live
    <2>3. PhaseInv'
        BY <1>2, <2>1 DEF PhaseInv, Live
    <2>4. QED
        BY <1>3, <2>2, <2>3
<1>13. QED
    BY <1>4, <1>5, <1>6, <1>7, <1>8, <1>9, <1>10, <1>11, <1>12,
       SetupKeeps, SetupFailsKeeps, EditKeeps, SyncKeeps
    DEF Next, Drop, Editing

LEMMA SessionHolds == ASSUME Fresh PROVE Spec => []SessionInv
<1>1. Init => SessionInv
    BY SessionInit
<1>2. SessionInv /\ [Next]_vars => SessionInv'
    BY SessionStays
<1>3. QED
    BY <1>1, <1>2, PTL DEF Spec

(***************************************************************************)
(* What a sync removes.  A walk that no edit has interfered with agrees    *)
(* with the upper layer at every step; only an edit while both syncers are *)
(* at work escapes it, when `quiet' speaks of the manual one alone.        *)
(***************************************************************************)

\* No edit since syncer x began.
Undisturbed(x) ==
    IF x = "cli" THEN quiet
    ELSE phase = "dropping" /\ (~CommandsOutlive \/ (quiet /\ ~SyncAtExit))

UpToDate(x) ==
    /\ job[x].pc = "walk" =>
            \A f \in File : upper[f] \in Content <=> f \in job[x].todo \cup job[x].new
    /\ job[x].pc = "prune" => \A f \in job[x].todo : upper[f] \notin Content

FreshInv == \A x \in Syncer : Undisturbed(x) => UpToDate(x)

\* A walk begins up to date.
LEMMA WalkUpToDate ==
    ASSUME TypeOK, NEW x \in Syncer, NEW e \in Entry, job'[x] = Walk(e), upper' = upper
    PROVE  UpToDate(x)'
<1>1. /\ job'[x].pc = "walk" /\ job'[x].new = {}
      /\ job'[x].todo = {f \in File : upper[f] \in Content}
    BY WalkType
<1>2. QED
    BY <1>1 DEF UpToDate

\* It stays so while the upper layer does.
LEMMA SameUpToDate ==
    ASSUME SessionInv, NEW x \in Syncer, UpToDate(x), job'[x] \in {job[x], Idle}, upper' = upper
    PROVE  UpToDate(x)'
<1>1. CASE job'[x] = job[x]
    BY <1>1 DEF UpToDate
<1>2. CASE job'[x] = Idle
    BY <1>2, IdleReach DEF UpToDate
<1>3. QED
    BY <1>1, <1>2

\* And its own steps keep it so.
LEMMA SyncUpToDate ==
    ASSUME SessionInv, NEW x \in Syncer, Sync(x), UpToDate(x)
    PROVE  UpToDate(x)'
<1>1. TypeOK /\ job[x] \in Job /\ upper' = upper
    BY SyncEffect DEF SessionInv, TypeOK
<1>2. ASSUME NEW f \in File, SyncFile(x, f) PROVE UpToDate(x)'
    BY <1>1, <1>2, FileStep DEF UpToDate, Goes
<1>3. ASSUME NEW f \in File, Prune(x, f) PROVE UpToDate(x)'
    BY <1>1, <1>3, PruneStep DEF UpToDate, Goes
<1>4. CASE WalkDone(x)
    <2>1. job[x].old \subseteq File
        BY <1>1 DEF Job
    <2>2. QED
        BY <1>1, <1>4, <2>1, WalkDoneStep DEF UpToDate, Goes
<1>5. CASE SaveManifest(x) \/ SyncFails(x)
    <2>1. job'[x].pc \in {"mark", "idle"}
        BY <1>1, <1>5, SaveStep, FailStep, IdleReach DEF Goes
    <2>2. QED
        BY <2>1 DEF UpToDate
<1>6. QED
    BY <1>2, <1>3, <1>4, <1>5 DEF Sync

LEMMA FreshStays == Fresh /\ SessionInv /\ FreshInv /\ [Next]_vars => FreshInv'
<1> SUFFICES ASSUME Fresh, SessionInv, FreshInv, [Next]_vars, NEW x \in Syncer, Undisturbed(x)'
             PROVE  UpToDate(x)'
    BY DEF FreshInv
<1>1. TypeOK /\ PhaseInv /\ job \in [Syncer -> Job]
    BY DEF SessionInv, TypeOK
<1>2. x = "cli" \/ x = "exit"
    BY DEF Syncer
<1>3. ASSUME job[x] = Idle, job' = job PROVE UpToDate(x)'
    BY <1>3, IdleReach DEF UpToDate
<1>4. ASSUME Undisturbed(x), upper' = upper, job'[x] \in {job[x], Idle} PROVE UpToDate(x)'
    BY <1>4, SameUpToDate DEF FreshInv
<1>5. CASE Setup \/ SetupFails
    <2>1. phase = "down" /\ job["cli"] = Idle /\ job' = job
        BY <1>5 DEF Setup, SetupFails
    <2>2. QED
        BY <1>1, <1>2, <1>3, <2>1 DEF PhaseInv
<1>6. CASE Editing
    <2>1. Working /\ quiet' = FALSE /\ phase' = phase /\ job' = job
        BY <1>6, EditEffect
    <2>2. QED
        BY <2>1, <1>2 DEF Working, Undisturbed
<1>7. CASE CliSync
    <2>1. /\ job' = [job EXCEPT !["cli"] = Walk(0)] /\ upper' = upper /\ phase' = phase
          /\ SyncAtExit \/ phase # "dropping"
        BY <1>7 DEF CliSync, CliReady, storage
    <2>2. CASE x = "cli"
        BY <1>1, <2>1, <2>2, ConstantsOK, WalkUpToDate DEF Entry
    <2>3. CASE x = "exit"
        BY <1>1, <1>4, <2>1, <2>3 DEF Undisturbed
    <2>4. QED
        BY <1>2, <2>2, <2>3
<1>8. CASE CliForgets
    <2>1. upper' = upper /\ job' = job /\ phase' = phase /\ quiet' = quiet
        BY <1>8 DEF CliForgets, storage, ghosts
    <2>2. QED
        BY <1>4, <2>1 DEF Undisturbed
<1>9. CASE CliMarks
    <2>1. upper' = upper /\ job' = [job EXCEPT !["cli"] = Idle] /\ phase' = phase /\ quiet' = FALSE
        BY <1>9 DEF CliMarks, storage
    <2>2. QED
        BY <1>1, <1>4, <2>1 DEF Undisturbed
<1>10. ASSUME NEW y \in Syncer, Sync(y) PROVE UpToDate(x)'
    <2>1. /\ \A z \in Syncer \ {y} : job'[z] = job[z]
          /\ upper' = upper /\ phase' = phase /\ quiet' = quiet
        BY <1>10, SyncEffect
    <2>2. Undisturbed(x)
        BY <2>1 DEF Undisturbed
    <2>3. CASE x = y
        BY <1>10, <2>2, <2>3, SyncUpToDate DEF FreshInv
    <2>4. CASE x # y
        BY <2>1, <2>2, <2>4, SameUpToDate DEF FreshInv
    <2>5. QED
        BY <2>3, <2>4
<1>11. CASE ContainerEnds
    <2>1. upper' = upper /\ job' = job /\ phase = "up" /\ quiet' = quiet
        BY <1>11 DEF ContainerEnds, storage, ghosts
    <2>2. CASE x = "cli"
        BY <1>4, <2>1, <2>2 DEF Undisturbed
    <2>3. CASE x = "exit"
        BY <1>1, <1>3, <2>1, <2>3 DEF PhaseInv
    <2>4. QED
        BY <1>2, <2>2, <2>3
<1>12. ASSUME NEW e \in Entry, DropTakes(e) PROVE UpToDate(x)'
    <2>1. /\ job' = [job EXCEPT !["exit"] = IF ~Marked(e) /\ HasUnsynced THEN Walk(e) ELSE Idle]
          /\ upper' = upper /\ quiet' = quiet /\ phase' = phase
        BY <1>12 DEF DropTakes, storage, ghosts
    <2>2. CASE x = "cli"
        BY <1>1, <1>4, <2>1, <2>2 DEF Undisturbed
    <2>3. CASE x = "exit" /\ job'[x] = Idle
        BY <2>3, IdleReach DEF UpToDate
    <2>4. CASE x = "exit" /\ job'[x] = Walk(e)
        BY <1>1, <2>1, <2>4, WalkUpToDate
    <2>5. QED
        BY <1>1, <1>2, <2>1, <2>2, <2>3, <2>4
<1>13. CASE DropRemoves
    <2>1. upper' = upper /\ job' = job /\ phase' = phase /\ quiet' = quiet
        BY <1>13 DEF DropRemoves, storage, ghosts
    <2>2. QED
        BY <1>4, <2>1 DEF Undisturbed
<1>14. CASE DropEnds
    <2>1. upper' = upper /\ job' = job /\ phase' = "down" /\ quiet' = quiet
        BY <1>14 DEF DropEnds, ghosts
    <2>2. QED
        BY <1>2, <1>4, <2>1 DEF Undisturbed
<1>15. CASE Crash
    <2>1. upper' = upper /\ phase' = "down" /\ quiet' = quiet
        BY <1>15 DEF Crash
    <2>2. job'[x] \in {job[x], Idle}
        <3>1. job' = [job EXCEPT !["exit"] = Idle] \/ job' = [z \in Syncer |-> Idle]
            BY <1>15 DEF Crash
        <3>2. QED
            BY <1>1, <3>1
    <2>3. QED
        BY <1>2, <1>4, <2>1, <2>2 DEF Undisturbed
<1>16. CASE UNCHANGED vars
    <2>1. upper' = upper /\ job' = job /\ phase' = phase /\ quiet' = quiet
        BY <1>16 DEF vars, storage, ghosts
    <2>2. QED
        BY <1>4, <2>1 DEF Undisturbed
<1>17. QED
    BY <1>5, <1>6, <1>7, <1>8, <1>9, <1>10, <1>11, <1>12, <1>13, <1>14, <1>15, <1>16 DEF Next, Drop, Editing

\* A file goes from the repository only at the hands of a syncer at work.
LEMMA OnlySyncRemoves ==
    ASSUME SessionInv, [Next]_vars, repo' # repo
    PROVE  \E x \in Syncer : Sync(x) /\ job[x].pc \in {"walk", "prune"}
<1>1. ASSUME NEW x \in Syncer, Sync(x) PROVE job[x].pc \in {"walk", "prune"}
    BY <1>1 DEF Sync, SyncFile, Prune, WalkDone, SaveManifest, SyncFails, storage
<1>2. CASE Editing
    BY <1>2 DEF Editing, Edit
<1>3. CASE Setup \/ SetupFails \/ CliSync \/ CliForgets \/ CliMarks
    BY <1>3 DEF Setup, SetupFails, CliSync, CliForgets, CliMarks, storage
<1>4. CASE ContainerEnds \/ Drop \/ Crash
    BY <1>4 DEF ContainerEnds, Drop, DropTakes, DropRemoves, DropEnds, Crash, storage
<1>5. CASE UNCHANGED vars
    BY <1>5 DEF vars, storage
<1>6. QED
    BY <1>1, <1>2, <1>3, <1>4, <1>5 DEF Next, Editing

\* A walk that is up to date leaves in the repository what the upper layer has, or puts it there.
LEMMA SyncSpares ==
    ASSUME SessionInv, NEW x \in Syncer, Sync(x), UpToDate(x),
           NEW f \in File, upper[f] \in Content
    PROVE  repo'[f] \in {repo[f], upper[f]}
<1>1. /\ job[x] \in Job /\ repo \in [File -> Content \cup {Absent}]
      /\ Absent \notin Content
    BY ConstantsOK DEF SessionInv, TypeOK
<1>2. ASSUME NEW g \in File, SyncFile(x, g) PROVE repo'[f] \in {repo[f], upper[f]}
    BY <1>1, <1>2 DEF SyncFile
<1>3. ASSUME NEW g \in File, Prune(x, g) PROVE repo'[f] = repo[f]
    <2>1. g # f
        BY <1>3 DEF Prune, UpToDate
    <2>2. QED
        BY <1>1, <1>3, <2>1 DEF Prune
<1>4. CASE WalkDone(x) \/ SaveManifest(x) \/ SyncFails(x)
    BY <1>4 DEF WalkDone, SaveManifest, SyncFails, storage
<1>5. QED
    BY <1>2, <1>3, <1>4 DEF Sync

\* So what it removes, the agent has removed.
LEMMA RemovalsAreDeletions ==
    ASSUME SessionInv, NEW x \in Syncer, Sync(x), UpToDate(x),
           NEW f \in File, repo[f] # Absent, repo'[f] = Absent
    PROVE  view[f] = Absent
<1>1. Touched(f)
    BY SyncEffect, repo'[f] # repo[f]
<1>2. upper[f] \notin Content
    BY SyncSpares, ConstantsOK
<1>3. QED
    BY <1>1, <1>2 DEF Touched

\* A sync no edit interferes with removes from the repository only what is gone
\* from the workspace, in every session that no crashed one precedes, unless
\* commands that outlive the container and a manual sync meet its exit at once.
THEOREM OnlyDeletedRemoved ==
    ASSUME Fresh, ~(CommandsOutlive /\ SyncAtExit)
    PROVE  Spec => RemovesOnlyDeleted
<1>1. Init => FreshInv
    BY IdleReach DEF Init, FreshInv, UpToDate
<1>2. SessionInv /\ FreshInv /\ [Next]_vars => FreshInv'
    BY FreshStays
<1>3. SessionInv /\ FreshInv /\ [Next]_vars =>
        [\A f \in File : Calm /\ repo[f] # Absent /\ repo'[f] = Absent => view[f] = Absent]_vars
    <2> SUFFICES ASSUME SessionInv, FreshInv, [Next]_vars, NEW f \in File,
                        Calm, repo[f] # Absent, repo'[f] = Absent
                 PROVE  view[f] = Absent
        OBVIOUS
    <2>1. PICK x \in Syncer : Sync(x) /\ job[x].pc \in {"walk", "prune"}
        BY OnlySyncRemoves
    <2>2. Undisturbed(x)
        <3>1. CommandsOutlive \in BOOLEAN /\ SyncAtExit \in BOOLEAN
            BY ConstantsOK
        <3>2. CASE x = "cli"
            BY <2>1, <3>2, IdleReach DEF Calm, Undisturbed
        <3>3. CASE x # "cli"
            <4>1. phase = "dropping"
                BY <2>1, <3>3, IdleReach DEF SessionInv, PhaseInv, Syncer
            <4>2. QED
                BY <3>1, <3>3, <4>1 DEF Calm, Undisturbed
        <3>4. QED
            BY <3>2, <3>3
    <2>3. UpToDate(x)
        BY <2>2 DEF FreshInv
    <2>4. QED
        BY <2>1, <2>3, RemovalsAreDeletions
<1>4. Spec => []SessionInv
    BY SessionHolds
<1>5. QED
    BY <1>1, <1>2, <1>3, <1>4, PTL DEF Spec, RemovesOnlyDeleted

(***************************************************************************)
(* The exit.  Drop goes by what it finds in sessions/, and a manual sync   *)
(* during the session has told it to skip the session's own file.  That    *)
(* nothing is lost then is owed to the manifest, which Drop takes for one  *)
(* more session and for which it syncs all the same: so the invariant says *)
(* that a marker never comes without a manifest, and that Drop, until all  *)
(* is brought over, has an unmarked file still to meet.                    *)
(***************************************************************************)

\* Nothing breaks off the sync at exit, and it is alone with the upper layer.
Sound == Fresh /\ ~MayFail /\ ~CommandsOutlive /\ ~SyncAtExit

MarkInv ==
    /\ job["cli"].pc \in {"walk", "prune"} => job["cli"].stem = 0
    /\ phase # "down" /\ job["cli"].pc = "mark" => manifest[1] # NoManifest
    /\ phase = "up" /\ marker => manifest[1] # NoManifest
    /\ ~Live => ~marker

\* f is in the repository, or the walk under way will bring it.
OnItsWay(f) ==
    \/ repo[f] = upper[f]
    \/ job["exit"].pc = "walk" /\ f \in job["exit"].todo

Brought == \A f \in File \ Hidden : upper[f] \in Content => OnItsWay(f)

Waiting == job["exit"] = Idle /\ \E e \in drop.left : Present(e) /\ ~Marked(e)

DropInv ==
    phase = "dropping" =>
        /\ job["cli"] = Idle /\ mounted /\ dir
        /\ drop.entry \notin drop.left
        /\ Brought \/ Waiting

EndInv == ended = "clean" => phase = "down" /\ ~dir /\ ~mounted /\ job["cli"] = Idle

ExitInv == MarkInv /\ DropInv /\ EndInv /\ WritesReachRepo

\* The walk at exit keeps up with the upper layer and is not cut short.
LEMMA WalkBrings ==
    ASSUME SessionInv, Sync("exit"), UpToDate("exit"), ~MayFail, mounted, dir, Brought
    PROVE  Brought'
<1> DEFINE x == "exit"
<1>1. x \in Syncer /\ job \in [Syncer -> Job] /\ job[x] \in Job
    BY DEF Syncer, SessionInv, TypeOK
<1> HIDE DEF x
<1>2. upper' = upper
    BY <1>1, SyncEffect DEF x
<1>3. \A f \in File : upper[f] \in Content => repo'[f] \in {repo[f], upper[f]}
    BY <1>1, SyncSpares DEF x
<1>4. SUFFICES ASSUME NEW f \in File \ Hidden, upper[f] \in Content,
                      job[x].pc = "walk", f \in job[x].todo, repo[f] # upper[f]
               PROVE  repo'[f] = upper[f] \/ (job'[x].pc = "walk" /\ f \in job'[x].todo)
    BY <1>2, <1>3 DEF Brought, OnItsWay, x
<1>5. ASSUME NEW g \in File, SyncFile(x, g)
      PROVE  repo'[f] = upper[f] \/ (job'[x].pc = "walk" /\ f \in job'[x].todo)
    <2>1. repo \in [File -> Content \cup {Absent}] /\ repo' = [repo EXCEPT ![g] = upper[g]]
        BY <1>5 DEF SyncFile, SessionInv, TypeOK
    <2>2. Goes(x, "walk", "walk") /\ job'[x].todo = job[x].todo \ {g}
        BY <1>1, <1>5, FileStep DEF SessionInv
    <2>3. QED
        BY <1>4, <2>1, <2>2 DEF Goes
<1>8. ~ SyncFails(x)
    <2>1. job[x].todo \subseteq File
        BY <1>1 DEF Job
    <2>2. \A g \in job[x].todo : upper[g] \in Content
        BY <1>4, <2>1 DEF UpToDate, x
    <2>3. QED
        BY <1>4, <2>2 DEF SyncFails
<1>9. ~ WalkDone(x) /\ ~ SaveManifest(x) /\ \A g \in File : ~ Prune(x, g)
    BY <1>4 DEF WalkDone, SaveManifest, Prune
<1>10. Sync(x)
    BY DEF x
<1>11. QED
    BY <1>5, <1>8, <1>9, <1>10 DEF Sync

\* The manifest a manual sync saves, and the marker it leaves beside it.
LEMMA MarkStays ==
    ASSUME Sound, SessionInv, MarkInv, DropInv, EndInv, [Next]_vars
    PROVE  MarkInv'
<1>1. /\ TypeOK /\ PhaseInv /\ job \in [Syncer -> Job] /\ "cli" \in Syncer /\ "exit" \in Syncer
      /\ manifest \in [Entry \ {0} -> {NoManifest} \cup SUBSET File]
      /\ 0 \in Entry /\ 1 \in Entry \ {0} /\ Idle.pc = "idle"
    BY ConstantsOK, IdleReach DEF SessionInv, TypeOK, Syncer, Entry
<1>2. CASE Setup
    <2>1. /\ phase = "down" /\ job["cli"] = Idle /\ count.sessions < MaxSessions
          /\ marker' = marker /\ job' = job /\ phase' = "up"
        BY <1>2 DEF Setup
    <2>2. ~Live
        <3>1. count.sessions \in Nat /\ MaxSessions \in Nat
            BY <1>1, ConstantsOK DEF TypeOK
        <3>2. QED
            BY <1>1, <2>1, <3>1 DEF Sound, Fresh, PhaseInv, Live
    <2>3. QED
        BY <1>1, <2>1, <2>2 DEF MarkInv, Live
<1>3. CASE SetupFails \/ CliForgets \/ UNCHANGED vars
    <2>1. UNCHANGED <<job, phase, ended, marker, manifest>>
        BY <1>3 DEF SetupFails, CliForgets, vars, storage, sessions, ghosts
    <2>2. QED
        BY <2>1 DEF MarkInv, Live
<1>4. CASE Editing
    <2>1. UNCHANGED <<job, phase, ended, marker, manifest>>
        BY <1>4, EditEffect
    <2>2. QED
        BY <2>1 DEF MarkInv, Live
<1>5. CASE CliSync
    <2>1. /\ job' = [job EXCEPT !["cli"] = Walk(0)]
          /\ UNCHANGED <<phase, ended, marker, manifest>>
        BY <1>5 DEF CliSync, sessions
    <2>2. job'["cli"].pc = "walk" /\ job'["cli"].stem = 0
        BY <1>1, <2>1, WalkType
    <2>3. QED
        BY <2>1, <2>2 DEF MarkInv, Live
<1>6. CASE CliMarks
    <2>1. /\ job["cli"].pc = "mark" /\ (job["cli"].changed => dir)
          /\ job' = [job EXCEPT !["cli"] = Idle] /\ marker' = (marker \/ job["cli"].changed)
          /\ UNCHANGED <<phase, ended, manifest>>
        BY <1>6 DEF CliMarks, storage
    <2>2. job'["cli"].pc = "idle"
        BY <1>1, <2>1
    <2>3. ~Live => marker' = marker
        <3>1. SUFFICES ASSUME ~Live PROVE marker' = marker
            OBVIOUS
        <3>2. Idle.pc = "idle"
            BY DEF Idle
        <3>3. job["cli"] # Idle
            BY <2>1, <3>2
        <3>4. ~dir
            BY <1>1, <3>1, <3>3 DEF PhaseInv
        <3>5. job["cli"].changed = FALSE
            <4>1. job["cli"] \in Job
                BY <1>1
            <4>2. QED
                BY <2>1, <3>4, <4>1 DEF Job
        <3>6. marker \in BOOLEAN
            BY <1>1 DEF TypeOK
        <3>7. QED
            BY <2>1, <3>5, <3>6
    <2>4. QED
        BY <2>1, <2>2, <2>3 DEF MarkInv, Live
<1>7. CASE Sync("cli")
    <2>1. job["cli"].pc # "idle"
        BY <1>7 DEF Sync, SyncFile, Prune, WalkDone, SaveManifest, SyncFails
    <2>2. UNCHANGED <<phase, ended, marker>>
        BY <1>1, <1>7, SyncEffect
    <2>3. CASE SaveManifest("cli")
        <3>1. /\ Goes("cli", "prune", "mark")
              /\ manifest' = [manifest EXCEPT ![job["cli"].stem + 1] = job["cli"].new]
            BY <1>1, <2>3, SaveStep
        <3>2. manifest'[1] = job["cli"].new /\ job["cli"].new \in SUBSET File
            <4>1. job["cli"].stem = 0 /\ job["cli"] \in Job
                BY <1>1, <3>1 DEF MarkInv, Goes
            <4>2. manifest' = [manifest EXCEPT ![1] = job["cli"].new]
                BY <3>1, <4>1
            <4>3. QED
                BY <1>1, <4>1, <4>2 DEF Job
        <3>3. manifest'[1] # NoManifest
            BY <3>2, ConstantsOK
        <3>4. job'["cli"].pc = "mark"
            BY <3>1 DEF Goes
        <3>5. QED
            BY <2>2, <3>3, <3>4 DEF MarkInv, Live
    <2>4. CASE ~SaveManifest("cli")
        <3>1. /\ manifest' = manifest
              /\ job'["cli"].pc = "idle"
                 \/ (job["cli"].pc # "mark" /\ job'["cli"].pc # "mark" /\ job'["cli"].stem = job["cli"].stem)
            <4>1. manifest' = manifest
                BY <1>7, <2>4 DEF Sync, SyncFile, Prune, WalkDone, SyncFails, sessions
            <4>2. ASSUME NEW f \in File, SyncFile("cli", f) \/ Prune("cli", f)
                  PROVE  job["cli"].pc # "mark" /\ job'["cli"].pc # "mark" /\ job'["cli"].stem = job["cli"].stem
                BY <1>1, <4>2, FileStep, PruneStep DEF Goes
            <4>3. ASSUME WalkDone("cli")
                  PROVE  job["cli"].pc # "mark" /\ job'["cli"].pc # "mark" /\ job'["cli"].stem = job["cli"].stem
                BY <1>1, <4>3, WalkDoneStep DEF Goes
            <4>4. SyncFails("cli") => job'["cli"].pc = "idle"
                BY <1>1, FailStep DEF Goes
            <4>5. QED
                BY <1>7, <2>4, <4>1, <4>2, <4>3, <4>4 DEF Sync
        <3>2. QED
            <4>1. CASE job'["cli"].pc = "idle"
                BY <2>2, <3>1, <4>1 DEF MarkInv, Live
            <4>2. CASE /\ job["cli"].pc # "mark" /\ job'["cli"].pc # "mark"
                       /\ job'["cli"].stem = job["cli"].stem
                <5>1. job["cli"].pc \in {"walk", "prune"}
                    BY <1>1, <2>1, <4>2 DEF Job
                <5>2. QED
                    BY <2>2, <3>1, <4>2, <5>1 DEF MarkInv, Live
            <4>3. QED
                BY <3>1, <4>1, <4>2
    <2>5. QED
        BY <2>3, <2>4
<1>8. CASE Sync("exit")
    <2>1. job["exit"].pc # "idle"
        BY <1>8 DEF Sync, SyncFile, Prune, WalkDone, SaveManifest, SyncFails
    <2>2. phase = "dropping"
        BY <1>1, <2>1 DEF PhaseInv
    <2>3. job'["cli"] = job["cli"] /\ UNCHANGED <<phase, ended, marker>>
        BY <1>1, <1>8, SyncEffect
    <2>4. QED
        BY <1>1, <2>2, <2>3 DEF MarkInv, DropInv, Live
<1>9. CASE ContainerEnds
    <2>1. phase = "up" /\ phase' = "dropping" /\ UNCHANGED <<job, ended, marker, manifest>>
        BY <1>9 DEF ContainerEnds, sessions
    <2>2. QED
        BY <2>1 DEF MarkInv, Live
<1>10. ASSUME NEW e \in Entry, DropTakes(e) PROVE MarkInv'
    <2>1. /\ phase = "dropping" /\ UNCHANGED <<phase, ended, marker, manifest>>
          /\ job' = [job EXCEPT !["exit"] = IF ~Marked(e) /\ HasUnsynced THEN Walk(e) ELSE Idle]
        BY <1>10 DEF DropTakes, sessions
    <2>2. job'["cli"] = job["cli"]
        BY <1>1, <2>1
    <2>3. QED
        BY <2>1, <2>2 DEF MarkInv, Live
<1>11. CASE DropRemoves \/ DropEnds
    <2>1. /\ phase = "dropping" /\ job' = job
          /\ phase' = "dropping" \/ (phase' = "down" /\ ended' = "clean" /\ marker' = FALSE)
        BY <1>11 DEF DropRemoves, DropEnds
    <2>2. QED
        BY <1>1, <2>1 DEF MarkInv, DropInv, Live
<1>12. CASE Crash
    <2>1. /\ phase' = "down" /\ ended' = "crashed"
          /\ job' = [job EXCEPT !["exit"] = Idle] \/ job' = [x \in Syncer |-> Idle]
        BY <1>12 DEF Crash
    <2>2. job'["cli"] \in {job["cli"], Idle}
        BY <1>1, <2>1
    <2>3. QED
        BY <1>1, <2>1, <2>2 DEF MarkInv, Live
<1>13. ASSUME NEW x \in Syncer, Sync(x) PROVE MarkInv'
    BY <1>7, <1>8, <1>13 DEF Syncer
<1>14. QED
    BY <1>2, <1>3, <1>4, <1>5, <1>6, <1>9, <1>10, <1>11, <1>12, <1>13 DEF Next, Drop, Editing

\* What is brought over and what waits does not change when the repository,
\* the upper layer and the records of the walk at exit do not.
LEMMA DropRests ==
    ASSUME SessionInv, DropInv, phase' = "dropping" => phase = "dropping",
           UNCHANGED <<repo, upper, mounted, dir, drop, stateFile, marker, manifest, job>>
    PROVE  DropInv'
BY DEF DropInv, Brought, OnItsWay, Waiting, Present, Marked

\* Drop meets the files of sessions/ one by one.
LEMMA DropStays ==
    ASSUME Sound, SessionInv, FreshInv, MarkInv, DropInv, EndInv, [Next]_vars
    PROVE  DropInv'
<1> SUFFICES ASSUME phase' = "dropping" PROVE DropInv'
    BY DEF DropInv
<1>1. /\ TypeOK /\ PhaseInv /\ job \in [Syncer -> Job] /\ "cli" \in Syncer /\ "exit" \in Syncer
      /\ drop \in [left : SUBSET Entry, done : SUBSET Entry, entry : Entry \cup {NoEntry}]
      /\ manifest \in [Entry \ {0} -> {NoManifest} \cup SUBSET File]
      /\ NoEntry \notin Entry /\ 0 \in Entry /\ 1 \in Entry
    BY ConstantsOK DEF SessionInv, TypeOK, Syncer, Entry, NoEntry
<1>2. CASE ContainerEnds
    <2>1. /\ phase = "up" /\ job["cli"] = Idle /\ job' = job
          /\ drop'.left = {e \in Entry : Present(e)} /\ drop'.entry = NoEntry
          /\ UNCHANGED <<stateFile, marker, manifest, mounted, dir>>
        BY <1>2 DEF ContainerEnds, NoDrop, Sound, storage, sessions
    <2>2. mounted /\ dir /\ stateFile /\ job["exit"] = Idle
        BY <1>1, <2>1 DEF PhaseInv
    <2>3. \E e \in Entry : Present(e) /\ ~Marked(e)
        <3>1. CASE marker
            <4>1. manifest[1] # NoManifest
                BY <2>1, <3>1 DEF MarkInv
            <4>2. QED
                BY <1>1, <4>1 DEF Present, Marked
        <3>2. CASE ~marker
            BY <1>1, <2>2, <3>2 DEF Present, Marked
        <3>3. QED
            BY <3>1, <3>2
    <2>4. Waiting'
        BY <2>1, <2>2, <2>3 DEF Waiting, Present, Marked
    <2>5. QED
        BY <1>1, <2>1, <2>2, <2>4 DEF DropInv
<1>3. ASSUME NEW e \in Entry, DropTakes(e) PROVE DropInv'
    <2>1. /\ phase = "dropping" /\ drop.entry = NoEntry
          /\ drop' = [left |-> drop.left \ {e}, done |-> drop.done \cup {e}, entry |-> e]
          /\ job' = [job EXCEPT !["exit"] = IF ~Marked(e) /\ HasUnsynced THEN Walk(e) ELSE Idle]
          /\ UNCHANGED <<repo, upper, mounted, dir, stateFile, marker, manifest>>
        BY <1>3 DEF DropTakes, storage, sessions
    <2>2. /\ job["exit"] = Idle /\ job["cli"] = Idle /\ mounted /\ dir /\ (Brought \/ Waiting)
        BY <1>1, <2>1 DEF PhaseInv, DropInv
    <2>3. job'["cli"] = Idle /\ drop'.entry = e /\ drop'.left = drop.left \ {e}
        BY <1>1, <2>1, <2>2
    <2>4. CASE ~HasUnsynced
        <3>1. Brought'
            BY <2>1, <2>4 DEF Brought, HasUnsynced
        <3>2. QED
            BY <2>1, <2>2, <2>3, <3>1 DEF DropInv
    <2>5. CASE HasUnsynced /\ ~Marked(e)
        <3>1. job'["exit"].pc = "walk" /\ job'["exit"].todo = {f \in File : upper[f] \in Content}
            BY <1>1, <2>1, <2>5, WalkType
        <3>2. Brought'
            BY <2>1, <3>1 DEF Brought, OnItsWay
        <3>3. QED
            BY <2>1, <2>2, <2>3, <3>2 DEF DropInv
    <2>6. CASE Marked(e)
        <3>1. job'["exit"] = Idle
            BY <1>1, <2>1, <2>6
        <3>2. Brought => Brought'
            BY <2>1, <2>2, IdleReach DEF Brought, OnItsWay
        <3>3. Waiting => Waiting'
            BY <2>1, <2>3, <2>6, <3>1 DEF Waiting, Present, Marked
        <3>4. QED
            BY <2>1, <2>2, <2>3, <3>2, <3>3 DEF DropInv
    <2>7. QED
        BY <2>4, <2>5, <2>6
<1>4. CASE DropRemoves
    <2>1. /\ phase = "dropping" /\ drop.entry # NoEntry /\ job["exit"] = Idle
          /\ drop' = [drop EXCEPT !.entry = NoEntry]
          /\ UNCHANGED <<repo, upper, mounted, dir, job>>
        BY <1>4 DEF DropRemoves, storage
    <2>2. /\ job["cli"] = Idle /\ mounted /\ dir /\ drop.entry \notin drop.left /\ (Brought \/ Waiting)
        BY <2>1 DEF DropInv
    <2>3. drop'.left = drop.left /\ drop'.entry = NoEntry /\ drop.left \subseteq Entry
        BY <1>1, <2>1
    <2>4. Brought => Brought'
        BY <2>1 DEF Brought, OnItsWay
    <2>5. ASSUME NEW e \in drop.left, Present(e), ~Marked(e) PROVE Present(e)' /\ ~Marked(e)'
        <3>1. e # drop.entry /\ e \in Entry
            BY <2>2, <2>3, <2>5
        <3>2. CASE drop.entry = 0
            <4>1. manifest' = manifest /\ e # 0
                BY <1>4, <3>1, <3>2 DEF DropRemoves
            <4>2. QED
                BY <2>5, <4>1 DEF Present, Marked
        <3>3. CASE drop.entry # 0
            <4>1. /\ manifest' = [manifest EXCEPT ![drop.entry] = NoManifest]
                  /\ stateFile' = stateFile /\ marker' = marker
                BY <1>4, <3>3 DEF DropRemoves
            <4>2. e # 0 => manifest'[e] = manifest[e]
                BY <1>1, <3>1, <4>1
            <4>3. QED
                BY <2>5, <4>1, <4>2 DEF Present, Marked
        <3>4. QED
            BY <3>2, <3>3
    <2>6. Waiting => Waiting'
        BY <2>1, <2>3, <2>5 DEF Waiting
    <2>7. QED
        BY <1>1, <2>1, <2>2, <2>3, <2>4, <2>6 DEF DropInv
<1>5. ASSUME NEW x \in Syncer, Sync(x) PROVE DropInv'
    <2>1. /\ UNCHANGED <<mounted, dir, phase, drop>>
          /\ \A y \in Syncer \ {x} : job'[y] = job[y]
        BY <1>5, SyncEffect
    <2>2. job[x].pc # "idle" /\ phase = "dropping"
        BY <1>5, <2>1 DEF Sync, SyncFile, Prune, WalkDone, SaveManifest, SyncFails
    <2>3. x = "exit" /\ job["cli"] = Idle /\ mounted /\ dir /\ drop.entry \notin drop.left
        BY <2>2, IdleReach DEF DropInv, Syncer
    <2>4. UpToDate("exit")
        BY <1>1, <2>2 DEF FreshInv, Undisturbed, Sound
    <2>5. Brought
        BY <2>2, <2>3, IdleReach DEF DropInv, Waiting
    <2>6. Brought'
        BY <1>5, <2>3, <2>4, <2>5, WalkBrings DEF Sound
    <2>7. QED
        BY <1>1, <2>1, <2>3, <2>6 DEF DropInv
<1>6. CASE Editing
    BY <1>6, EditEffect DEF Working, Sound
<1>7. CASE Setup \/ SetupFails \/ DropEnds \/ Crash
    BY <1>7 DEF Setup, SetupFails, DropEnds, Crash, Sound
<1>8. CASE CliSync \/ CliForgets
    BY <1>8 DEF CliSync, CliForgets, CliReady, Sound, sessions, storage
<1>9. CASE CliMarks
    <2>1. phase = "dropping" /\ job["cli"].pc = "mark"
        BY <1>9 DEF CliMarks
    <2>2. QED
        BY <2>1, IdleReach DEF DropInv
<1>10. CASE UNCHANGED vars
    BY <1>10, DropRests DEF vars, storage, sessions, ghosts
<1>11. QED
    BY <1>2, <1>3, <1>4, <1>5, <1>6, <1>7, <1>8, <1>9, <1>10 DEF Next, Drop, Editing

\* When Drop is through, no file it has met is left, and all has been brought over.
LEMMA EndBrings ==
    ASSUME Sound, SessionInv, DropInv, DropEnds
    PROVE  EndInv' /\ WritesReachRepo'
<1>1. /\ phase = "dropping" /\ drop.entry = NoEntry /\ \A e \in drop.left : ~Present(e)
      /\ dir' = FALSE /\ mounted' \in {FALSE, CommandsOutlive} /\ phase' = "down"
      /\ UNCHANGED <<repo, upper, job, view>>
    BY DEF DropEnds, ghosts
<1>2. job["exit"] = Idle /\ job["cli"] = Idle /\ Brought
    BY <1>1 DEF SessionInv, PhaseInv, DropInv, Waiting
<1>3. EndInv'
    BY <1>1, <1>2 DEF EndInv, Sound
<1>4. ASSUME NEW f \in File \ Hidden, view[f] # Absent PROVE repo[f] = view[f]
    <2>1. CASE upper[f] \in Content
        BY <1>2, <2>1, IdleReach DEF Brought, OnItsWay, SessionInv, LayerInv
    <2>2. CASE upper[f] \notin Content
        BY <1>1, <1>4, <2>2 DEF SessionInv, Merged, Live, Touched
    <2>3. QED
        BY <2>1, <2>2
<1>5. QED
    BY <1>1, <1>3, <1>4 DEF WritesReachRepo

LEMMA ExitStays == Sound /\ SessionInv /\ FreshInv /\ ExitInv /\ [Next]_vars => ExitInv'
<1> SUFFICES ASSUME Sound, SessionInv, FreshInv, ExitInv, [Next]_vars PROVE ExitInv'
    OBVIOUS
<1>1. MarkInv /\ DropInv /\ EndInv /\ WritesReachRepo
    BY DEF ExitInv
<1>2. MarkInv' /\ DropInv'
    BY <1>1, MarkStays, DropStays
<1>3. ASSUME ended' # "clean" PROVE EndInv' /\ WritesReachRepo'
    BY <1>3 DEF EndInv, WritesReachRepo
<1>4. CASE ended # "clean"
    <2>1. CASE DropEnds
        BY <1>1, <1>2, <2>1, EndBrings DEF ExitInv
    <2>2. CASE ~DropEnds
        <3>1. ended' \in {ended, "no", "crashed"}
            <4>1. ASSUME NEW x \in Syncer, Sync(x) PROVE ended' = ended
                BY <4>1, SyncEffect
            <4>2. CASE Editing
                BY <4>2, EditEffect
            <4>3. QED
                BY <2>2, <4>1, <4>2
                DEF Next, Editing, Setup, SetupFails, CliSync, CliForgets, CliMarks, ContainerEnds, Drop,
                    DropTakes, DropRemoves, Crash, vars
        <3>2. QED
            BY <1>2, <1>3, <1>4, <3>1 DEF ExitInv
    <2>3. QED
        BY <2>1, <2>2
<1>5. CASE ended = "clean"
    <2>1. phase = "down" /\ ~dir /\ ~mounted /\ job["cli"] = Idle
        BY <1>1, <1>5 DEF EndInv
    <2>2. job["exit"] = Idle
        BY <2>1 DEF SessionInv, PhaseInv
    <2>3. Setup \/ UNCHANGED vars
        <3>1. ~ Editing
            BY <2>1, EditEffect DEF Working
        <3>2. ASSUME NEW x \in Syncer, Sync(x) PROVE FALSE
            <4>1. job[x].pc = "idle"
                BY <2>1, <2>2, IdleReach DEF Syncer
            <4>2. QED
                BY <3>2, <4>1
                DEF Sync, SyncFile, Prune, WalkDone, SaveManifest, SyncFails
        <3>3. ~ SetupFails /\ ~ CliSync /\ ~ CliForgets /\ ~ ContainerEnds /\ ~ Drop /\ ~ Crash
            BY <2>1 DEF Sound, SetupFails, CliSync, CliForgets, CliReady, ContainerEnds, Drop, DropTakes,
                        DropRemoves, DropEnds, Crash
        <3>4. ~ CliMarks
            BY <2>1, IdleReach DEF CliMarks
        <3>5. QED
            BY <3>1, <3>2, <3>3, <3>4 DEF Next, Editing
    <2>4. CASE Setup
        BY <1>2, <1>3, <2>4 DEF Setup, ExitInv
    <2>5. CASE UNCHANGED vars
        BY <1>1, <1>2, <2>5 DEF vars, storage, sessions, ghosts, EndInv, WritesReachRepo, ExitInv
    <2>6. QED
        BY <2>3, <2>4, <2>5
<1>6. QED
    BY <1>4, <1>5

\* When the container has ended, every file the agent left in the workspace is
\* in the repository as the agent left it, manual syncs and the marker they
\* leave notwithstanding: if no copy fails, nobody else writes or syncs while
\* Drop is at work, and no crashed session went before.
THEOREM WritesArrive == ASSUME Sound PROVE Spec => []WritesReachRepo
<1>1. Init => FreshInv /\ ExitInv
    <2> SUFFICES ASSUME Init PROVE FreshInv /\ ExitInv
        OBVIOUS
    <2>1. phase = "down" /\ ended = "no" /\ marker = FALSE /\ \A x \in Syncer : job[x].pc = "idle"
        BY IdleReach DEF Init
    <2>2. QED
        BY <2>1 DEF FreshInv, UpToDate, ExitInv, MarkInv, DropInv, EndInv, WritesReachRepo, Live, Syncer
<1>2. SessionInv /\ FreshInv /\ ExitInv /\ [Next]_vars => FreshInv' /\ ExitInv'
    BY FreshStays, ExitStays DEF Sound
<1>3. Spec => []SessionInv
    BY SessionHolds DEF Sound
<1>4. ExitInv => WritesReachRepo
    BY DEF ExitInv
<1>5. QED
    BY <1>1, <1>2, <1>3, <1>4, PTL DEF Spec

(***************************************************************************)
(* The manual sync.  What a sync of this session put into the repository   *)
(* or found there is recorded in the manifest; so what the agent has       *)
(* removed since, and the upper layer no longer shows, is found by it, and *)
(* a walk to its end leaves out only the files no sync has met.            *)
(***************************************************************************)

\* The session is under way, and no sync of it was cut short.
Steady ==
    /\ phase = "up" \/ (phase = "down" /\ ended = "crashed")
    /\ ~aborted

Known == Kept(1) \cup job["cli"].new

\* The repository's own, untouched by any sync.
Unmet(f) == f \in lower \ brought

Recorded == \A f \in File : repo[f] # Absent => Unmet(f) \/ f \in Known

CliInv ==
    LET j == job["cli"] IN
    /\ j.pc \in {"walk", "prune"} => j.stem = 0 /\ j.old = Kept(1)
    /\ j.pc = "prune" => \A f \in j.old \ j.new : f \in j.todo \/ repo[f] = Absent
    /\ j.pc = "mark" => j.new = Kept(1)

\* What a walk no edit has interfered with has left to do, and has done.
CalmInv ==
    LET j == job["cli"] IN
    quiet =>
        /\ j.pc = "walk" => \A f \in File : upper[f] \in Content => f \in j.todo \/ repo[f] = upper[f]
        /\ j.pc = "prune" => \A f \in File : \/ repo[f] = view[f]
                                             \/ view[f] = Absent /\ (f \in j.todo \/ Unmet(f))
        /\ j.pc = "mark" => \A f \in File : repo[f] = view[f] \/ (view[f] = Absent /\ Unmet(f))

SteadyInv ==
    /\ phase = "down" /\ ended = "no" => job["cli"] = Idle
    /\ Steady => Recorded /\ CliInv /\ CalmInv

\* The steps of a walk, while it finds and brings over.
LEMMA CliWalks ==
    ASSUME SessionInv, Recorded, CliInv, CalmInv, NEW f \in File, SyncFile("cli", f)
    PROVE  Recorded' /\ CliInv' /\ CalmInv'
<1> DEFINE x == "cli"
<1>1. /\ x \in Syncer /\ TypeOK
      /\ repo \in [File -> Content \cup {Absent}] /\ Absent \notin Content
    BY ConstantsOK DEF Syncer, SessionInv, TypeOK
<1>2. /\ UNCHANGED <<manifest, upper, view, quiet, lower>>
      /\ repo' = [repo EXCEPT ![f] = upper[f]] /\ upper[f] \in Content
      /\ brought' = brought \cup {f}
    BY DEF SyncFile, sessions
<1>3. Kept(1)' = Kept(1)
    BY <1>2 DEF Kept
<1>4. /\ Goes(x, "walk", "walk") /\ job'[x].todo = job[x].todo \ {f}
      /\ job'[x].new = job[x].new \cup {f}
    BY <1>1, FileStep
<1>5. Recorded'
    <2>1. Known' = Known \cup {f}
        BY <1>3, <1>4 DEF Known
    <2>2. ASSUME NEW g \in File, g # f, repo'[g] # Absent PROVE Unmet(g)' \/ g \in Known'
        BY <1>1, <1>2, <2>1, <2>2 DEF Recorded, Unmet
    <2>3. QED
        BY <2>1, <2>2 DEF Recorded
<1>6. CliInv'
    BY <1>3, <1>4 DEF CliInv, Goes
<1>7. CalmInv'
    BY <1>1, <1>2, <1>4 DEF CalmInv, Goes
<1>8. QED
    BY <1>5, <1>6, <1>7

\* When the walk is done, all that differs is in the last manifest, or was never met.
LEMMA CliTurns ==
    ASSUME SessionInv, FreshInv, Live, Recorded, CliInv, CalmInv, WalkDone("cli")
    PROVE  Recorded' /\ CliInv' /\ CalmInv'
<1> DEFINE x == "cli"
<1>1. x \in Syncer /\ TypeOK
    BY DEF Syncer, SessionInv
<1>2. UNCHANGED <<repo, manifest, upper, view, quiet, lower, brought>>
    BY DEF WalkDone, sessions, storage, ghosts
<1>3. /\ Goes(x, "walk", "prune") /\ job[x].todo = {}
      /\ job'[x].todo = job[x].old \ job[x].new /\ job'[x].new = job[x].new
    BY <1>1, WalkDoneStep
<1>4. Known' = Known /\ Kept(1)' = Kept(1)
    BY <1>2, <1>3 DEF Known, Kept
<1>5. Recorded'
    BY <1>2, <1>4 DEF Recorded, Unmet
<1>6. CliInv'
    BY <1>3, <1>4 DEF CliInv, Goes
<1>7. CalmInv'
    <2>1. SUFFICES ASSUME quiet, NEW f \in File
                   PROVE  \/ repo[f] = view[f]
                          \/ view[f] = Absent /\ (f \in job[x].old \ job[x].new \/ Unmet(f))
        BY <1>2, <1>3 DEF CalmInv, Goes, Unmet
    <2>2. (upper[f] \in Content => repo[f] = upper[f]) /\ UpToDate(x)
        BY <1>1, <1>3, <2>1 DEF CalmInv, Goes, FreshInv, Undisturbed
    <2>3. upper[f] \in Content <=> f \in job[x].new
        BY <1>3, <2>2 DEF UpToDate, Goes
    <2>4. CASE upper[f] \in Content
        BY <2>2, <2>4 DEF SessionInv, LayerInv
    <2>5. CASE upper[f] \notin Content /\ view[f] = Absent
        <3>1. repo[f] = Absent \/ Unmet(f) \/ f \in job[x].old \cup job[x].new
            BY <1>3 DEF Recorded, Known, CliInv, Goes
        <3>2. QED
            BY <2>3, <2>5, <3>1
    <2>6. CASE upper[f] \notin Content /\ view[f] # Absent
        BY <2>6 DEF SessionInv, Merged, Touched
    <2>7. QED
        BY <2>4, <2>5, <2>6
<1>8. QED
    BY <1>5, <1>6, <1>7

LEMMA CliPrunes ==
    ASSUME SessionInv, FreshInv, Recorded, CliInv, CalmInv, NEW f \in File, Prune("cli", f)
    PROVE  Recorded' /\ CliInv' /\ CalmInv'
<1> DEFINE x == "cli"
<1>1. x \in Syncer /\ TypeOK /\ repo \in [File -> Content \cup {Absent}] /\ job[x] \in Job
    BY DEF Syncer, SessionInv, TypeOK
<1>2. /\ UNCHANGED <<manifest, upper, view, quiet, lower, brought>>
      /\ repo' = [repo EXCEPT ![f] = Absent]
    BY DEF Prune, sessions, ghosts
<1>3. /\ Goes(x, "prune", "prune") /\ f \in job[x].todo /\ job'[x].todo = job[x].todo \ {f}
      /\ job'[x].new = job[x].new
    BY <1>1, PruneStep
<1>4. Known' = Known /\ Kept(1)' = Kept(1)
    BY <1>2, <1>3 DEF Known, Kept
<1>5. Recorded'
    BY <1>1, <1>2, <1>4 DEF Recorded, Unmet
<1>6. CliInv'
    <2>1. job[x].old \subseteq File
        BY <1>1 DEF Job
    <2>2. QED
        BY <1>1, <1>2, <1>3, <1>4, <2>1 DEF CliInv, Goes
<1>7. CalmInv'
    <2>1. SUFFICES ASSUME quiet, NEW g \in File
                   PROVE  \/ repo'[g] = view[g]
                          \/ view[g] = Absent /\ (g \in job'[x].todo \/ Unmet(g))
        BY <1>2, <1>3 DEF CalmInv, Goes, Unmet
    <2>2. repo[g] = view[g] \/ (view[g] = Absent /\ (g \in job[x].todo \/ Unmet(g)))
        BY <1>3, <2>1 DEF CalmInv, Goes
    <2>3. upper[f] \notin Content
        BY <1>1, <1>3, <2>1 DEF Goes, FreshInv, Undisturbed, UpToDate
    <2>4. Touched(f)
        BY <1>1, <1>3 DEF SessionInv, TouchInv, Reach
    <2>5. QED
        BY <1>1, <1>2, <1>3, <2>2, <2>3, <2>4 DEF Touched
<1>8. QED
    BY <1>5, <1>6, <1>7

\* The new manifest forgets only what is no longer in the repository.
LEMMA CliSaves ==
    ASSUME SessionInv, Recorded, CliInv, CalmInv, SaveManifest("cli")
    PROVE  Recorded' /\ CliInv' /\ CalmInv'
<1> DEFINE x == "cli"
<1>1. /\ x \in Syncer /\ TypeOK /\ job[x] \in Job
      /\ manifest \in [Entry \ {0} -> {NoManifest} \cup SUBSET File] /\ 1 \in Entry \ {0}
    BY ConstantsOK DEF Syncer, SessionInv, TypeOK, Entry
<1>2. UNCHANGED <<repo, upper, view, quiet, lower, brought>>
    BY DEF SaveManifest, storage, ghosts
<1>3. /\ job[x].pc = "prune" /\ job[x].todo = {} /\ Goes(x, "prune", "mark") /\ job'[x].new = job[x].new
      /\ manifest' = [manifest EXCEPT ![job[x].stem + 1] = job[x].new]
    BY <1>1, SaveStep
<1>4. job[x].stem = 0 /\ job[x].old = Kept(1)
    BY <1>3 DEF CliInv
<1>5. Kept(1)' = job[x].new
    <2>1. manifest'[1] = job[x].new
        <3>1. manifest' = [manifest EXCEPT ![1] = job[x].new]
            BY <1>3, <1>4
        <3>2. QED
            BY <1>1, <3>1
    <2>2. job[x].new # NoManifest
        BY <1>1, ConstantsOK DEF Job
    <2>3. QED
        BY <2>1, <2>2 DEF Kept
<1>6. Known' = job[x].new /\ Known = job[x].old \cup job[x].new
    BY <1>3, <1>4, <1>5 DEF Known
<1>7. \A f \in Known : f \in Known' \/ repo[f] = Absent
    BY <1>3, <1>6 DEF CliInv
<1>8. Recorded'
    BY <1>2, <1>7 DEF Recorded, Unmet
<1>9. CliInv'
    BY <1>3, <1>5 DEF CliInv, Goes
<1>10. CalmInv'
    BY <1>2, <1>3 DEF CalmInv, Goes, Unmet
<1>11. QED
    BY <1>8, <1>9, <1>10

\* Edits break a walk's calm, and leave the records in order.
LEMMA EditRecorded ==
    ASSUME SessionInv, Recorded, CliInv, Editing
    PROVE  Recorded' /\ CliInv' /\ CalmInv'
<1>1. UNCHANGED <<repo, manifest, job, lower, brought>> /\ quiet' = FALSE
    BY EditEffect
<1>2. Known' = Known /\ Kept(1)' = Kept(1)
    BY <1>1 DEF Known, Kept
<1>3. QED
    BY <1>1, <1>2 DEF Recorded, CliInv, CalmInv, Unmet

\* A walk begins with all it needs.
LEMMA CliBegins ==
    ASSUME SessionInv, Recorded, CliSync
    PROVE  Recorded' /\ CliInv' /\ CalmInv'
<1>1. TypeOK /\ job \in [Syncer -> Job] /\ "cli" \in Syncer /\ 0 \in Entry /\ Longest # 0
    BY ConstantsOK DEF SessionInv, TypeOK, Syncer, Entry
<1>2. /\ job["cli"] = Idle /\ job' = [job EXCEPT !["cli"] = Walk(0)] /\ quiet' = TRUE
      /\ UNCHANGED <<repo, upper, manifest, view, lower, brought>>
    BY DEF CliSync, CliReady, storage, sessions
<1>3. /\ job'["cli"].pc = "walk" /\ job'["cli"].stem = 0 /\ job'["cli"].new = {}
      /\ job'["cli"].todo = {f \in File : upper[f] \in Content}
      /\ job'["cli"].old = Kept(1)
    <2>1. job'["cli"] = Walk(0)
        BY <1>1, <1>2
    <2>2. 0 + 1 = 1
        OBVIOUS
    <2>3. QED
        BY <1>1, <2>1, <2>2, WalkType DEF Kept
<1>4. Known' = Kept(1) /\ Known = Kept(1) /\ Kept(1)' = Kept(1)
    BY <1>2, <1>3 DEF Known, Kept, Idle
<1>5. Recorded'
    BY <1>2, <1>4 DEF Recorded, Unmet
<1>6. CliInv'
    BY <1>3, <1>4 DEF CliInv
<1>7. CalmInv'
    BY <1>2, <1>3 DEF CalmInv
<1>8. QED
    BY <1>5, <1>6, <1>7

\* Nobody else disturbs it.
LEMMA SteadyStays == Fresh /\ SessionInv /\ FreshInv /\ SteadyInv /\ [Next]_vars => SteadyInv'
<1> SUFFICES ASSUME Fresh, SessionInv, FreshInv, SteadyInv, [Next]_vars PROVE SteadyInv'
    OBVIOUS
<1> DEFINE Books == Recorded /\ CliInv /\ CalmInv
<1>1. /\ TypeOK /\ PhaseInv /\ job \in [Syncer -> Job] /\ "cli" \in Syncer /\ "exit" \in Syncer
      /\ aborted \in BOOLEAN
    BY DEF SessionInv, TypeOK, Syncer
<1>2. /\ phase = "down" /\ ended = "no" => job["cli"] = Idle
      /\ Steady => Books
      /\ Steady => Live
    BY DEF SteadyInv, Steady, Live
<1>3. ASSUME phase' = "down" /\ ended' = "no" => job'["cli"] = Idle, Steady' => Books'
      PROVE  SteadyInv'
    BY <1>3 DEF SteadyInv
<1>4. ASSUME UNCHANGED <<repo, upper, manifest, view, quiet, lower, brought>>, job'["cli"] = job["cli"], Books
      PROVE  Books'
    BY <1>4 DEF Recorded, CliInv, CalmInv, Unmet, Known, Kept
<1> HIDE DEF Books
<1>5. CASE Setup
    <2>1. /\ phase = "down" /\ job["cli"] = Idle /\ count.sessions < MaxSessions
          /\ phase' = "up" /\ quiet' = FALSE /\ view' = repo
          /\ lower' = {f \in File : repo[f] # Absent}
          /\ brought' = {} /\ UNCHANGED <<repo, manifest, job>>
        BY <1>5 DEF Setup
    <2>2. Recorded' /\ CliInv' /\ CalmInv'
        BY <2>1, IdleReach DEF Recorded, Unmet, CliInv, CalmInv
    <2>3. QED
        BY <1>3, <2>1, <2>2 DEF Books
<1>6. CASE SetupFails
    <2>1. /\ phase = "down" /\ job["cli"] = Idle /\ count.sessions < MaxSessions
          /\ UNCHANGED <<phase, ended, job>>
        BY <1>6 DEF SetupFails, ghosts
    <2>2. count.sessions \in Nat /\ MaxSessions \in Nat
        BY <1>1, ConstantsOK DEF TypeOK
    <2>3. ~Live
        BY <1>1, <2>1, <2>2 DEF Fresh, PhaseInv, Live
    <2>4. ~Steady'
        BY <2>1, <2>3 DEF Steady, Live
    <2>5. QED
        BY <1>3, <2>1, <2>4
<1>7. CASE Editing
    <2>1. Working /\ UNCHANGED <<phase, ended, job, aborted>>
        BY <1>7, EditEffect
    <2>2. Steady' => Steady
        BY <2>1 DEF Steady
    <2>3. QED
        BY <1>2, <1>3, <1>7, <2>1, <2>2, EditRecorded DEF Books
<1>8. CASE CliSync
    <2>1. stateFile /\ UNCHANGED <<phase, ended, aborted>>
        BY <1>8 DEF CliSync, CliReady
    <2>2. Steady' => Steady
        BY <2>1 DEF Steady
    <2>3. ~(phase' = "down" /\ ended' = "no")
        BY <1>1, <2>1 DEF PhaseInv, Live
    <2>4. QED
        BY <1>2, <1>3, <1>8, <2>2, <2>3, CliBegins DEF Books
<1>9. CASE CliForgets
    <2>1. UNCHANGED <<repo, upper, manifest, view, quiet, lower, brought, job, phase, ended, aborted>>
        BY <1>9 DEF CliForgets, storage, ghosts
    <2>2. Steady' => Steady
        BY <2>1 DEF Steady
    <2>3. QED
        BY <1>2, <1>3, <1>4, <2>1, <2>2
<1>10. CASE CliMarks
    <2>1. /\ UNCHANGED <<repo, upper, manifest, view, lower, brought, phase, ended, aborted>>
          /\ job' = [job EXCEPT !["cli"] = Idle] /\ quiet' = FALSE /\ job["cli"].pc = "mark"
        BY <1>10 DEF CliMarks, storage
    <2>2. Steady' => Steady
        BY <2>1 DEF Steady
    <2>3. job'["cli"] = Idle
        BY <1>1, <2>1
    <2>4. ASSUME Books PROVE Books'
        <3>1. Known' = Known
            BY <2>1, <2>3, <2>4 DEF Books, CliInv, Known, Kept, Idle
        <3>2. Recorded'
            BY <2>1, <2>4, <3>1 DEF Books, Recorded, Unmet
        <3>3. CliInv' /\ CalmInv'
            BY <2>1, <2>3, IdleReach DEF CliInv, CalmInv
        <3>4. QED
            BY <3>2, <3>3 DEF Books
    <2>5. QED
        BY <1>2, <1>3, <2>2, <2>3, <2>4
<1>11. CASE Sync("cli")
    <2>1. UNCHANGED <<phase, ended>>
        BY <1>1, <1>11, SyncEffect
    <2>2. ~(phase' = "down" /\ ended' = "no")
        <3>1. job["cli"].pc # "idle"
            BY <1>11 DEF Sync, SyncFile, Prune, WalkDone, SaveManifest, SyncFails
        <3>2. QED
            BY <1>2, <2>1, <3>1, IdleReach
    <2>3. CASE SyncFails("cli")
        <3>1. aborted' = TRUE
            BY <2>3 DEF SyncFails
        <3>2. QED
            BY <1>3, <2>2, <3>1 DEF Steady
    <2>4. CASE ~SyncFails("cli")
        <3>1. aborted' = aborted
            BY <1>11, <2>4 DEF Sync, SyncFile, Prune, WalkDone, SaveManifest, ghosts
        <3>2. Steady' => Steady
            BY <2>1, <3>1 DEF Steady
        <3>3. ASSUME Steady PROVE Recorded' /\ CliInv' /\ CalmInv'
            <4>1. Live /\ Recorded /\ CliInv /\ CalmInv
                BY <1>2, <3>3 DEF Books
            <4>2. QED
                BY <1>11, <2>4, <4>1, CliWalks, CliTurns, CliPrunes, CliSaves DEF Sync
        <3>4. QED
            BY <1>3, <2>2, <3>2, <3>3 DEF Books
    <2>5. QED
        BY <2>3, <2>4
<1>12. CASE Sync("exit")
    <2>1. job["exit"].pc # "idle"
        BY <1>12 DEF Sync, SyncFile, Prune, WalkDone, SaveManifest, SyncFails
    <2>2. phase = "dropping" /\ phase' = phase
        BY <1>1, <1>12, <2>1, IdleReach, SyncEffect DEF PhaseInv
    <2>3. QED
        BY <1>3, <2>2 DEF Steady
<1>13. ASSUME NEW x \in Syncer, Sync(x) PROVE SteadyInv'
    BY <1>11, <1>12, <1>13 DEF Syncer
<1>14. CASE ContainerEnds \/ (\E e \in Entry : DropTakes(e)) \/ DropRemoves \/ DropEnds
    <2>1. phase' = "dropping" \/ (phase' = "down" /\ ended' = "clean")
        BY <1>14 DEF ContainerEnds, DropTakes, DropRemoves, DropEnds
    <2>2. QED
        BY <1>3, <2>1 DEF Steady
<1>15. CASE Crash
    <2>1. /\ phase # "down" /\ phase' = "down" /\ ended' = "crashed"
          /\ aborted' = (aborted \/ phase = "dropping" \/ \E x \in Syncer : job'[x] # job[x])
          /\ UNCHANGED <<repo, upper, manifest, view, quiet, lower, brought>>
        BY <1>15 DEF Crash, sessions
    <2>2. ASSUME Steady' PROVE Steady /\ job'["cli"] = job["cli"]
        <3>1. ~aborted'
            BY <2>2 DEF Steady
        <3>2. ~aborted /\ phase # "dropping" /\ job'["cli"] = job["cli"]
            BY <1>1, <2>1, <3>1
        <3>3. phase \in {"down", "up", "dropping"}
            BY <1>1 DEF TypeOK
        <3>4. QED
            BY <2>1, <3>2, <3>3 DEF Steady
    <2>3. QED
        BY <1>2, <1>3, <1>4, <2>1, <2>2
<1>16. CASE UNCHANGED vars
    <2>1. UNCHANGED <<repo, upper, manifest, view, quiet, lower, brought, job, phase, ended, aborted>>
        BY <1>16 DEF vars, storage, sessions, ghosts
    <2>2. Steady' => Steady
        BY <2>1 DEF Steady
    <2>3. QED
        BY <1>2, <1>3, <1>4, <2>1, <2>2
<1>17. QED
    BY <1>5, <1>6, <1>7, <1>8, <1>9, <1>10, <1>13, <1>14, <1>15, <1>16 DEF Next, Drop, Editing

\* A manual sync during which nothing is edited makes the repository what the
\* agent sees, hidden files included, be it the first of the session or a later
\* one, unless an earlier one was cut short; only a file the repository had and no
\* sync has met stays when the agent has deleted it.  This holds in every session
\* that no crashed one precedes, whether copies fail, commands outlive the
\* container or the launcher dies meanwhile.
THEOREM ManualSyncFaithful == ASSUME Fresh PROVE Spec => []ManualSyncIsFaithful
<1>1. Init => FreshInv /\ SteadyInv
    <2> SUFFICES ASSUME Init PROVE FreshInv /\ SteadyInv
        OBVIOUS
    <2>1. /\ phase = "down" /\ ended = "no" /\ \A x \in Syncer : job[x] = Idle /\ job[x].pc = "idle"
        BY IdleReach DEF Init
    <2>2. QED
        BY <2>1 DEF FreshInv, UpToDate, SteadyInv, Steady, Syncer
<1>2. SessionInv /\ FreshInv /\ SteadyInv /\ [Next]_vars => FreshInv' /\ SteadyInv'
    BY FreshStays, SteadyStays
<1>3. Spec => []SessionInv
    BY SessionHolds
<1>4. SessionInv /\ SteadyInv => ManualSyncIsFaithful
    <2> SUFFICES ASSUME SessionInv, SteadyInv, job["cli"].pc = "mark", quiet, ~aborted,
                        phase # "dropping", ended # "clean"
                 PROVE  \A f \in File : repo[f] = view[f] \/ (view[f] = Absent /\ f \in lower \ brought)
        BY DEF ManualSyncIsFaithful
    <2>1. /\ repo \in [File -> Content \cup {Absent}] /\ view \in [File -> Content \cup {Absent}]
          /\ phase \in {"down", "up", "dropping"} /\ ended \in {"no", "clean", "crashed"}
        BY DEF SessionInv, TypeOK
    <2>2. Steady
        BY <2>1, IdleReach DEF SteadyInv, Steady
    <2>3. QED
        BY <2>2 DEF SteadyInv, CalmInv, Unmet
<1>5. QED
    BY <1>1, <1>2, <1>3, <1>4, PTL DEF Spec
=============================================================================
