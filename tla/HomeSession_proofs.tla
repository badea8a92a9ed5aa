-------------------------- MODULE HomeSession_proofs --------------------------
(***************************************************************************)
(* Proofs about HomeSession, for every set of files, secrets and patterns, *)
(* every number of runs and edits, and with every fault: a run that ended  *)
(* well under a passphrase has left no secret in plaintext and no cipher   *)
(* file half written; a copy never brings an older version back; and no    *)
(* crash between two steps loses what the app wrote last.                  *)
(***************************************************************************)
EXTENDS HomeSession, TLAPS

(***************************************************************************)
(* The inductive invariant: what holds at rest rests on what seal_home     *)
(* finds, and that on what unseal_home has left.                           *)
(***************************************************************************)

Walking == {"unseal", "recover", "populate", "persist", "seal"}
Between == {"clean", "mount", "recover", "allocate", "format", "populate", "join", "prepare",
            "running", "teardown", "persist"}

\* A walk works on one of the files it has still to visit.
WorkInv == work # Idle => pc \in Walking /\ work.file \in todo

\* unseal_home: what it need not visit any more is not encrypted; what it has opened
\* can be decrypted.
UnsealInv ==
    pc = "unseal" =>
        /\ key
        /\ \A f \in File : f \in todo <=> enc[f] # Absent
        /\ work # Idle => enc[work.file] # Garbled /\ plain[work.file] # Absent

\* From then on, to the end of the container, nothing is encrypted.
OpenInv == pc \in Between /\ key => \A f \in File : enc[f] = Absent

\* seal_home: the secrets it need not visit any more are not in plaintext, and their
\* cipher files are whole; a plaintext goes only when its cipher file is.
SealInv ==
    pc = "seal" =>
        /\ \A f \in todo : plain[f] # Absent
        /\ key => \A f \in Secret : f \notin todo => plain[f] = Absent
        /\ key => \A f \in File : f \notin todo => enc[f] # Garbled
        /\ work.stage = "written" => enc[work.file] \in Nat

IInv == TypeOK /\ WorkInv /\ UnsealInv /\ OpenInv /\ SealInv /\ SealedAtRest

\* A copy is one, and is told from no file.
LEMMA CopyOK ==
    ASSUME NEW ver \in Nat, NEW time \in Nat
    PROVE  Copy(ver, time) \in Copies /\ Copy(ver, time) # Absent
BY ConstantsOK DEF Copy, Copies

\* Of an image that is discarded nothing is there any more, or the image stays, with
\* its files or without.
LEMMA Discarded ==
    ASSUME TypeOK, Discard \/ DiscardTree
    PROVE  /\ image' \in {image, "none"} /\ disk' \in {disk, Empty} /\ mounted' \in BOOLEAN
           /\ image' = "none" /\ image # "none" => disk' = Empty
           /\ disk' \in [File -> Copies \cup {Absent}]
           /\ \A f \in File : disk'[f] \in {disk[f], Absent}
<1>1. /\ image' \in {image, "none"} /\ disk' \in {disk, Empty} /\ mounted' \in BOOLEAN
      /\ image' = "none" /\ image # "none" => disk' = Empty
    BY DEF TypeOK, Discard, DiscardTree, NoImage
<1>2. Empty \in [File -> Copies \cup {Absent}] /\ \A f \in File : Empty[f] = Absent
    BY DEF Empty
<1>3. QED
    BY <1>1, <1>2 DEF TypeOK

LEMMA Initially == Init => IInv
<1> SUFFICES ASSUME Init PROVE IInv
    OBVIOUS
<1>1. PICK kept \in SUBSET (File \ Junk) :
        /\ plain = [f \in File |-> IF f \in kept \ Secret THEN Copy(1, 1) ELSE Absent]
        /\ enc = [f \in File |-> IF f \in kept \cap Secret THEN 1 ELSE Absent]
        /\ latest = [f \in File |-> IF f \in kept THEN 1 ELSE Absent]
    BY DEF Init
<1>2. TypeOK
    <2>1. plain \in [File -> Copies \cup {Absent}]
        BY <1>1, CopyOK
    <2>2. enc \in [File -> Nat \cup {Absent, Garbled}]
        BY <1>1
    <2>3. latest \in [File -> Nat \cup {Absent}]
        BY <1>1
    <2>4. disk \in [File -> Copies \cup {Absent}]
        BY DEF Init, Empty
    <2>5. work \in [file : File \cup {NoFile}, stage : {"idle", "open", "written"}]
        BY DEF Init, Idle
    <2>6. count \in [runs : 0..MaxRuns, edits : 0..MaxEdits]
        BY ConstantsOK DEF Init
    <2>7. QED
        BY <2>1, <2>2, <2>3, <2>4, <2>5, <2>6 DEF Init, TypeOK
<1>3. QED
    BY <1>2 DEF Init, IInv, WorkInv, UnsealInv, OpenInv, SealInv, SealedAtRest, Idle, Between

(***************************************************************************)
(* The steps of unseal_home and seal_home.                                 *)
(***************************************************************************)

\* A run, or a walk, that ends is at rest, with an outcome that is not "ok" here.
LEMMA EndKeeps ==
    ASSUME IInv, NEW how \in {"error", "crashed"}, End(how), TypeOK'
    PROVE  IInv'
BY DEF End, IInv, WorkInv, UnsealInv, OpenInv, SealInv, SealedAtRest, Idle, Between

LEMMA UnsealTypes ==
    ASSUME IInv, Unseal
    PROVE  TypeOK'
<1> USE ConstantsOK, CopyOK DEF IInv, TypeOK, home, store, flow, Goto, End, Idle
<1>1. ASSUME NEW f \in File, UnsealOpen(f) PROVE TypeOK'
    <2>1. now' \in Nat /\ Copy(Torn, now') \in Copies
        BY <1>1 DEF UnsealOpen, Torn
    <2>2. plain' \in [File -> Copies \cup {Absent}]
        BY <1>1, <2>1 DEF UnsealOpen
    <2>3. QED
        BY <1>1, <2>1, <2>2 DEF UnsealOpen
<1>2. ASSUME NEW f \in File, UnsealWrite(f) PROVE TypeOK'
    <2>1. plain[f] \in Copies /\ enc[f] \in Nat
        BY <1>2 DEF UnsealWrite, UnsealInv, WorkInv
    <2>2. plain' \in [File -> Copies \cup {Absent}]
        BY <1>2, <2>1 DEF UnsealWrite, Copies
    <2>3. QED
        BY <1>2, <2>2 DEF UnsealWrite
<1>3. ASSUME NEW f \in File, UnsealRemove(f) PROVE TypeOK'
    BY <1>3 DEF UnsealRemove
<1>4. ASSUME NEW f \in File, UnsealRefused(f) PROVE TypeOK'
    <2>1. plain[f] # Absent => plain[f].ver \in Nat
        BY DEF Copies
    <2>2. QED
        BY <1>4, <2>1 DEF UnsealRefused
<1>5. CASE UnsealDone
    BY <1>5 DEF UnsealDone
<1>6. CASE UnsealFails
    BY <1>6 DEF UnsealFails
<1>7. QED
    BY <1>1, <1>2, <1>3, <1>4, <1>5, <1>6 DEF Unseal

LEMMA UnsealKeeps ==
    ASSUME IInv, Unseal
    PROVE  IInv'
<1>0. TypeOK'
    BY UnsealTypes
<1> USE <1>0, ConstantsOK DEF WorkInv, UnsealInv, OpenInv, SealInv, SealedAtRest, Between, Walking,
        store, Idle
<1>1. ASSUME NEW f \in File, UnsealOpen(f) PROVE IInv'
    <2>1. plain'[f] # Absent
        BY <1>1, CopyOK DEF UnsealOpen, IInv, TypeOK, Torn
    <2>2. QED
        BY <1>1, <2>1 DEF UnsealOpen, IInv
<1>2. ASSUME NEW f \in File, UnsealWrite(f) PROVE IInv'
    <2>1. plain[f] \in Copies /\ enc[f] \in Nat
        BY <1>2 DEF UnsealWrite, IInv, TypeOK
    <2>2. plain'[f] # Absent
        BY <1>2, <2>1 DEF UnsealWrite, IInv, TypeOK, Copies
    <2>3. QED
        BY <1>2, <2>2 DEF UnsealWrite, IInv
<1>3. ASSUME NEW f \in File, UnsealRemove(f) PROVE IInv'
    BY <1>3 DEF UnsealRemove, IInv, TypeOK
<1>4. ASSUME NEW f \in File, UnsealRefused(f) PROVE IInv'
    <2>1. CASE End("error")
        BY <2>1, EndKeeps
    <2>2. CASE ~End("error")
        <3>1. /\ pc = "unseal" /\ work = Idle /\ f \in todo
              /\ enc' = [enc EXCEPT ![f] = Absent]
              /\ todo' = todo \ {f}
              /\ UNCHANGED <<plain, pc, key, work>>
            BY <1>4, <2>2 DEF UnsealRefused
        <3>2. QED
            BY <3>1 DEF IInv, TypeOK
    <2>3. QED
        BY <2>1, <2>2
<1>5. CASE UnsealDone
    BY <1>5 DEF UnsealDone, Goto, home, IInv
<1>6. CASE UnsealFails
    BY <1>6, EndKeeps DEF UnsealFails
<1>7. QED
    BY <1>1, <1>2, <1>3, <1>4, <1>5, <1>6 DEF Unseal

LEMMA SealKeeps ==
    ASSUME IInv, Seal
    PROVE  IInv'
<1> USE ConstantsOK DEF TypeOK, WorkInv, UnsealInv, OpenInv, SealInv, SealedAtRest, Between,
        Walking, home, store, Idle
<1>1. ASSUME NEW f \in File, SealOpen(f) PROVE IInv'
    BY <1>1 DEF SealOpen, IInv
<1>2. ASSUME NEW f \in File, SealWrite(f) PROVE IInv'
    <2>1. plain[f].ver \in Nat
        BY <1>2 DEF SealWrite, IInv, Copies
    <2>2. QED
        BY <1>2, <2>1 DEF SealWrite, IInv
<1>3. ASSUME NEW f \in File, SealRemove(f) PROVE IInv'
    <2>1. enc[f] \in Nat
        BY <1>3 DEF SealRemove, IInv
    <2>2. QED
        BY <1>3, <2>1 DEF SealRemove, IInv
<1>4. CASE SealFails
    <2>1. TypeOK'
        BY <1>4 DEF SealFails, End, IInv
    <2>2. QED
        BY <1>4, <2>1, EndKeeps DEF SealFails
<1>5. CASE SealDone
    BY <1>5 DEF SealDone, End, IInv
<1>6. QED
    BY <1>1, <1>2, <1>3, <1>4, <1>5 DEF Seal

(***************************************************************************)
(* The steps between, and the end of a run at any of them.                 *)
(***************************************************************************)

LEMMA BeginKeeps ==
    ASSUME IInv, Begin
    PROVE  IInv'
<1>1. TypeOK'
    BY ConstantsOK DEF Begin, IInv, TypeOK, home, store, Files
<1>2. QED
    BY <1>1 DEF Begin, IInv, TypeOK, WorkInv, UnsealInv, OpenInv, SealInv, SealedAtRest, Between,
                Walking, Idle, Files, home, store

\* A command or a copy of setup_session fails, or the setup of the container does.
LEMMA CommandFails ==
    ASSUME IInv, SetupFails \/ PopulateFails \/ JoinFails \/ PrepareFails
    PROVE  IInv'
<1> USE DEF End, IInv, TypeOK, home, store, Idle
<1>1. TypeOK'
    <2>1. CASE SetupFails
        BY <2>1 DEF SetupFails
    <2>2. CASE PopulateFails
        BY <2>2, Discarded DEF PopulateFails
    <2>3. CASE JoinFails
        BY <2>3, Discarded DEF JoinFails
    <2>4. CASE PrepareFails
        BY <2>4 DEF PrepareFails
    <2>5. QED
        BY <2>1, <2>2, <2>3, <2>4
<1>2. QED
    BY <1>1, EndKeeps DEF SetupFails, PopulateFails, JoinFails, PrepareFails

LEMMA CrashKeeps ==
    ASSUME IInv, Crash
    PROVE  IInv'
<1>1. TypeOK'
    BY ConstantsOK DEF Crash, End, IInv, TypeOK, home, Idle
<1>2. QED
    BY <1>1, EndKeeps DEF Crash

\* Tree without the junk: what is not there was removed or never there.
LEMMA WithoutOK ==
    ASSUME NEW S, NEW tree \in [File -> S \cup {Absent}]
    PROVE  Without(tree) \in [File -> S \cup {Absent}]
BY DEF Without

\* The steps of setup_session and of the container that go on.
LEMMA OnwardKeeps ==
    ASSUME IInv,
           \/ CleanHome \/ MountLeftover \/ MountRefused \/ RecoverDone \/ Allocate \/ Format
           \/ PopulateDone \/ JoinOK \/ Start
    PROVE  IInv'
<1> USE ConstantsOK DEF IInv, WorkInv, UnsealInv, OpenInv, SealInv, SealedAtRest, Between,
        Walking, home, store, Idle, Goto, Empty
<1>1. CASE CleanHome
    <2>1. TypeOK'
        BY <1>1, WithoutOK DEF CleanHome, TypeOK
    <2>2. QED
        BY <1>1, <2>1 DEF CleanHome
<1>2. CASE MountLeftover
    BY <1>2 DEF MountLeftover, TypeOK
<1>3. CASE MountRefused
    BY <1>3, Discarded DEF MountRefused, TypeOK
<1>4. CASE RecoverDone
    BY <1>4, Discarded DEF RecoverDone, TypeOK
<1>5. CASE Allocate
    BY <1>5 DEF Allocate, TypeOK
<1>6. CASE Format
    BY <1>6 DEF Format, TypeOK, Files
<1>7. CASE PopulateDone
    BY <1>7 DEF PopulateDone, TypeOK
<1>8. CASE JoinOK
    BY <1>8 DEF JoinOK, TypeOK
<1>9. CASE Start
    BY <1>9 DEF Start, TypeOK
<1>10. QED
    BY <1>1, <1>2, <1>3, <1>4, <1>5, <1>6, <1>7, <1>8, <1>9

\* Copies and edits: no cipher file is touched.
LEMMA CopyKeeps ==
    ASSUME IInv, NEW f \in File, CopyOpen(f) \/ CopyClose(f) \/ AppEdits(f)
    PROVE  IInv'
<1> USE ConstantsOK DEF IInv, WorkInv, UnsealInv, OpenInv, SealInv, SealedAtRest, Between,
        Walking, Idle
<1>1. CASE CopyOpen(f)
    <2>1. now' \in Nat /\ Copy(Torn, now') \in Copies
        BY <1>1, CopyOK DEF CopyOpen, TypeOK, Torn
    <2>2. TypeOK'
        BY <1>1, <2>1 DEF CopyOpen, TypeOK
    <2>3. QED
        BY <1>1, <2>2 DEF CopyOpen, TypeOK
<1>2. CASE CopyClose(f)
    <2>1. TypeOK'
        BY <1>2 DEF CopyClose, TypeOK
    <2>2. QED
        BY <1>2, <2>1 DEF CopyClose, TypeOK
<1>3. CASE AppEdits(f)
    <2>0. now' \in Nat
        BY <1>3 DEF AppEdits, TypeOK
    <2>1. now' \in Nat /\ Copy(now', now') \in Copies
        BY <2>0, CopyOK
    <2>2. plain' \in [File -> Copies \cup {Absent}] /\ disk' \in [File -> Copies \cup {Absent}]
        BY <1>3, <2>1 DEF AppEdits, TypeOK
    <2>3. latest' \in [File -> Nat \cup {Absent}]
        BY <1>3, <2>1 DEF AppEdits, TypeOK
    <2>4. count' \in [runs : 0..MaxRuns, edits : 0..MaxEdits]
        BY <1>3 DEF AppEdits, TypeOK
    <2>5. TypeOK'
        BY <1>3, <2>1, <2>2, <2>3, <2>4 DEF AppEdits, TypeOK, flow
    <2>6. QED
        BY <1>3, <2>5 DEF AppEdits, flow
<1>4. QED
    BY <1>1, <1>2, <1>3

\* The end of the container and teardown_session.  Two of these lead to the seal: it
\* starts with every secret that is in plaintext.
LEMMA TeardownKeeps ==
    ASSUME IInv, ContainerEnds \/ CleanSession \/ Teardown
    PROVE  IInv'
<1> USE ConstantsOK DEF IInv, WorkInv, UnsealInv, OpenInv, SealInv, SealedAtRest, Between,
        Walking, home, store, Idle, Goto
<1>1. CASE ContainerEnds
    <2>1. TypeOK'
        BY <1>1 DEF ContainerEnds, TypeOK
    <2>2. QED
        BY <1>1, <2>1 DEF ContainerEnds, TypeOK, Files
<1>2. CASE CleanSession
    <2>1. TypeOK'
        BY <1>2, WithoutOK DEF CleanSession, TypeOK
    <2>2. QED
        BY <1>2, <2>1 DEF CleanSession
<1>3. CASE Teardown
    <2>1. TypeOK'
        BY <1>3, Discarded DEF Teardown, TypeOK
    <2>2. QED
        BY <1>3, <2>1 DEF Teardown, TypeOK, Files
<1>4. QED
    BY <1>1, <1>2, <1>3

LEMMA StepKeeps == IInv /\ [Next]_vars => IInv'
<1>1. ASSUME IInv, UNCHANGED vars PROVE IInv'
    BY <1>1 DEF vars, home, store, flow, IInv, TypeOK, WorkInv, UnsealInv, OpenInv, SealInv,
                SealedAtRest
<1>2. QED
    BY <1>1, BeginKeeps, UnsealKeeps, CommandFails, OnwardKeeps, CopyKeeps, TeardownKeeps,
       SealKeeps, CrashKeeps
    DEF Next, SetupSession, Container

LEMMA Invariant == Spec => []IInv
BY Initially, StepKeeps, PTL DEF Spec

(***************************************************************************)
(* The theorems.                                                           *)
(***************************************************************************)

\* The trees hold copies, the cipher files versions; the run is at one of its places.
THEOREM TypeCorrect == Spec => []TypeOK
<1>1. IInv => TypeOK
    BY DEF IInv
<1>2. QED
    BY <1>1, Invariant, PTL

\* A run with a passphrase that ended well has left no secret in plaintext in the home
\* and no cipher file half written (run, seal_home), whatever was in the home before
\* and whatever failed or crashed in the runs before it.  Its image may stay.
THEOREM SealedHolds == Spec => []SealedAtRest
<1>1. IInv => SealedAtRest
    BY DEF IInv
<1>2. QED
    BY <1>1, Invariant, PTL

(***************************************************************************)
(* What the modification times say.  A copy keeps the time of what it      *)
(* copies, anything else that is written is dated now: of two copies of a  *)
(* file the later one is never of an older version.                        *)
(***************************************************************************)

Dated(c) == c.ver <= now /\ c.time <= now

\* Nothing is of a later version, or date, than now.
DateInv ==
    \A f \in File :
        /\ plain[f] # Absent => Dated(plain[f])
        /\ disk[f] # Absent => Dated(disk[f])
        /\ enc[f] \in Nat => enc[f] <= now

\* The later copy, unless it was cut short, is of no older version.
AgeInv ==
    \A f \in File :
        /\ plain[f] # Absent /\ disk[f] # Absent
        /\ disk[f].ver # Torn /\ disk[f].time > plain[f].time
        => disk[f].ver >= plain[f].ver

\* What unseal_home is writing is as young as anything in an image.
OpenedInv ==
    pc = "unseal" /\ work # Idle /\ disk[work.file] # Absent =>
        disk[work.file].time <= plain[work.file].time

\* cp -u has left to copy what is newer in the image, and the file it is writing.
TodoInv ==
    pc \in {"recover", "persist"} =>
        \A f \in File :
            /\ f \in todo => \/ Newer(disk, plain, f)
                             \/ disk[f] # Absent /\ work.file = f /\ plain[f].ver = Torn
            /\ f \notin todo => ~Newer(disk, plain, f)

RollInv == DateInv /\ AgeInv /\ OpenedInv /\ TodoInv

\* Steps that only remove files, or seal them.
LEMMA DatesStay ==
    ASSUME IInv, RollInv, now' = now,
           \A f \in File : plain'[f] \in {plain[f], Absent},
           \A f \in File : disk'[f] \in {disk[f], Absent},
           \A f \in File : \/ enc'[f] \in {enc[f], Absent, Garbled}
                           \/ plain[f] # Absent /\ enc'[f] = plain[f].ver,
           pc' = "unseal" => work' = Idle
    PROVE  DateInv' /\ AgeInv' /\ OpenedInv'
<1>1. \A f \in File : /\ plain[f] # Absent => plain[f].ver \in Nat /\ plain[f].time \in Nat
                      /\ disk[f] # Absent => disk[f].ver \in Nat /\ disk[f].time \in Nat
    BY DEF IInv, TypeOK, Copies
<1>2. DateInv'
    BY ConstantsOK DEF RollInv, DateInv, Dated
<1>3. AgeInv'
    BY DEF RollInv, AgeInv
<1>4. OpenedInv'
    BY DEF OpenedInv, Idle
<1>5. QED
    BY <1>2, <1>3, <1>4

\* ... and lead to no copy out of an image.
LEMMA RollStays ==
    ASSUME IInv, RollInv, now' = now,
           \A f \in File : plain'[f] \in {plain[f], Absent},
           \A f \in File : disk'[f] \in {disk[f], Absent},
           \A f \in File : \/ enc'[f] \in {enc[f], Absent, Garbled}
                           \/ plain[f] # Absent /\ enc'[f] = plain[f].ver,
           pc' = "unseal" => work' = Idle,
           pc' \notin {"recover", "persist"}
    PROVE  RollInv'
BY DatesStay DEF RollInv, TodoInv

\* unseal_home: what it writes is younger than any copy.
LEMMA UnsealRolls ==
    ASSUME IInv, RollInv, Unseal
    PROVE  RollInv'
<1>1. ASSUME NEW f \in File, UnsealOpen(f) PROVE RollInv'
    <2>1. /\ now \in Nat /\ now' = now + 1 /\ pc' = "unseal"
          /\ plain' = [plain EXCEPT ![f] = Copy(Torn, now')]
          /\ UNCHANGED <<enc, disk>> /\ work' = [file |-> f, stage |-> "open"]
        BY <1>1 DEF UnsealOpen, IInv, TypeOK, store
    <2>2. /\ plain'[f] = Copy(Torn, now')
          /\ \A g \in File \ {f} : plain'[g] = plain[g]
        BY <2>1 DEF IInv, TypeOK
    <2>3. \A g \in File : /\ plain[g] # Absent => plain[g].ver \in Nat /\ plain[g].time \in Nat
                          /\ disk[g] # Absent => disk[g].ver \in Nat /\ disk[g].time \in Nat
        BY DEF IInv, TypeOK, Copies
    <2>4. DateInv'
        BY <2>1, <2>2, <2>3 DEF RollInv, DateInv, Dated, Copy, Torn
    <2>5. AgeInv'
        BY <2>1, <2>2, <2>3 DEF RollInv, AgeInv, DateInv, Dated, Copy, Torn
    <2>6. OpenedInv'
        BY <2>1, <2>2, <2>3 DEF RollInv, OpenedInv, DateInv, Dated, Copy, Torn
    <2>7. QED
        BY <2>1, <2>4, <2>5, <2>6 DEF RollInv, TodoInv
<1>2. ASSUME NEW f \in File, UnsealWrite(f) PROVE RollInv'
    <2>1. /\ pc = "unseal" /\ pc' = "unseal" /\ now' = now
          /\ work = [file |-> f, stage |-> "open"] /\ work'.file = f
          /\ plain' = [plain EXCEPT ![f].ver = enc[f]] /\ UNCHANGED <<enc, disk>>
        BY <1>2 DEF UnsealWrite, store
    <2>2. /\ plain[f] \in Copies /\ enc[f] \in Nat
        BY <2>1, ConstantsOK DEF IInv, UnsealInv, WorkInv, TypeOK, Idle
    <2>3. /\ plain'[f] = Copy(enc[f], plain[f].time)
          /\ \A g \in File \ {f} : plain'[g] = plain[g]
        BY <2>1, <2>2 DEF IInv, TypeOK, Copy, Copies
    <2>4. \A g \in File : /\ plain[g] # Absent => plain[g].ver \in Nat /\ plain[g].time \in Nat
                          /\ disk[g] # Absent => disk[g].ver \in Nat /\ disk[g].time \in Nat
        BY DEF IInv, TypeOK, Copies
    <2>5. plain[f] # Absent /\ (disk[f] # Absent => disk[f].time <= plain[f].time)
        BY <2>1, <2>2, ConstantsOK DEF RollInv, OpenedInv, Idle, Copies
    <2>6. DateInv'
        BY <2>1, <2>2, <2>3, <2>4, <2>5 DEF RollInv, DateInv, Dated, Copy
    <2>7. AgeInv'
        BY <2>1, <2>2, <2>3, <2>4, <2>5 DEF RollInv, AgeInv, Copy
    <2>8. OpenedInv'
        BY <2>1, <2>2, <2>3, <2>4, <2>5 DEF OpenedInv, Copy
    <2>9. QED
        BY <2>1, <2>6, <2>7, <2>8 DEF RollInv, TodoInv
<1>3. ASSUME NEW f \in File, UnsealRemove(f) PROVE RollInv'
    BY <1>3, RollStays DEF UnsealRemove, IInv, TypeOK, store
<1>4. ASSUME NEW f \in File, UnsealRefused(f) PROVE RollInv'
    BY <1>4, RollStays DEF UnsealRefused, IInv, TypeOK, store, End
<1>5. CASE UnsealDone
    BY <1>5, RollStays DEF UnsealDone, Goto, home, store
<1>6. CASE UnsealFails
    BY <1>6, RollStays DEF UnsealFails, End, home, store
<1>7. QED
    BY <1>1, <1>2, <1>3, <1>4, <1>5, <1>6 DEF Unseal

\* seal_home: what it encrypts is a version that the home has.
LEMMA SealRolls ==
    ASSUME IInv, RollInv, Seal
    PROVE  RollInv'
<1>1. ASSUME NEW f \in File, SealOpen(f) PROVE RollInv'
    BY <1>1, RollStays DEF SealOpen, IInv, TypeOK, store
<1>2. ASSUME NEW f \in File, SealWrite(f) PROVE RollInv'
    <2>1. /\ plain[f] # Absent /\ pc' = "seal" /\ now' = now /\ UNCHANGED <<plain, disk>>
          /\ enc' = [enc EXCEPT ![f] = plain[f].ver]
        BY <1>2, ConstantsOK DEF SealWrite, IInv, SealInv, WorkInv, Idle, store
    <2>2. enc'[f] = plain[f].ver /\ \A g \in File \ {f} : enc'[g] = enc[g]
        BY <2>1 DEF IInv, TypeOK
    <2>3. QED
        BY <2>1, <2>2, RollStays
<1>3. ASSUME NEW f \in File, SealRemove(f) PROVE RollInv'
    BY <1>3, RollStays DEF SealRemove, IInv, TypeOK, store
<1>4. CASE SealFails \/ SealDone
    BY <1>4, RollStays DEF SealFails, SealDone, End, home, store
<1>5. QED
    BY <1>1, <1>2, <1>3, <1>4 DEF Seal

\* What a run does to the trees as a whole, and its end at any point.
LEMMA TreesRoll ==
    ASSUME IInv, RollInv,
           \/ Begin \/ SetupSession \/ Container \/ CleanSession \/ Teardown \/ Crash
    PROVE  RollInv'
<1>0. /\ \A f \in File : Empty[f] = Absent /\ Without(plain)[f] \in {plain[f], Absent}
      /\ \A f \in File : Without(disk)[f] \in {disk[f], Absent}
    BY DEF Empty, Without
<1>1. CASE Begin
    <2>1. work = Idle
        BY <1>1 DEF Begin, IInv, WorkInv, Walking
    <2>2. QED
        BY <1>1, <2>1, RollStays DEF Begin, home, store
<1>2. CASE CleanHome
    BY <1>0, <1>2, RollStays DEF CleanHome, store
<1>3. CASE MountLeftover
    <2>1. /\ pc' = "recover" /\ todo' = {f \in File : Newer(disk, plain, f)}
          /\ UNCHANGED <<plain, enc, disk, now>>
        BY <1>3 DEF MountLeftover, Goto, home
    <2>2. DateInv' /\ AgeInv' /\ OpenedInv'
        BY <2>1, DatesStay
    <2>3. TodoInv'
        BY <2>1 DEF TodoInv, Newer
    <2>4. QED
        BY <2>2, <2>3 DEF RollInv
<1>4. CASE CleanSession
    <2>1. /\ pc' = "persist" /\ todo' = {f \in File : Newer(disk', plain, f)}
          /\ disk' = Without(disk) /\ UNCHANGED <<plain, enc, now>>
        BY <1>4 DEF CleanSession, Goto, home
    <2>2. DateInv' /\ AgeInv' /\ OpenedInv'
        BY <1>0, <2>1, DatesStay
    <2>3. TodoInv'
        BY <2>1 DEF TodoInv, Newer
    <2>4. QED
        BY <2>2, <2>3 DEF RollInv
<1>5. CASE MountRefused \/ RecoverDone \/ PopulateFails \/ Teardown
    <2>1. \A f \in File : disk'[f] \in {disk[f], Absent}
        BY <1>5, Discarded DEF MountRefused, RecoverDone, PopulateFails, Teardown, IInv
    <2>2. QED
        BY <1>5, <2>1, RollStays
        DEF MountRefused, RecoverDone, PopulateFails, Teardown, Goto, End, home
<1>6. CASE Allocate \/ Format \/ SetupFails \/ PopulateDone
    BY <1>0, <1>6, RollStays DEF Allocate, Format, SetupFails, PopulateDone, Goto, End, home, store
<1>7. CASE Container
    <2>1. \A f \in File : disk'[f] \in {disk[f], Absent}
        BY <1>7, Discarded
        DEF Container, JoinOK, JoinFails, PrepareFails, Start, ContainerEnds, store, IInv
    <2>2. QED
        BY <1>7, <2>1, RollStays
        DEF Container, JoinOK, JoinFails, PrepareFails, Start, ContainerEnds, Goto, End, home
<1>8. CASE Crash
    BY <1>8, RollStays DEF Crash, End, home
<1>9. QED
    BY <1>1, <1>2, <1>3, <1>4, <1>5, <1>6, <1>7, <1>8 DEF SetupSession

\* One file is copied, or the app writes or deletes one.
LEMMA FilesRoll ==
    ASSUME IInv, RollInv, NEW f \in File, CopyOpen(f) \/ CopyClose(f) \/ AppEdits(f)
    PROVE  RollInv'
<1>0. /\ \A g \in File : /\ plain[g] # Absent => plain[g].ver \in Nat /\ plain[g].time \in Nat
                         /\ disk[g] # Absent => disk[g].ver \in Nat /\ disk[g].time \in Nat
      /\ now \in Nat /\ plain \in [File -> Copies \cup {Absent}]
      /\ disk \in [File -> Copies \cup {Absent}]
    BY DEF IInv, TypeOK, Copies
<1>1. \A t \in Nat, v \in Nat : /\ Copy(v, t) # Absent
                                /\ Copy(v, t).ver = v /\ Copy(v, t).time = t
    BY CopyOK DEF Copy
<1>2. CASE CopyOpen(f)
    <2>1. /\ now' = now + 1 /\ enc' = enc /\ pc' = pc /\ todo' = todo /\ f \in todo
          /\ work' = [file |-> f, stage |-> "open"] /\ work = Idle
          /\ pc \in {"recover", "populate", "persist"}
        BY <1>2 DEF CopyOpen
    <2>5. /\ now' \in Nat /\ Copy(Torn, now') # Absent
          /\ Copy(Torn, now').ver = 0 /\ Copy(Torn, now').time = now'
        <3>1. now' \in Nat /\ Torn \in Nat
            BY <1>0, <2>1 DEF Torn
        <3>2. QED
            BY <1>1, <3>1 DEF Torn
    <2>2. CASE pc = "populate"
        <3>1. /\ plain' = plain /\ disk'[f] = Copy(Torn, now')
              /\ \A g \in File \ {f} : disk'[g] = disk[g]
            BY <1>0, <1>2, <2>2 DEF CopyOpen
        <3>2. DateInv'
            BY <1>0, <2>1, <2>5, <3>1 DEF RollInv, DateInv, Dated
        <3>3. AgeInv'
            BY <1>0, <2>1, <2>5, <3>1 DEF RollInv, AgeInv, Torn
        <3>4. QED
            BY <2>1, <2>2, <3>2, <3>3 DEF RollInv, OpenedInv, TodoInv
    <2>3. CASE pc # "populate"
        <3>1. /\ disk' = disk /\ plain'[f] = Copy(Torn, now')
              /\ \A g \in File \ {f} : plain'[g] = plain[g]
            BY <1>0, <1>2, <2>3 DEF CopyOpen
        <3>2. DateInv'
            BY <1>0, <2>1, <2>5, <3>1 DEF RollInv, DateInv, Dated
        <3>3. AgeInv'
            BY <1>0, <2>1, <2>5, <3>1 DEF RollInv, AgeInv, Torn
        <3>4. work.file # f /\ work'.file = f
            BY <2>1, ConstantsOK DEF Idle
        <3>5. plain'[f].ver = Torn /\ disk[f] # Absent
            BY <1>0, <1>1, <2>1, <2>3, <3>1, <3>4 DEF RollInv, TodoInv, Newer, Torn
        <3>6. TodoInv'
            <4>1. SUFFICES ASSUME NEW g \in File
                           PROVE  /\ g \in todo' => \/ Newer(disk, plain, g)'
                                                    \/ /\ disk'[g] # Absent /\ work'.file = g
                                                       /\ plain'[g].ver = Torn
                                  /\ g \notin todo' => ~Newer(disk, plain, g)'
                BY DEF TodoInv
            <4>2. CASE g = f
                BY <2>1, <3>1, <3>4, <3>5, <4>2
            <4>3. CASE g # f
                <5>1. Newer(disk, plain, g)' <=> Newer(disk, plain, g)
                    BY <3>1, <4>3 DEF Newer
                <5>2. work.file # g
                    BY <2>1, ConstantsOK DEF Idle
                <5>3. QED
                    BY <2>1, <2>3, <5>1, <5>2 DEF RollInv, TodoInv
            <4>4. QED
                BY <4>2, <4>3
        <3>7. QED
            BY <2>1, <3>2, <3>3, <3>6 DEF RollInv, OpenedInv
    <2>4. QED
        BY <2>2, <2>3
<1>3. CASE CopyClose(f)
    <2>1. /\ now' = now /\ enc' = enc /\ pc' = pc /\ todo' = todo \ {f} /\ work' = Idle
          /\ work.file = f /\ pc \in {"recover", "populate", "persist"}
        BY <1>3 DEF CopyClose
    <2>2. CASE pc = "populate"
        <3>1. /\ plain' = plain /\ disk'[f] = plain[f]
              /\ \A g \in File \ {f} : disk'[g] = disk[g]
            BY <1>0, <1>3, <2>2 DEF CopyClose
        <3>2. DateInv'
            BY <1>0, <2>1, <3>1 DEF RollInv, DateInv, Dated
        <3>3. AgeInv'
            BY <1>0, <2>1, <3>1 DEF RollInv, AgeInv
        <3>4. QED
            BY <2>1, <2>2, <3>2, <3>3 DEF RollInv, OpenedInv, TodoInv
    <2>3. CASE pc # "populate"
        <3>1. /\ disk' = disk /\ plain'[f] = disk[f]
              /\ \A g \in File \ {f} : plain'[g] = plain[g]
            BY <1>0, <1>3, <2>3 DEF CopyClose
        <3>2. DateInv'
            BY <1>0, <2>1, <3>1 DEF RollInv, DateInv, Dated
        <3>3. AgeInv'
            BY <1>0, <2>1, <3>1 DEF RollInv, AgeInv
        <3>4. TodoInv'
            <4>1. SUFFICES ASSUME NEW g \in File
                           PROVE  /\ g \in todo' => Newer(disk, plain, g)'
                                  /\ g \notin todo' => ~Newer(disk, plain, g)'
                BY DEF TodoInv
            <4>2. CASE g = f
                <5>1. ~Newer(disk, plain, g)'
                    BY <1>0, <3>1, <4>2 DEF Newer
                <5>2. QED
                    BY <2>1, <4>2, <5>1
            <4>3. CASE g # f
                <5>1. Newer(disk, plain, g)' <=> Newer(disk, plain, g)
                    BY <3>1, <4>3 DEF Newer
                <5>2. QED
                    BY <2>1, <2>3, <4>3, <5>1 DEF RollInv, TodoInv
            <4>4. QED
                BY <4>2, <4>3
        <3>5. QED
            BY <2>1, <3>2, <3>3, <3>4 DEF RollInv, OpenedInv
    <2>4. QED
        BY <2>2, <2>3
<1>4. CASE AppEdits(f)
    <2>1. /\ now' = now + 1 /\ enc' = enc /\ pc' = "running"
        BY <1>4 DEF AppEdits, flow
    <2>2. PICK c \in {Copy(now', now'), Absent} :
            IF session THEN disk' = [disk EXCEPT ![f] = c] /\ UNCHANGED plain
            ELSE plain' = [plain EXCEPT ![f] = c] /\ UNCHANGED disk
        BY <1>4 DEF AppEdits
    <2>3. c # Absent => c.ver = now' /\ c.time = now'
        BY <1>0, <1>1, <2>1, <2>2
    <2>4. CASE session
        <3>1. plain' = plain /\ disk'[f] = c /\ \A g \in File \ {f} : disk'[g] = disk[g]
            BY <1>0, <2>2, <2>4
        <3>2. DateInv'
            BY <1>0, <2>1, <2>3, <3>1 DEF RollInv, DateInv, Dated
        <3>3. AgeInv'
            BY <1>0, <2>1, <2>3, <3>1 DEF RollInv, AgeInv, DateInv, Dated
        <3>4. QED
            BY <2>1, <3>2, <3>3 DEF RollInv, OpenedInv, TodoInv
    <2>5. CASE ~session
        <3>1. disk' = disk /\ plain'[f] = c /\ \A g \in File \ {f} : plain'[g] = plain[g]
            BY <1>0, <2>2, <2>5
        <3>2. DateInv'
            BY <1>0, <2>1, <2>3, <3>1 DEF RollInv, DateInv, Dated
        <3>3. AgeInv'
            BY <1>0, <2>1, <2>3, <3>1 DEF RollInv, AgeInv, DateInv, Dated
        <3>4. QED
            BY <2>1, <3>2, <3>3 DEF RollInv, OpenedInv, TodoInv
    <2>6. QED
        BY <2>4, <2>5
<1>5. QED
    BY <1>2, <1>3, <1>4

\* A home that earlier runs left behind has one version and one date.
LEMMA InitRolls == Init => RollInv
<1> SUFFICES ASSUME Init PROVE RollInv
    OBVIOUS
<1>1. /\ pc = "off" /\ now = 1 /\ \A f \in File : disk[f] = Absent
      /\ \A f \in File : plain[f] \in {Copy(1, 1), Absent} /\ enc[f] \in {1, Absent}
    BY DEF Init, Empty
<1>2. QED
    BY <1>1, ConstantsOK DEF RollInv, DateInv, AgeInv, OpenedInv, TodoInv, Dated, Copy

LEMMA StepRolls == IInv /\ RollInv /\ [Next]_vars => RollInv'
<1>1. ASSUME RollInv, UNCHANGED vars PROVE RollInv'
    BY <1>1 DEF vars, home, store, flow, RollInv, DateInv, AgeInv, OpenedInv, TodoInv, Dated, Newer
<1>2. QED
    BY <1>1, UnsealRolls, SealRolls, TreesRoll, FilesRoll DEF Next

LEMMA RollInvariant == Spec => []RollInv
BY Invariant, InitRolls, StepRolls, PTL DEF Spec

\* What cp -u is about to copy out of an image, a leftover one included, is of no older
\* version than what the home has (setup_session, teardown_session), whatever runs,
\* crashes and faults came before, with or without an image or a passphrase.
THEOREM RollsForward == Spec => []NeverRollsBack
<1>1. IInv /\ RollInv => NeverRollsBack
    <2> SUFFICES ASSUME IInv, RollInv, pc \in {"recover", "persist"}, NEW f \in todo,
                        plain[f] # Absent, disk[f].ver # Torn
                 PROVE  disk[f].ver >= plain[f].ver
        BY DEF NeverRollsBack
    <2>1. /\ f \in File /\ disk[f] # Absent /\ disk[f].ver \in Nat /\ plain[f].ver \in Nat
          /\ Newer(disk, plain, f) \/ plain[f].ver = Torn
        BY DEF IInv, TypeOK, Copies, RollInv, TodoInv, Newer
    <2>2. CASE plain[f].ver = Torn
        BY <2>1, <2>2 DEF Torn
    <2>3. CASE Newer(disk, plain, f)
        BY <2>1, <2>3 DEF Newer, RollInv, AgeInv
    <2>4. QED
        BY <2>1, <2>2, <2>3
<1>2. QED
    BY <1>1, Invariant, RollInvariant, PTL

(***************************************************************************)
(* How far the image is.                                                   *)
(***************************************************************************)

Filled == {"populate", "join", "prepare", "running", "teardown", "persist"}
Occupied == {"mount", "recover", "allocate", "format"} \cup Filled

\* There is an image whenever one is copied to or from; what has no file system has no
\* files.
ImageInv ==
    /\ pc \in Occupied \ {"join", "prepare", "running"} => session
    /\ pc = "recover" \/ (pc \in Filled /\ session) => image = "fs"
    /\ pc = "format" => image = "blank"
    /\ image # "fs" => disk = Empty

\* It is filled file by file; the container finds all of the home in it.
FillInv ==
    /\ pc = "populate" => \A f \in File :
        /\ f \in todo => plain[f] # Absent /\ (disk[f] = Absent \/ work.file = f)
        /\ f \notin todo => disk[f] = plain[f]
    /\ pc \in {"join", "prepare"} /\ session => disk = plain

\* What unseal_home and seal_home have written they have written whole.
WrittenInv == work.stage = "written" => plain[work.file].ver = enc[work.file]

MadeInv == ImageInv /\ FillInv /\ WrittenInv

\* The two walks change neither image nor the place of the run, and End leads to where
\* nothing is claimed.
LEMMA MadeStays ==
    ASSUME MadeInv, pc' \in {"off", "unseal", "clean", "seal"},
           image' # "fs" => disk' = Empty,
           work'.stage # "written"
    PROVE  MadeInv'
BY DEF MadeInv, ImageInv, FillInv, WrittenInv, Occupied, Filled

\* unseal_home and seal_home, and the run that begins or breaks off.
LEMMA WalksMade ==
    ASSUME IInv, MadeInv, Unseal \/ Seal \/ Crash \/ Begin
    PROVE  MadeInv'
<1>1. CASE Begin
    <2>1. work = Idle
        BY <1>1 DEF Begin, IInv, WorkInv, Walking
    <2>2. QED
        BY <1>1, <2>1, MadeStays DEF Begin, Idle, MadeInv, ImageInv, store
<1>2. CASE Crash
    BY <1>2, MadeStays DEF Crash, End, Idle, MadeInv, ImageInv
<1>3. CASE UnsealDone \/ UnsealFails
    <2>1. UnsealDone => work = Idle
        BY DEF UnsealDone, IInv, WorkInv
    <2>2. QED
        BY <1>3, <2>1, MadeStays
        DEF UnsealDone, UnsealFails, Goto, End, Idle, MadeInv, ImageInv, store
<1>4. CASE SealDone \/ SealFails
    BY <1>4, MadeStays DEF SealDone, SealFails, End, Idle, MadeInv, ImageInv, store
<1>5. ASSUME NEW f \in File,
             \/ UnsealOpen(f) \/ UnsealRemove(f) \/ UnsealRefused(f)
             \/ SealOpen(f) \/ SealRemove(f)
      PROVE  MadeInv'
    BY <1>5, MadeStays
    DEF UnsealOpen, UnsealRemove, UnsealRefused, SealOpen, SealRemove, End, Idle, MadeInv,
        ImageInv, store
<1>6. ASSUME NEW f \in File, UnsealWrite(f) PROVE MadeInv'
    <2>1. /\ work = [file |-> f, stage |-> "open"] /\ pc = "unseal" /\ pc' = "unseal"
          /\ work' = [work EXCEPT !.stage = "written"]
          /\ plain' = [plain EXCEPT ![f].ver = enc[f]] /\ UNCHANGED <<enc, image, disk>>
        BY <1>6 DEF UnsealWrite, store
    <2>2. plain[f] \in Copies
        BY <2>1, ConstantsOK DEF IInv, UnsealInv, WorkInv, TypeOK, Idle
    <2>3. plain'[f].ver = enc[f] /\ work'.file = f
        BY <2>1, <2>2 DEF IInv, TypeOK, Copies
    <2>4. QED
        BY <2>1, <2>3 DEF MadeInv, ImageInv, FillInv, WrittenInv, Occupied, Filled
<1>7. ASSUME NEW f \in File, SealWrite(f) PROVE MadeInv'
    <2>1. /\ work = [file |-> f, stage |-> "open"] /\ pc' = "seal"
          /\ work' = [work EXCEPT !.stage = "written"]
          /\ enc' = [enc EXCEPT ![f] = plain[f].ver] /\ UNCHANGED <<plain, image, disk>>
        BY <1>7 DEF SealWrite, store
    <2>2. enc'[f] = plain[f].ver /\ work'.file = f
        BY <2>1 DEF IInv, TypeOK
    <2>3. QED
        BY <2>1, <2>2 DEF MadeInv, ImageInv, FillInv, WrittenInv, Occupied, Filled
<1>8. QED
    BY <1>1, <1>2, <1>3, <1>4, <1>5, <1>6, <1>7 DEF Unseal, Seal

\* setup_session, the container and teardown_session.
LEMMA SetupMade ==
    ASSUME IInv, MadeInv, SetupSession \/ Container \/ CleanSession \/ Teardown
    PROVE  MadeInv'
<1> USE DEF IInv, WorkInv, Walking, MadeInv, ImageInv, FillInv, WrittenInv, Occupied, Filled,
        Idle, Goto, End, home, store
<1>1. CASE CleanHome
    BY <1>1 DEF CleanHome
<1>2. CASE MountLeftover \/ MountRefused \/ RecoverDone
    BY <1>2, Discarded DEF MountLeftover, MountRefused, RecoverDone
<1>3. CASE Allocate
    BY <1>3 DEF Allocate
<1>4. CASE Format
    <2>1. \A f \in File : /\ f \in todo' => plain[f] # Absent
                          /\ disk[f] = Absent
                          /\ f \notin todo' => plain[f] = Absent
        BY <1>4 DEF Format, Files, Empty
    <2>2. QED
        BY <1>4, <2>1 DEF Format
<1>5. CASE SetupFails \/ PopulateFails \/ JoinFails \/ PrepareFails
    <2>1. pc' = "off" /\ work' = Idle
        BY <1>5 DEF SetupFails, PopulateFails, JoinFails, PrepareFails
    <2>2. image' # "fs" => disk' = Empty
        <3>1. CASE SetupFails
            BY <3>1 DEF SetupFails
        <3>2. CASE PopulateFails
            BY <3>2, Discarded DEF PopulateFails
        <3>3. CASE JoinFails
            BY <3>3, Discarded DEF JoinFails
        <3>4. CASE PrepareFails
            BY <3>4 DEF PrepareFails
        <3>5. QED
            BY <1>5, <3>1, <3>2, <3>3, <3>4
    <2>3. QED
        BY <2>1, <2>2, MadeStays
<1>6. CASE PopulateDone
    <2>1. disk = plain
        BY <1>6 DEF PopulateDone, TypeOK
    <2>2. QED
        BY <1>6, <2>1 DEF PopulateDone
<1>7. CASE JoinOK \/ Start
    BY <1>7 DEF JoinOK, Start
<1>8. CASE ContainerEnds
    BY <1>8 DEF ContainerEnds
<1>9. CASE CleanSession \/ Teardown
    BY <1>9, Discarded DEF CleanSession, Teardown
<1>10. QED
    BY <1>1, <1>2, <1>3, <1>4, <1>5, <1>6, <1>7, <1>8, <1>9 DEF SetupSession, Container

\* One file is copied, or the app writes or deletes one.
LEMMA FilesMade ==
    ASSUME IInv, MadeInv, NEW f \in File, CopyOpen(f) \/ CopyClose(f) \/ AppEdits(f)
    PROVE  MadeInv'
<1>1. CASE CopyOpen(f)
    <2>1. /\ UNCHANGED <<pc, session, todo, image>> /\ pc \in {"recover", "populate", "persist"}
          /\ work' = [file |-> f, stage |-> "open"] /\ work = Idle /\ f \in todo
          /\ image = "fs"
        BY <1>1 DEF CopyOpen, MadeInv, ImageInv, Filled, Occupied
    <2>2. CASE pc = "populate"
        <3>1. plain' = plain /\ \A g \in File \ {f} : disk'[g] = disk[g]
            BY <1>1, <2>2 DEF CopyOpen, IInv, TypeOK
        <3>2. FillInv'
            BY <2>1, <2>2, <3>1, ConstantsOK DEF MadeInv, FillInv, Idle
        <3>3. QED
            BY <2>1, <3>2 DEF MadeInv, ImageInv, WrittenInv
    <2>3. CASE pc # "populate"
        BY <2>1, <2>3 DEF MadeInv, ImageInv, FillInv, WrittenInv
    <2>4. QED
        BY <2>2, <2>3
<1>2. CASE CopyClose(f)
    <2>1. /\ UNCHANGED <<pc, session, image>> /\ pc \in {"recover", "populate", "persist"}
          /\ work' = Idle /\ work.file = f /\ todo' = todo \ {f} /\ image = "fs"
        BY <1>2 DEF CopyClose, MadeInv, ImageInv, Filled, Occupied
    <2>2. CASE pc = "populate"
        <3>1. /\ plain' = plain /\ disk'[f] = plain[f]
              /\ \A g \in File \ {f} : disk'[g] = disk[g]
            BY <1>2, <2>2 DEF CopyClose, IInv, TypeOK
        <3>2. FillInv'
            BY <2>1, <2>2, <3>1, ConstantsOK DEF MadeInv, FillInv, Idle
        <3>3. QED
            BY <2>1, <3>2 DEF MadeInv, ImageInv, WrittenInv, Idle
    <2>3. CASE pc # "populate"
        BY <2>1, <2>3 DEF MadeInv, ImageInv, FillInv, WrittenInv, Idle
    <2>4. QED
        BY <2>2, <2>3
<1>3. CASE AppEdits(f)
    <2>1. /\ UNCHANGED <<pc, session, image, work>> /\ pc = "running" /\ work = Idle
          /\ ~session => disk' = disk
        BY <1>3 DEF AppEdits, flow, IInv, WorkInv, Walking
    <2>2. QED
        BY <2>1 DEF MadeInv, ImageInv, FillInv, WrittenInv, Idle, Filled
<1>4. QED
    BY <1>1, <1>2, <1>3

LEMMA StepMade == IInv /\ MadeInv /\ [Next]_vars => MadeInv'
<1>1. ASSUME MadeInv, UNCHANGED vars PROVE MadeInv'
    BY <1>1 DEF vars, home, store, flow, MadeInv, ImageInv, FillInv, WrittenInv
<1>2. QED
    BY <1>1, WalksMade, SetupMade, FilesMade DEF Next

LEMMA InitMade == Init => MadeInv
BY DEF Init, Idle, MadeInv, ImageInv, FillInv, WrittenInv, Occupied, Filled

(***************************************************************************)
(* Where the last version of a file is, as long as `spared` says so.       *)
(***************************************************************************)

\* An image is found by a run that looks for one: where there is one, there is a file in
\* the home that stays.  Nothing is encrypted when the container is run, and what is
\* half encrypted is there in plaintext.  An image that stayed when the home was sealed
\* has nothing that is newer.
Stale(f) == plain[f] # Absent /\ Newer(disk, plain, f)

SparedInv ==
    spared =>
        /\ ~session /\ pc # "off" => image = "none"
        /\ image # "none" \/ (session /\ pc \in Occupied) =>
                \E f \in File \ Junk : plain[f] # Absent \/ enc[f] # Absent
        /\ pc \in Between => \A f \in File : enc[f] = Absent
        /\ \A f \in File :
            /\ enc[f] = Garbled => plain[f] # Absent
            /\ pc = "seal" \/ enc[f] # Absent => ~Stale(f)

InPlain(f) == plain[f] # Absent /\ plain[f].ver = latest[f]
InHome(f) == InPlain(f) \/ enc[f] = latest[f]
InDisk(f) == disk[f] # Absent /\ disk[f].ver = latest[f]

\* Between runs: in the home, or in an image that the next run finds unmounted and
\* takes it from; and nothing newer is in that image.
AtRest(f) ==
    /\ \/ InHome(f)
       \/ image = "fs" /\ ~mounted /\ InDisk(f) /\ Newer(disk, plain, f)
    /\ Newer(disk, plain, f) => InDisk(f)

Kept(f) ==
    /\ enc[f] \in Nat => enc[f] = latest[f]
    /\ pc \in {"off", "unseal", "clean", "mount"} => AtRest(f)
    /\ pc = "recover" => IF f \in todo THEN InDisk(f) ELSE InPlain(f)
    /\ pc = "persist" => InDisk(f) /\ (f \in todo \/ InPlain(f))
    /\ pc \in {"allocate", "format", "populate", "join", "prepare"} => InPlain(f)
    /\ pc = "allocate" => ~Newer(disk, plain, f)
    /\ pc \in {"running", "teardown"} =>
        IF session THEN InDisk(f) /\ (InPlain(f) \/ Newer(disk, plain, f)) ELSE InPlain(f)
    /\ pc = "seal" => /\ InHome(f) /\ (f \in todo => InPlain(f))
                      /\ disk[f] # Absent => InDisk(f)

KeptInv == spared => \A f \in File : latest[f] # Absent => Kept(f)

HomeInv == IInv /\ RollInv /\ MadeInv /\ SparedInv /\ KeptInv

\* The version that is kept is a number, and so is no mark of a file.
LEMMA Versions ==
    ASSUME IInv, NEW f \in File
    PROVE  /\ latest[f] # Absent => latest[f] \in Nat
           /\ enc[f] \in Nat \cup {Absent, Garbled} /\ Absent \notin Nat /\ Garbled \notin Nat
           /\ plain[f] # Absent => plain[f].ver \in Nat /\ plain[f].time \in Nat
           /\ disk[f] # Absent => disk[f].ver \in Nat /\ disk[f].time \in Nat
BY ConstantsOK DEF IInv, TypeOK, Copies

\* What unseal_home works on is in the home, and no older than in an image.
LEMMA Unsealing ==
    ASSUME HomeInv, NEW f \in File, UnsealOpen(f) \/ UnsealWrite(f) \/ UnsealRemove(f)
    PROVE  /\ plain'[f] # Absent /\ ~Stale(f)' /\ disk' = disk
           /\ \A g \in File \ {f} : plain'[g] = plain[g] /\ enc'[g] = enc[g]
           /\ enc[f] # Absent /\ enc[f] # Garbled
<1>1. CASE UnsealOpen(f)
    <2>1. /\ now' = now + 1 /\ plain' = [plain EXCEPT ![f] = Copy(Torn, now')]
          /\ UNCHANGED <<enc, disk>> /\ f \in todo /\ enc[f] # Garbled /\ pc = "unseal"
        BY <1>1 DEF UnsealOpen, store
    <2>2. now \in Nat /\ plain \in [File -> Copies \cup {Absent}]
        BY DEF HomeInv, IInv, TypeOK
    <2>3. plain'[f] = Copy(Torn, now') /\ plain'[f] # Absent /\ plain'[f].time = now + 1
        BY <2>1, <2>2, CopyOK DEF Copy, Torn
    <2>4. disk[f] # Absent => disk[f].time \in Nat /\ disk[f].time <= now
        BY Versions DEF HomeInv, RollInv, DateInv, Dated
    <2>5. ~Stale(f)'
        BY <2>1, <2>2, <2>3, <2>4 DEF Stale, Newer
    <2>6. enc[f] # Absent
        BY <2>1 DEF HomeInv, IInv, UnsealInv
    <2>7. QED
        BY <2>1, <2>2, <2>3, <2>5, <2>6
<1>2. CASE UnsealWrite(f) \/ UnsealRemove(f)
    <2>1. /\ pc = "unseal" /\ work # Idle /\ work.file = f /\ disk' = disk
          /\ \A g \in File \ {f} : plain'[g] = plain[g] /\ enc'[g] = enc[g]
        BY <1>2, ConstantsOK DEF UnsealWrite, UnsealRemove, Idle, store, HomeInv, IInv, TypeOK
    <2>2. /\ plain[f] # Absent /\ enc[f] # Garbled /\ enc[f] # Absent
        BY <2>1 DEF HomeInv, IInv, UnsealInv, WorkInv
    <2>3. disk[f] # Absent => disk[f].time <= plain[f].time
        BY <2>1 DEF HomeInv, RollInv, OpenedInv
    <2>4. plain'[f] # Absent /\ plain'[f].time = plain[f].time
        <3>1. CASE UnsealRemove(f)
            BY <2>2, <3>1 DEF UnsealRemove
        <3>2. CASE UnsealWrite(f)
            <4>1. plain[f] \in Copies /\ enc[f] \in Nat
                BY <2>2 DEF HomeInv, IInv, TypeOK
            <4>2. plain' = [plain EXCEPT ![f].ver = enc[f]]
                BY <3>2 DEF UnsealWrite
            <4>3. plain'[f] = Copy(enc[f], plain[f].time)
                BY <4>1, <4>2 DEF HomeInv, IInv, TypeOK, Copies, Copy
            <4>4. plain[f].time \in Nat
                BY <4>1 DEF Copies
            <4>5. QED
                BY <4>1, <4>3, <4>4, CopyOK DEF Copy
        <3>3. QED
            BY <1>2, <3>1, <3>2
    <2>5. plain[f].time \in Nat /\ (disk[f] # Absent => disk[f].time \in Nat)
        BY <2>2, Versions DEF HomeInv
    <2>6. ~Stale(f)'
        BY <2>1, <2>3, <2>4, <2>5 DEF Stale, Newer
    <2>7. QED
        BY <2>1, <2>2, <2>4, <2>6
<1>3. QED
    BY <1>1, <1>2

\* unseal_home.
LEMMA UnsealSpared ==
    ASSUME HomeInv, Unseal
    PROVE  SparedInv'
<1>1. ASSUME NEW f \in File, UnsealOpen(f) \/ UnsealWrite(f) \/ UnsealRemove(f)
      PROVE  SparedInv'
    <2>1. pc = "unseal" /\ pc' = "unseal" /\ UNCHANGED <<session, spared, image>>
        BY <1>1 DEF UnsealOpen, UnsealWrite, UnsealRemove, store
    <2>2. /\ plain'[f] # Absent /\ ~Stale(f)' /\ disk' = disk
          /\ \A g \in File \ {f} : plain'[g] = plain[g] /\ enc'[g] = enc[g]
        BY <1>1, Unsealing
    <2>3. \A g \in File \ {f} : Stale(g)' <=> Stale(g)
        BY <2>2 DEF Stale, Newer
    <2>4. QED
        BY <2>1, <2>2, <2>3 DEF HomeInv, SparedInv, Between, Occupied, Filled
<1>2. ASSUME NEW f \in File, UnsealRefused(f)
      PROVE  SparedInv'
    <2>1. /\ pc = "unseal" /\ pc' \in {"unseal", "off"}
          /\ UNCHANGED <<session, spared, image, plain, disk>>
          /\ enc[f] = Garbled /\ (enc' = [enc EXCEPT ![f] = Absent] \/ enc' = enc)
        BY <1>2 DEF UnsealRefused, End, store
    <2>2. \A g \in File : enc'[g] \in {enc[g], Absent} /\ (g # f => enc'[g] = enc[g])
        BY <2>1 DEF HomeInv, IInv, TypeOK
    <2>3. \A g \in File : Stale(g)' <=> Stale(g)
        BY <2>1 DEF Stale, Newer
    <2>4. QED
        BY <2>1, <2>2, <2>3, ConstantsOK DEF HomeInv, SparedInv, Between, Occupied, Filled
<1>3. CASE UnsealDone \/ UnsealFails
    <2>1. /\ pc = "unseal" /\ pc' \in {"clean", "off"} /\ (pc' = "clean" => todo = {})
          /\ UNCHANGED <<session, spared, image, plain, enc, disk>>
        BY <1>3 DEF UnsealDone, UnsealFails, Goto, End, home, store
    <2>2. pc' = "clean" => \A f \in File : enc[f] = Absent
        BY <2>1 DEF HomeInv, IInv, UnsealInv
    <2>3. \A g \in File : Stale(g)' <=> Stale(g)
        BY <2>1 DEF Stale, Newer
    <2>4. QED
        BY <2>1, <2>2, <2>3 DEF HomeInv, SparedInv, Between, Occupied, Filled
<1>4. QED
    BY <1>1, <1>2, <1>3 DEF Unseal

\* seal_home, and the run that begins or breaks off.
LEMMA SealSpared ==
    ASSUME HomeInv, Seal \/ Begin \/ Crash
    PROVE  SparedInv'
<1>1. ASSUME NEW f \in File, SealOpen(f) \/ SealWrite(f) \/ SealRemove(f)
      PROVE  SparedInv'
    <2>1. /\ pc = "seal" /\ pc' = "seal" /\ UNCHANGED <<session, spared, image, disk>>
          /\ f \in todo /\ plain[f] # Absent
        BY <1>1, ConstantsOK
        DEF SealOpen, SealWrite, SealRemove, store, HomeInv, IInv, WorkInv, SealInv, Idle
    <2>2. /\ \A g \in File \ {f} : plain'[g] = plain[g] /\ enc'[g] = enc[g]
          /\ plain'[f] \in {plain[f], Absent}
          /\ plain'[f] = Absent => enc'[f] \in Nat
        <3>1. CASE SealRemove(f)
            BY <3>1 DEF SealRemove, HomeInv, IInv, SealInv, TypeOK
        <3>2. CASE SealOpen(f) \/ SealWrite(f)
            BY <2>1, <3>2 DEF SealOpen, SealWrite, HomeInv, IInv, TypeOK
        <3>3. QED
            BY <1>1, <3>1, <3>2
    <2>3. \A g \in File : Stale(g)' => Stale(g)
        BY <2>1, <2>2 DEF Stale, Newer
    <2>4. SUFFICES ASSUME spared PROVE SparedInv'
        BY <2>1 DEF SparedInv
    <2>5. \A g \in File : plain[g] # Absent \/ enc[g] # Absent
                           => plain'[g] # Absent \/ enc'[g] # Absent
        BY <2>1, <2>2, ConstantsOK
    <2>6. \A g \in File : (enc'[g] = Garbled => plain'[g] # Absent) /\ ~Stale(g)'
        BY <2>1, <2>2, <2>3, <2>4, ConstantsOK DEF HomeInv, SparedInv
    <2>7. image # "none" => \E g \in File \ Junk : plain'[g] # Absent \/ enc'[g] # Absent
        BY <2>4, <2>5 DEF HomeInv, SparedInv
    <2>8. QED
        BY <2>1, <2>4, <2>6, <2>7 DEF HomeInv, SparedInv, Between, Occupied, Filled
<1>2. CASE SealFails \/ SealDone \/ Crash
    <2>1. pc' = "off" /\ UNCHANGED <<image, plain, enc, disk>>
        BY <1>2 DEF SealFails, SealDone, Crash, End, home, store
    <2>2. \A g \in File : Stale(g)' <=> Stale(g)
        BY <2>1 DEF Stale, Newer
    <2>3. spared' => spared
        BY <1>2 DEF SealFails, SealDone, Crash
    <2>4. QED
        BY <2>1, <2>2, <2>3 DEF HomeInv, SparedInv, Between, Occupied, Filled
<1>3. CASE Begin
    <2>1. /\ pc' \in {"unseal", "clean"} /\ UNCHANGED <<image, plain, enc, disk>>
          /\ spared' => /\ spared
                        /\ session' \/ image = "none"
                        /\ pc' = "clean" => Files(enc) = {}
        BY <1>3 DEF Begin, home, store
    <2>2. \A g \in File : Stale(g)' <=> Stale(g)
        BY <2>1 DEF Stale, Newer
    <2>3. Files(enc) = {} => \A f \in File : enc[f] = Absent
        BY DEF Files
    <2>4. QED
        BY <2>1, <2>2, <2>3 DEF HomeInv, SparedInv, Between, Occupied, Filled
<1>4. QED
    BY <1>1, <1>2, <1>3 DEF Seal

\* An image is made, or found, for a home with files only.
LEMMA SetupSpared ==
    ASSUME HomeInv, SetupSession
    PROVE  SparedInv'
<1>1. CASE CleanHome
    <2> SUFFICES ASSUME spared PROVE SparedInv'
        BY <1>1 DEF CleanHome, SparedInv
    <2>1. \A f \in File : enc[f] = Absent
        BY <1>1 DEF CleanHome, HomeInv, SparedInv, Between
    <2>2. /\ UNCHANGED <<enc, image>> /\ pc = "clean" /\ pc' \in {"join", "mount", "allocate"}
          /\ \A f \in File : plain'[f] = IF f \in Junk THEN Absent ELSE plain[f]
          /\ session' <=> session /\ Files(plain') \cup Files(enc) # {}
        BY <1>1 DEF CleanHome, store, Without
    <2>3. session' <=> session /\ \E f \in File \ Junk : plain'[f] # Absent
        BY <2>1, <2>2 DEF Files
    <2>4. image # "none" => session /\ \E f \in File \ Junk : plain'[f] # Absent
        BY <2>1, <2>2 DEF HomeInv, SparedInv
    <2>5. QED
        BY <2>1, <2>2, <2>3, <2>4, ConstantsOK DEF SparedInv
<1>2. CASE ~CleanHome
    <2>0. spared' => spared
        BY <1>2
        DEF SetupSession, MountLeftover, MountRefused, RecoverDone, Allocate, Format, SetupFails,
            PopulateFails, PopulateDone
    <2>1. /\ UNCHANGED <<plain, enc, session>>
          /\ pc \in {"mount", "recover", "allocate", "format", "populate"}
          /\ pc' \in {"off", "recover", "allocate", "format", "populate", "join"}
        <3>1. CASE MountLeftover \/ MountRefused \/ RecoverDone
            BY <3>1 DEF MountLeftover, MountRefused, RecoverDone, home, Goto
        <3>2. CASE Allocate \/ Format \/ PopulateDone
            BY <3>2 DEF Allocate, Format, PopulateDone, home, Goto
        <3>3. CASE SetupFails \/ PopulateFails
            BY <3>3 DEF SetupFails, PopulateFails, home, End
        <3>4. QED
            BY <1>2, <3>1, <3>2, <3>3 DEF SetupSession
    <2>2. spared => session /\ \A f \in File : enc[f] = Absent
        BY <2>1 DEF HomeInv, SparedInv, Between, MadeInv, ImageInv, Occupied, Filled
    <2>3. spared => \E f \in File \ Junk : plain[f] # Absent
        BY <2>1, <2>2 DEF HomeInv, SparedInv, Occupied, Filled
    <2>4. QED
        BY <2>0, <2>1, <2>2, <2>3, ConstantsOK DEF SparedInv
<1>3. QED
    BY <1>1, <1>2

\* What is sealed was copied back before.
LEMMA ContainerSpared ==
    ASSUME HomeInv, Container \/ CleanSession \/ Teardown
    PROVE  SparedInv'
<1>0. spared' => spared
    BY DEF Container, JoinOK, JoinFails, PrepareFails, Start, ContainerEnds, CleanSession, Teardown
<1>1. /\ UNCHANGED <<plain, enc, session>>
      /\ pc \in {"join", "prepare", "running", "teardown", "persist"}
      /\ pc' \in {"off", "prepare", "running", "teardown", "persist", "seal"}
    <2>1. CASE JoinOK \/ JoinFails
        BY <2>1 DEF JoinOK, JoinFails, home, Goto, End
    <2>2. CASE PrepareFails \/ Start
        BY <2>2 DEF PrepareFails, Start, home, Goto, End
    <2>3. CASE ContainerEnds
        BY <2>3 DEF ContainerEnds, home, Goto
    <2>4. CASE CleanSession \/ Teardown
        <3>1. pc \in {"teardown", "persist"} => session
            BY DEF HomeInv, MadeInv, ImageInv, Occupied, Filled
        <3>2. QED
            BY <2>4, <3>1 DEF CleanSession, Teardown, home, Goto
    <2>5. QED
        BY <2>1, <2>2, <2>3, <2>4 DEF Container
<1>2. image' \in {image, "none"}
    <2>1. CASE Teardown
        BY <2>1, Discarded DEF Teardown, HomeInv, IInv
    <2>2. CASE ~Teardown
        BY <2>2, Discarded
        DEF Container, JoinOK, JoinFails, PrepareFails, Start, ContainerEnds, CleanSession, store,
            HomeInv, IInv
    <2>3. QED
        BY <2>1, <2>2
<1>3. spared' /\ pc' = "seal" => \A f \in File : ~Stale(f)'
    <2>1. CASE Teardown
        <3>1. SUFFICES ASSUME spared', NEW f \in File PROVE ~Stale(f)'
            OBVIOUS
        <3>2. todo = {} /\ pc = "persist" /\ disk'[f] \in {disk[f], Absent}
            BY <2>1, <3>1, Discarded DEF Teardown, HomeInv, IInv
        <3>3. ~Newer(disk, plain, f)
            BY <3>2 DEF HomeInv, RollInv, TodoInv
        <3>4. QED
            BY <1>1, <3>2, <3>3 DEF Stale, Newer
    <2>2. CASE ContainerEnds
        <3>1. SUFFICES ASSUME spared', pc' = "seal", NEW f \in File PROVE ~Stale(f)'
            OBVIOUS
        <3>2. ~session /\ pc = "running" /\ disk' = disk
            BY <2>2, <3>1 DEF ContainerEnds, Goto, store
        <3>3. image = "none"
            BY <1>0, <1>1, <3>1, <3>2 DEF HomeInv, SparedInv
        <3>4. disk[f] = Absent
            BY <3>3 DEF HomeInv, MadeInv, ImageInv, Empty
        <3>5. QED
            BY <3>2, <3>4 DEF Stale, Newer
    <2>3. CASE ~Teardown /\ ~ContainerEnds
        BY <2>3 DEF Container, JoinOK, JoinFails, PrepareFails, Start, CleanSession, Goto, End
    <2>4. QED
        BY <2>1, <2>2, <2>3
<1>4. spared => \A f \in File : enc[f] = Absent
    BY <1>1 DEF HomeInv, SparedInv, Between
<1>5. QED
    BY <1>0, <1>1, <1>2, <1>3, <1>4, ConstantsOK DEF HomeInv, SparedInv, Occupied, Filled

\* No copy takes a file away.
LEMMA FilesSpared ==
    ASSUME HomeInv, NEW f \in File, CopyOpen(f) \/ CopyClose(f) \/ AppEdits(f)
    PROVE  SparedInv'
<1>1. /\ UNCHANGED <<enc, image, pc, session, spared>>
      /\ pc \in {"recover", "populate", "persist", "running"}
    BY DEF CopyOpen, CopyClose, AppEdits, flow
<1>2. spared => \A g \in File : enc[g] = Absent
    BY <1>1 DEF HomeInv, SparedInv, Between
<1>3. CASE CopyOpen(f) \/ CopyClose(f)
    <2>1. \A g \in File : plain[g] # Absent => plain'[g] # Absent
        <3>1. CopyOpen(f) => Copy(Torn, now') # Absent
            <4>1. CopyOpen(f) => now' \in Nat
                BY DEF CopyOpen, HomeInv, IInv, TypeOK
            <4>2. QED
                BY <4>1, CopyOK DEF Torn
        <3>2. CopyClose(f) /\ pc # "populate" => disk[f] # Absent
            BY ConstantsOK DEF CopyClose, HomeInv, RollInv, TodoInv, Newer, IInv, WorkInv, Idle
        <3>3. QED
            BY <1>3, <3>1, <3>2 DEF CopyOpen, CopyClose, HomeInv, IInv, TypeOK
    <2>2. QED
        BY <1>1, <1>2, <2>1, ConstantsOK DEF HomeInv, SparedInv, Occupied, Filled
<1>4. CASE AppEdits(f)
    <2>1. pc = "running" /\ (session => plain' = plain)
        BY <1>4 DEF AppEdits
    <2>2. QED
        BY <1>1, <1>2, <2>1, ConstantsOK DEF HomeInv, SparedInv, Occupied, Filled
<1>5. QED
    BY <1>3, <1>4

\* One file that is kept, before and after a step.
LEMMA KeptStep ==
    ASSUME spared' => spared /\ \A f \in File : latest'[f] # Absent /\ spared' => Kept(f)'
    PROVE  KeptInv'
BY DEF KeptInv

\* unseal_home: the cipher file stays until its plaintext is whole.
LEMMA UnsealKept ==
    ASSUME HomeInv, Unseal
    PROVE  KeptInv'
<1>1. ASSUME NEW f \in File,
             UnsealOpen(f) \/ UnsealWrite(f) \/ UnsealRemove(f) \/ UnsealRefused(f)
      PROVE  KeptInv'
    <2>1. pc = "unseal" /\ pc' \in {"unseal", "off"} /\ UNCHANGED <<store, spared>>
        BY <1>1 DEF UnsealOpen, UnsealWrite, UnsealRemove, UnsealRefused, End
    <2>2. SUFFICES ASSUME spared, NEW g \in File, latest'[g] # Absent
                   PROVE  Kept(g)'
        BY <2>1, KeptStep
    <2>3. CASE g # f
        <3>1. plain'[g] = plain[g] /\ enc'[g] = enc[g] /\ latest'[g] = latest[g]
            BY <1>1, <2>3
            DEF UnsealOpen, UnsealWrite, UnsealRemove, UnsealRefused, HomeInv, IInv, TypeOK
        <3>2. Kept(g)
            BY <2>2, <3>1 DEF HomeInv, KeptInv
        <3>3. QED
            BY <2>1, <3>1, <3>2 DEF Kept, AtRest, InHome, InPlain, InDisk, Newer, store
    <2>4. CASE g = f /\ (UnsealOpen(f) \/ UnsealWrite(f) \/ UnsealRemove(f))
        <3>1. /\ plain'[f] # Absent /\ ~Newer(disk, plain, f)'
              /\ enc[f] # Absent /\ enc[f] # Garbled /\ latest' = latest
            <4>1. plain'[f] # Absent /\ ~Stale(f)' /\ enc[f] # Absent /\ enc[f] # Garbled
                BY <2>4, Unsealing
            <4>2. QED
                BY <2>4, <4>1 DEF Stale, UnsealOpen, UnsealWrite, UnsealRemove
        <3>2. enc[f] \in Nat
            BY <3>1, Versions DEF HomeInv
        <3>3. enc[f] = latest[f]
            BY <2>2, <2>4, <3>1, <3>2 DEF HomeInv, KeptInv, Kept
        <3>4. CASE UnsealOpen(f) \/ UnsealWrite(f)
            <4>1. enc' = enc
                BY <3>4 DEF UnsealOpen, UnsealWrite
            <4>2. QED
                BY <2>1, <2>4, <3>1, <3>3, <4>1 DEF Kept, AtRest, InHome
        <3>5. CASE UnsealRemove(f)
            <4>1. plain' = plain /\ work.stage = "written" /\ work.file = f
                BY <3>5 DEF UnsealRemove
            <4>2. plain[f].ver = enc[f]
                BY <4>1 DEF HomeInv, MadeInv, WrittenInv
            <4>3. InPlain(f)'
                BY <3>1, <3>3, <4>1, <4>2 DEF InPlain
            <4>4. enc'[f] \notin Nat
                BY <3>5, ConstantsOK DEF UnsealRemove, HomeInv, IInv, TypeOK
            <4>5. QED
                BY <2>1, <2>4, <3>1, <4>3, <4>4 DEF Kept, AtRest, InHome
        <3>6. QED
            BY <2>4, <3>4, <3>5
    <2>5. CASE g = f /\ UnsealRefused(f)
        <3>1. plain' = plain /\ enc[f] = Garbled /\ disk' = disk
            BY <2>1, <2>5 DEF UnsealRefused, store
        <3>2. plain[f] # Absent /\ ~Newer(disk, plain, f)
            BY <2>2, <3>1, ConstantsOK DEF HomeInv, SparedInv, Stale
        <3>3. ~Newer(disk, plain, f)'
            BY <3>1, <3>2 DEF Newer
        <3>4. CASE latest'[f] = plain[f].ver
            <4>1. InPlain(f)'
                BY <3>1, <3>2, <3>4 DEF InPlain
            <4>2. enc'[f] \notin Nat
                BY <2>5, <3>1, ConstantsOK DEF UnsealRefused, HomeInv, IInv, TypeOK
            <4>3. QED
                BY <2>1, <2>5, <3>3, <4>1, <4>2 DEF Kept, AtRest, InHome
        <3>5. CASE enc' = enc /\ latest' = latest
            <4>1. Kept(f)
                BY <2>2, <2>5, <3>5 DEF HomeInv, KeptInv
            <4>2. QED
                BY <2>1, <2>5, <3>1, <3>5, <4>1
                DEF Kept, AtRest, InHome, InPlain, InDisk, Newer, store
        <3>6. latest'[f] = plain[f].ver \/ (enc' = enc /\ latest' = latest)
            BY <2>5, <3>2 DEF UnsealRefused, HomeInv, IInv, TypeOK
        <3>7. QED
            BY <3>4, <3>5, <3>6
    <2>6. QED
        BY <1>1, <2>3, <2>4, <2>5
<1>2. CASE UnsealDone \/ UnsealFails
    <2>1. /\ pc = "unseal" /\ pc' \in {"off", "clean"}
          /\ UNCHANGED <<plain, enc, image, disk, mounted, latest, spared>>
        BY <1>2 DEF UnsealDone, UnsealFails, Goto, End, home, store
    <2>2. QED
        BY <2>1 DEF HomeInv, KeptInv, Kept, AtRest, InHome, InPlain, InDisk, Newer
<1>3. QED
    BY <1>1, <1>2 DEF Unseal

\* seal_home: the plaintext stays until its cipher file is whole.
LEMMA SealKept ==
    ASSUME HomeInv, Seal
    PROVE  KeptInv'
<1>1. ASSUME NEW f \in File, SealOpen(f) \/ SealWrite(f) \/ SealRemove(f)
      PROVE  KeptInv'
    <2>1. /\ pc = "seal" /\ pc' = "seal" /\ UNCHANGED <<store, latest, spared>>
          /\ f \in todo /\ plain[f] # Absent
        BY <1>1, ConstantsOK
        DEF SealOpen, SealWrite, SealRemove, HomeInv, IInv, WorkInv, SealInv, Idle
    <2>2. SUFFICES ASSUME spared, NEW g \in File, latest[g] # Absent
                   PROVE  Kept(g)'
        BY <2>1, KeptStep
    <2>3. Kept(g)
        BY <2>2 DEF HomeInv, KeptInv
    <2>4. CASE g # f
        <3>1. plain'[g] = plain[g] /\ enc'[g] = enc[g] /\ (g \in todo' => g \in todo)
            BY <1>1, <2>4 DEF SealOpen, SealWrite, SealRemove, HomeInv, IInv, TypeOK
        <3>2. QED
            BY <2>1, <2>3, <3>1 DEF Kept, InHome, InPlain, InDisk, store
    <2>5. CASE g = f
        <3>1. InPlain(f) /\ (disk'[f] # Absent => InDisk(f)')
            BY <2>1, <2>3, <2>5 DEF Kept, InDisk, store
        <3>2. CASE SealOpen(f)
            <4>1. enc'[f] = Garbled /\ plain' = plain
                BY <3>2 DEF SealOpen, HomeInv, IInv, TypeOK
            <4>2. QED
                BY <2>1, <2>5, <3>1, <4>1, ConstantsOK DEF Kept, InHome, InPlain
        <3>3. CASE SealWrite(f)
            <4>1. enc'[f] = plain[f].ver /\ plain' = plain
                BY <3>3 DEF SealWrite, HomeInv, IInv, TypeOK
            <4>2. QED
                BY <2>1, <2>5, <3>1, <4>1 DEF Kept, InHome, InPlain
        <3>4. CASE SealRemove(f)
            <4>1. enc'[f] = latest[f] /\ f \notin todo'
                BY <3>1, <3>4 DEF SealRemove, HomeInv, MadeInv, WrittenInv, InPlain
            <4>2. QED
                BY <2>1, <2>5, <3>1, <4>1 DEF Kept, InHome
        <3>5. QED
            BY <1>1, <3>2, <3>3, <3>4
    <2>6. QED
        BY <2>4, <2>5
<1>2. CASE SealFails \/ SealDone
    <2>1. /\ pc = "seal" /\ pc' = "off"
          /\ UNCHANGED <<plain, enc, image, disk, mounted, latest, spared>>
        BY <1>2 DEF SealFails, SealDone, End, home, store
    <2>2. SUFFICES ASSUME spared, NEW g \in File, latest[g] # Absent
                   PROVE  Kept(g)'
        BY <2>1, KeptStep
    <2>3. Kept(g)
        BY <2>1, <2>2 DEF HomeInv, KeptInv
    <2>4. QED
        BY <2>1, <2>3 DEF Kept, AtRest, InHome, InPlain, InDisk, Newer
<1>3. QED
    BY <1>1, <1>2 DEF Seal

\* A run begins, or breaks off: an image then is there as after the step before.
LEMMA BreakKept ==
    ASSUME HomeInv, Begin \/ Crash
    PROVE  KeptInv'
<1>1. /\ UNCHANGED <<plain, enc, image, disk, latest>> /\ (spared' => spared)
      /\ pc' \in {"off", "unseal", "clean"}
    BY DEF Begin, Crash, End, home, store
<1>2. SUFFICES ASSUME spared', spared, NEW g \in File, latest[g] # Absent
               PROVE  Kept(g)'
    BY <1>1, KeptStep
<1>3. Kept(g)
    BY <1>2 DEF HomeInv, KeptInv
<1>4. AtRest(g)'
    <2>1. CASE Begin
        BY <1>1, <1>3, <2>1 DEF Begin, store, Kept, AtRest, InHome, InPlain, InDisk, Newer
    <2>2. CASE Crash
        <3>1. ~mounted' /\ pc # "off" /\ (work # Idle => pc \in {"unseal", "seal"})
            BY <1>2, <2>2 DEF Crash
        <3>2. CASE pc \in {"unseal", "clean", "mount"}
            BY <1>1, <1>3, <3>1, <3>2 DEF Kept, AtRest, InHome, InPlain, InDisk, Newer
        <3>3. CASE pc \in {"recover", "persist"}
            <4>1. work = Idle
                BY <3>1, <3>3
            <4>2. image = "fs"
                BY <3>3 DEF HomeInv, MadeInv, ImageInv, Filled, Occupied
            <4>3. CASE g \in todo
                <5>1. Newer(disk, plain, g) /\ InDisk(g)
                    BY <1>3, <3>3, <4>1, <4>3, ConstantsOK
                    DEF HomeInv, RollInv, TodoInv, Idle, Kept
                <5>2. QED
                    BY <1>1, <3>1, <4>2, <5>1 DEF AtRest, InDisk, Newer
            <4>4. CASE g \notin todo
                <5>1. ~Newer(disk, plain, g) /\ InPlain(g)
                    BY <1>3, <3>3, <4>4 DEF HomeInv, RollInv, TodoInv, Kept
                <5>2. QED
                    BY <1>1, <5>1 DEF AtRest, InHome, InPlain, Newer
            <4>5. QED
                BY <4>3, <4>4
        <3>4. CASE pc \in {"allocate", "format", "populate", "join", "prepare"}
            <4>1. InPlain(g)
                BY <1>3, <3>4 DEF Kept
            <4>2. CASE pc = "allocate"
                BY <1>1, <1>3, <4>1, <4>2 DEF Kept, AtRest, InHome, InPlain, Newer
            <4>3. CASE pc # "allocate"
                <5>1. disk[g] = Absent \/ disk[g] = plain[g]
                    <6>1. CASE pc = "format"
                        BY <6>1 DEF HomeInv, MadeInv, ImageInv, Empty
                    <6>2. CASE pc = "populate"
                        <7>1. work = Idle
                            BY <3>1, <6>2
                        <7>2. QED
                            BY <6>2, <7>1, ConstantsOK DEF HomeInv, MadeInv, FillInv, Idle
                    <6>3. CASE pc \in {"join", "prepare"} /\ session
                        BY <6>3 DEF HomeInv, MadeInv, FillInv
                    <6>4. CASE pc \in {"join", "prepare"} /\ ~session
                        BY <1>2, <6>4 DEF HomeInv, SparedInv, MadeInv, ImageInv, Empty
                    <6>5. QED
                        BY <3>4, <4>3, <6>1, <6>2, <6>3, <6>4
                <5>2. plain[g] # Absent /\ plain[g].time \in Nat
                    BY <4>1, Versions DEF InPlain, HomeInv
                <5>3. QED
                    BY <1>1, <4>1, <5>1, <5>2 DEF AtRest, InHome, InPlain, Newer
            <4>4. QED
                BY <4>2, <4>3
        <3>5. CASE pc \in {"running", "teardown"}
            <4>1. CASE session
                <5>1. image = "fs"
                    BY <3>5, <4>1 DEF HomeInv, MadeInv, ImageInv, Filled
                <5>2. InDisk(g) /\ (InPlain(g) \/ Newer(disk, plain, g))
                    BY <1>3, <3>5, <4>1 DEF Kept
                <5>3. QED
                    BY <1>1, <3>1, <5>1, <5>2 DEF AtRest, InHome, InPlain, InDisk, Newer
            <4>2. CASE ~session
                <5>1. disk[g] = Absent
                    BY <1>2, <3>1, <4>2 DEF HomeInv, SparedInv, MadeInv, ImageInv, Empty
                <5>2. InPlain(g)
                    BY <1>3, <3>5, <4>2 DEF Kept
                <5>3. QED
                    BY <1>1, <5>1, <5>2 DEF AtRest, InHome, InPlain, Newer
            <4>3. QED
                BY <4>1, <4>2
        <3>6. CASE pc = "seal"
            <4>1. InHome(g) /\ (disk[g] # Absent => InDisk(g))
                BY <1>3, <3>6 DEF Kept
            <4>2. QED
                BY <1>1, <4>1 DEF AtRest, InHome, InPlain, InDisk, Newer
        <3>7. QED
            BY <3>1, <3>2, <3>3, <3>4, <3>5, <3>6 DEF HomeInv, IInv, TypeOK
    <2>3. QED
        BY <2>1, <2>2
<1>5. QED
    BY <1>1, <1>3, <1>4 DEF Kept

\* setup_session.
LEMMA SetupKept ==
    ASSUME HomeInv, SetupSession
    PROVE  KeptInv'
<1>0. (spared' => spared) /\ enc' = enc
    <2>1. spared' => spared
        BY DEF SetupSession, CleanHome, MountLeftover, MountRefused, RecoverDone, Allocate, Format,
               SetupFails, PopulateFails, PopulateDone
    <2>2. enc' = enc
        BY DEF SetupSession, CleanHome, MountLeftover, MountRefused, RecoverDone, Allocate, Format,
               SetupFails, PopulateFails, PopulateDone, home
    <2>3. QED
        BY <2>1, <2>2
<1>1. SUFFICES ASSUME spared', spared, NEW g \in File, latest'[g] # Absent
               PROVE  Kept(g)'
    BY <1>0, KeptStep
<1>2. CASE CleanHome
    <2>1. /\ pc = "clean" /\ UNCHANGED <<image, disk, mounted>>
          /\ plain'[g] = plain[g] /\ latest'[g] = latest[g]
          /\ pc' = IF ~session' THEN "join" ELSE IF image # "none" THEN "mount" ELSE "allocate"
        BY <1>1, <1>2 DEF CleanHome, store, Without
    <2>2. enc[g] = Absent /\ enc'[g] \notin Nat /\ latest[g] # enc[g]
        BY <1>0, <1>1, <2>1, ConstantsOK DEF HomeInv, SparedInv, Between
    <2>3. AtRest(g)
        BY <1>1, <2>1 DEF HomeInv, KeptInv, Kept
    <2>4. CASE image # "none"
        <3>1. SparedInv'
            BY SetupSpared
        <3>2. session'
            BY <1>1, <2>1, <2>4, <3>1 DEF SparedInv
        <3>3. AtRest(g)'
            BY <1>0, <2>1, <2>3 DEF AtRest, InHome, InPlain, InDisk, Newer
        <3>4. QED
            BY <2>1, <2>2, <2>4, <3>2, <3>3 DEF Kept
    <2>5. CASE image = "none"
        <3>1. InPlain(g) /\ disk[g] = Absent
            BY <2>2, <2>3, <2>5 DEF AtRest, InHome, HomeInv, MadeInv, ImageInv, Empty
        <3>2. InPlain(g)' /\ ~Newer(disk, plain, g)'
            BY <2>1, <3>1 DEF InPlain, Newer
        <3>3. pc' \in {"join", "allocate"}
            BY <2>1, <2>5
        <3>4. QED
            BY <2>2, <3>2, <3>3 DEF Kept
    <2>6. QED
        BY <2>4, <2>5
<1>3. ASSUME ~CleanHome
      PROVE  /\ UNCHANGED <<plain, latest, session>> /\ Kept(g)
             /\ enc[g] = Absent /\ enc'[g] \notin Nat /\ latest[g] # enc[g]
    <2>1. UNCHANGED <<plain, latest, session>> /\ pc \in Between \ {"clean"}
        BY <1>3
        DEF SetupSession, MountLeftover, MountRefused, RecoverDone, Allocate, Format, SetupFails,
            PopulateFails, PopulateDone, home, Goto, End, Between
    <2>2. Kept(g)
        BY <1>1, <2>1 DEF HomeInv, KeptInv
    <2>3. enc[g] = Absent
        BY <1>1, <2>1 DEF HomeInv, SparedInv
    <2>4. QED
        BY <1>0, <1>1, <2>1, <2>2, <2>3, ConstantsOK
<1>4. CASE ~CleanHome /\ MountLeftover
    <2>1. /\ pc = "mount" /\ pc' = "recover" /\ disk' = disk
          /\ todo' = {f \in File : Newer(disk, plain, f)}
        BY <1>4 DEF MountLeftover, Goto
    <2>2. AtRest(g)
        BY <1>3, <1>4, <2>1 DEF Kept
    <2>3. IF g \in todo' THEN InDisk(g) ELSE InPlain(g)
        BY <1>3, <1>4, <2>1, <2>2 DEF AtRest, InHome
    <2>4. QED
        BY <1>3, <1>4, <2>1, <2>3 DEF Kept, InDisk, InPlain
<1>5. CASE ~CleanHome /\ MountRefused
    <2>1. pc = "mount" /\ pc' = "allocate" /\ (image = "blank" \/ mounted)
        BY <1>5 DEF MountRefused, Goto
    <2>2. InPlain(g)
        BY <1>3, <1>5, <2>1 DEF Kept, AtRest, InHome
    <2>3. disk'[g] = Absent
        <3>1. image = "blank" => disk[g] = Absent
            BY DEF HomeInv, MadeInv, ImageInv, Empty
        <3>2. disk' = Empty \/ (disk' = disk /\ ~mounted)
            <4>1. CASE NoImage
                BY <4>1 DEF NoImage
            <4>2. CASE ~NoImage
                <5>1. mounted' = mounted /\ disk' = IF mounted' THEN Empty ELSE disk
                    BY <1>5, <4>2 DEF MountRefused, DiscardTree
                <5>2. QED
                    BY <5>1
            <4>3. QED
                BY <4>1, <4>2
        <3>3. QED
            BY <2>1, <3>1, <3>2 DEF Empty
    <2>4. QED
        BY <1>3, <1>5, <2>1, <2>2, <2>3 DEF Kept, InPlain, Newer
<1>6. CASE ~CleanHome /\ RecoverDone
    <2>1. pc = "recover" /\ pc' = "allocate" /\ todo = {} /\ disk'[g] \in {disk[g], Absent}
        BY <1>1, <1>6, Discarded DEF RecoverDone, Goto, HomeInv, IInv
    <2>2. InPlain(g) /\ ~Newer(disk, plain, g)
        BY <1>3, <1>6, <2>1 DEF Kept, HomeInv, RollInv, TodoInv
    <2>3. QED
        BY <1>3, <1>6, <2>1, <2>2 DEF Kept, InPlain, Newer
<1>7. CASE ~CleanHome /\ (Allocate \/ Format \/ PopulateDone)
    <2>1. /\ pc \in {"allocate", "format", "populate"} /\ pc' \in {"format", "populate", "join"}
        BY <1>7 DEF Allocate, Format, PopulateDone, Goto
    <2>2. InPlain(g)
        BY <1>3, <1>7, <2>1 DEF Kept
    <2>3. QED
        BY <1>3, <1>7, <2>1, <2>2 DEF Kept, InPlain
<1>8. CASE ~CleanHome /\ (SetupFails \/ PopulateFails)
    <2>1. pc \in {"allocate", "format", "populate"} /\ pc' = "off"
        BY <1>8 DEF SetupFails, PopulateFails, End
    <2>2. InPlain(g) /\ plain[g].time \in Nat
        BY <1>1, <1>3, <1>8, <2>1, Versions DEF Kept, InPlain, HomeInv
    <2>3. ~Newer(disk', plain, g)
        <3>1. CASE SetupFails /\ pc = "allocate"
            BY <1>3, <1>8, <3>1 DEF SetupFails, Kept
        <3>2. CASE SetupFails /\ pc = "format"
            BY <3>2 DEF SetupFails, HomeInv, MadeInv, ImageInv, Empty, Newer
        <3>3. CASE PopulateFails
            <4>1. pc = "populate" /\ image = "fs" /\ disk'[g] \in {disk[g], Absent}
                BY <3>3, Discarded
                DEF PopulateFails, HomeInv, IInv, MadeInv, ImageInv, Occupied, Filled
            <4>2. CASE work = Idle
                <5>1. disk[g] = Absent \/ disk[g] = plain[g]
                    BY <4>1, <4>2, ConstantsOK DEF HomeInv, MadeInv, FillInv, Idle
                <5>2. QED
                    BY <2>2, <4>1, <5>1 DEF Newer
            <4>3. CASE work # Idle
                <5>1. image' = "none"
                    BY <1>1, <3>3, <4>3 DEF PopulateFails
                <5>2. disk'[g] = Absent
                    BY <3>3, <4>1, <5>1, Discarded DEF PopulateFails, HomeInv, IInv, Empty
                <5>3. QED
                    BY <5>2 DEF Newer
            <4>4. QED
                BY <4>2, <4>3
        <3>4. QED
            BY <1>8, <2>1, <3>1, <3>2, <3>3 DEF SetupFails
    <2>4. QED
        BY <1>3, <1>8, <2>1, <2>2, <2>3 DEF Kept, AtRest, InHome, InPlain, Newer
<1>9. QED
    BY <1>2, <1>4, <1>5, <1>6, <1>7, <1>8 DEF SetupSession

\* The container, and teardown_session.
LEMMA ContainerKept ==
    ASSUME HomeInv, Container \/ CleanSession \/ Teardown
    PROVE  KeptInv'
<1>0. (spared' => spared) /\ enc' = enc /\ plain' = plain
    <2>1. spared' => spared
        BY DEF Container, JoinOK, JoinFails, PrepareFails, Start, ContainerEnds, CleanSession,
               Teardown
    <2>2. enc' = enc /\ plain' = plain
        BY DEF Container, JoinOK, JoinFails, PrepareFails, Start, ContainerEnds, CleanSession,
               Teardown, home
    <2>3. QED
        BY <2>1, <2>2
<1>1. SUFFICES ASSUME spared', spared, NEW g \in File, latest'[g] # Absent
               PROVE  Kept(g)'
    BY <1>0, KeptStep
<1>2. latest'[g] = latest[g] /\ latest[g] # Absent /\ (CleanSession => disk'[g] = disk[g])
    <2>1. CASE CleanSession
        BY <1>1, <2>1 DEF CleanSession, Without
    <2>2. CASE ~CleanSession
        BY <1>1, <2>2
        DEF Container, JoinOK, JoinFails, PrepareFails, Start, ContainerEnds, Teardown
    <2>3. QED
        BY <2>1, <2>2
<1>3. Kept(g)
    BY <1>1, <1>2 DEF HomeInv, KeptInv
<1>4. CASE JoinOK
    BY <1>0, <1>2, <1>3, <1>4 DEF JoinOK, Goto, Kept, InPlain
<1>5. CASE JoinFails \/ PrepareFails
    <2>1. pc \in {"join", "prepare"} /\ pc' = "off"
        BY <1>5 DEF JoinFails, PrepareFails, End
    <2>2. InPlain(g) /\ plain[g].time \in Nat
        BY <1>2, <1>3, <2>1, Versions DEF Kept, InPlain, HomeInv
    <2>3. disk'[g] = Absent \/ disk'[g] = plain[g]
        <3>1. disk[g] = Absent \/ disk[g] = plain[g]
            BY <1>1, <2>1 DEF HomeInv, SparedInv, MadeInv, ImageInv, FillInv, Empty
        <3>2. disk'[g] \in {disk[g], Absent}
            BY <1>5, Discarded DEF JoinFails, PrepareFails, store, HomeInv, IInv
        <3>3. QED
            BY <3>1, <3>2
    <2>4. QED
        BY <1>0, <1>2, <1>3, <2>1, <2>2, <2>3 DEF Kept, AtRest, InHome, InPlain, Newer
<1>6. CASE Start
    <2>1. /\ pc = "prepare" /\ pc' = "running" /\ UNCHANGED <<disk, session>>
        BY <1>6 DEF Start, Goto, store
    <2>2. InPlain(g)
        BY <1>3, <2>1 DEF Kept
    <2>3. session => InDisk(g)
        BY <2>1, <2>2 DEF HomeInv, MadeInv, FillInv, InPlain, InDisk
    <2>4. QED
        BY <1>0, <1>2, <1>3, <2>1, <2>2, <2>3 DEF Kept, InPlain, InDisk
<1>7. CASE ContainerEnds
    <2>1. /\ pc = "running" /\ pc' = IF session THEN "teardown" ELSE "seal"
          /\ UNCHANGED <<disk, session>>
        BY <1>7 DEF ContainerEnds, Goto, store
    <2>2. QED
        <3>1. ~session => disk[g] = Absent
            BY <1>1, <2>1 DEF HomeInv, SparedInv, MadeInv, ImageInv, Empty
        <3>2. QED
            BY <1>0, <1>2, <1>3, <2>1, <3>1 DEF Kept, InHome, InPlain, InDisk, Newer
<1>8. CASE CleanSession
    <2>1. /\ pc = "teardown" /\ pc' = "persist" /\ session
          /\ g \in todo' <=> Newer(disk, plain, g)
        <3>1. todo' = {f \in File : Newer(Without(disk), plain, f)} /\ Without(disk)[g] = disk[g]
            BY <1>2, <1>8 DEF CleanSession
        <3>2. Newer(Without(disk), plain, g) <=> Newer(disk, plain, g)
            BY <3>1 DEF Newer
        <3>3. QED
            BY <1>8, <3>1, <3>2 DEF CleanSession, Goto, HomeInv, MadeInv, ImageInv, Occupied, Filled
    <2>2. InDisk(g) /\ (InPlain(g) \/ Newer(disk, plain, g))
        BY <1>3, <2>1 DEF Kept
    <2>3. QED
        BY <1>0, <1>2, <1>3, <1>8, <2>1, <2>2 DEF Kept, InPlain, InDisk
<1>9. CASE Teardown
    <2>1. pc = "persist" /\ pc' = "seal" /\ todo = {} /\ disk'[g] \in {disk[g], Absent}
        BY <1>1, <1>9, Discarded DEF Teardown, Goto, HomeInv, IInv
    <2>2. InPlain(g) /\ InDisk(g)
        BY <1>3, <2>1 DEF Kept
    <2>3. QED
        BY <1>0, <1>2, <1>3, <2>1, <2>2 DEF Kept, InHome, InPlain, InDisk
<1>10. QED
    BY <1>4, <1>5, <1>6, <1>7, <1>8, <1>9 DEF Container

\* A file that is being copied is in the image still; one that is edited is new there.
LEMMA FilesKept ==
    ASSUME HomeInv, NEW f \in File, CopyOpen(f) \/ CopyClose(f) \/ AppEdits(f)
    PROVE  KeptInv'
<1>0. (spared' => spared) /\ enc' = enc /\ UNCHANGED <<pc, session, image>>
    BY DEF CopyOpen, CopyClose, AppEdits, flow
<1>1. SUFFICES ASSUME spared', spared, NEW g \in File, latest'[g] # Absent
               PROVE  Kept(g)'
    BY <1>0, KeptStep
<1>2. /\ plain \in [File -> Copies \cup {Absent}] /\ disk \in [File -> Copies \cup {Absent}]
      /\ latest \in [File -> Nat \cup {Absent}] /\ now \in Nat
    BY DEF HomeInv, IInv, TypeOK
<1>3. CASE g # f
    <2>1. /\ plain'[g] = plain[g] /\ disk'[g] = disk[g] /\ latest'[g] = latest[g]
          /\ g \in todo' <=> g \in todo
        BY <1>2, <1>3 DEF CopyOpen, CopyClose, AppEdits, flow
    <2>2. Kept(g)
        BY <1>1, <2>1 DEF HomeInv, KeptInv
    <2>3. pc \in {"recover", "populate", "persist", "running"}
        BY DEF CopyOpen, CopyClose, AppEdits
    <2>4. QED
        BY <1>0, <2>1, <2>2, <2>3 DEF Kept, InPlain, InDisk, Newer
<1>4. CASE g = f /\ (CopyOpen(f) \/ CopyClose(f))
    <2>1. latest' = latest /\ pc \in {"recover", "populate", "persist"}
        BY <1>4 DEF CopyOpen, CopyClose
    <2>2. Kept(f)
        BY <1>1, <1>4, <2>1 DEF HomeInv, KeptInv
    <2>3. f \in todo
        BY <1>4, ConstantsOK DEF CopyOpen, CopyClose, HomeInv, IInv, WorkInv, Idle
    <2>4. CASE pc = "populate"
        <3>1. plain' = plain
            BY <1>4, <2>4 DEF CopyOpen, CopyClose
        <3>2. QED
            BY <1>0, <1>4, <2>1, <2>2, <2>4, <3>1 DEF Kept, InPlain
    <2>5. CASE pc # "populate"
        <3>1. InDisk(f) /\ disk' = disk
            BY <1>4, <2>1, <2>2, <2>3, <2>5 DEF CopyOpen, CopyClose, Kept
        <3>2. CASE CopyOpen(f)
            <4>1. todo' = todo
                BY <3>2 DEF CopyOpen
            <4>2. QED
                BY <1>0, <1>4, <2>1, <2>2, <2>3, <2>5, <3>1, <4>1 DEF Kept, InDisk
        <3>3. CASE CopyClose(f)
            <4>1. plain'[f] = disk[f] /\ f \notin todo'
                BY <1>2, <2>5, <3>3 DEF CopyClose
            <4>2. QED
                BY <1>0, <1>4, <2>1, <2>2, <2>5, <3>1, <4>1 DEF Kept, InDisk, InPlain
        <3>4. QED
            BY <1>4, <3>2, <3>3
    <2>6. QED
        BY <2>4, <2>5
<1>5. CASE g = f /\ AppEdits(f)
    <2>1. pc = "running" /\ now' = now + 1 /\ now' \in Nat
        BY <1>2, <1>5 DEF AppEdits
    <2>2. PICK c \in {Copy(now', now'), Absent} :
            /\ latest' = [latest EXCEPT ![f] = IF c = Absent THEN Absent ELSE now']
            /\ IF session THEN disk' = [disk EXCEPT ![f] = c] /\ UNCHANGED plain
               ELSE plain' = [plain EXCEPT ![f] = c] /\ UNCHANGED disk
        BY <1>5 DEF AppEdits
    <2>3. /\ c # Absent /\ c = Copy(now', now') /\ c.ver = now' /\ c.time = now'
          /\ latest'[f] = now'
        BY <1>1, <1>2, <1>5, <2>1, <2>2, CopyOK DEF Copy
    <2>4. enc[f] = Absent /\ Absent \notin Nat
        BY <1>1, <2>1, ConstantsOK DEF HomeInv, SparedInv, Between
    <2>5. CASE session
        <3>1. plain' = plain /\ disk'[f] = c
            BY <1>2, <2>2, <2>5
        <3>2. plain[f] # Absent => plain[f].time \in Nat /\ plain[f].time <= now
            BY Versions DEF HomeInv, RollInv, DateInv, Dated
        <3>3. Newer(disk, plain, f)'
            BY <1>2, <2>1, <2>3, <3>1, <3>2 DEF Newer
        <3>4. InDisk(f)'
            BY <2>3, <3>1 DEF InDisk
        <3>5. QED
            BY <1>0, <1>5, <2>1, <2>4, <2>5, <3>3, <3>4 DEF Kept
    <2>6. CASE ~session
        <3>1. plain'[f] = c
            BY <1>2, <2>2, <2>6
        <3>2. InPlain(f)'
            BY <2>3, <3>1 DEF InPlain
        <3>3. QED
            BY <1>0, <1>5, <2>1, <2>4, <2>6, <3>2 DEF Kept
    <2>7. QED
        BY <2>5, <2>6
<1>6. QED
    BY <1>3, <1>4, <1>5

LEMMA HomeInvariant == Spec => []HomeInv
<1>1. Init => SparedInv /\ KeptInv
    <2> SUFFICES ASSUME Init PROVE SparedInv /\ KeptInv
        OBVIOUS
    <2>1. PICK kept \in SUBSET (File \ Junk) :
            /\ plain = [f \in File |-> IF f \in kept \ Secret THEN Copy(1, 1) ELSE Absent]
            /\ enc = [f \in File |-> IF f \in kept \cap Secret THEN 1 ELSE Absent]
            /\ latest = [f \in File |-> IF f \in kept THEN 1 ELSE Absent]
        BY DEF Init
    <2>2. pc = "off" /\ image = "none" /\ session = FALSE /\ \A f \in File : disk[f] = Absent
        BY DEF Init, Empty
    <2>3. SparedInv
        BY <2>1, <2>2, ConstantsOK DEF SparedInv, Stale, Newer, Between
    <2>4. ASSUME NEW f \in File, latest[f] # Absent
          PROVE  Kept(f)
        <3>1. latest[f] = 1 /\ f \in kept
            BY <2>1, <2>4
        <3>2. CASE f \in Secret
            <4>1. enc[f] = 1
                BY <2>1, <3>1, <3>2
            <4>2. QED
                BY <2>2, <3>1, <4>1 DEF Kept, AtRest, InHome, Newer
        <3>3. CASE f \notin Secret
            <4>1. plain[f] = Copy(1, 1) /\ enc[f] = Absent /\ Absent \notin Nat
                BY <2>1, <3>1, <3>3, ConstantsOK
            <4>2. InPlain(f)
                BY <3>1, <4>1, CopyOK DEF InPlain, Copy
            <4>3. QED
                BY <2>2, <4>1, <4>2 DEF Kept, AtRest, InHome, Newer
        <3>4. QED
            BY <3>2, <3>3
    <2>5. QED
        BY <2>3, <2>4 DEF KeptInv
<1>2. ASSUME HomeInv, [Next]_vars PROVE (SparedInv /\ KeptInv)'
    <2>1. CASE UNCHANGED vars
        BY <1>2, <2>1
        DEF vars, home, store, flow, HomeInv, SparedInv, Stale, KeptInv, Kept, AtRest, InHome,
            InPlain, InDisk, Newer
    <2>2. CASE Next
        <3>1. SparedInv'
            BY <1>2, <2>2, UnsealSpared, SealSpared, SetupSpared, ContainerSpared, FilesSpared
            DEF Next
        <3>2. KeptInv'
            BY <1>2, <2>2, UnsealKept, SealKept, BreakKept, SetupKept, ContainerKept, FilesKept
            DEF Next
        <3>3. QED
            BY <3>1, <3>2
    <2>3. QED
        BY <1>2, <2>1, <2>2
<1>3. HomeInv /\ [Next]_vars => HomeInv'
    BY <1>2, StepKeeps, StepRolls, StepMade DEF HomeInv
<1>4. Init => HomeInv
    BY <1>1, Initially, InitRolls, InitMade DEF HomeInv
<1>5. QED
    BY <1>3, <1>4, PTL DEF Spec

\* Whatever the app wrote last is, whole, in the home, sealed in it, or in an image the
\* next run recovers (unseal_home, setup_session, teardown_session, seal_home): at every
\* step a crash may come at, and if images stay that could not be removed.  Excepted by
\* `spared` are histories with a copy that failed or was cut short, a mount that
\* outlived its run, a run without an image beside a leftover one, or a run without the
\* passphrase beside sealed files.
THEOREM NothingIsLost == Spec => []NothingLost
<1>1. HomeInv => NothingLost
    <2> SUFFICES ASSUME HomeInv, spared, NEW f \in File, latest[f] # Absent
                 PROVE  \/ plain[f] # Absent /\ plain[f].ver = latest[f]
                        \/ enc[f] = latest[f]
                        \/ image = "fs" /\ disk[f] # Absent /\ disk[f].ver = latest[f]
        BY DEF NothingLost
    <2>1. Kept(f)
        BY DEF HomeInv, KeptInv
    <2>2. InDisk(f) => image = "fs"
        BY DEF InDisk, HomeInv, MadeInv, ImageInv, Empty
    <2>3. InHome(f) \/ InDisk(f)
        BY <2>1 DEF Kept, AtRest, InHome, HomeInv, IInv, TypeOK
    <2>4. QED
        BY <2>2, <2>3 DEF InHome, InPlain, InDisk
<1>2. QED
    BY <1>1, HomeInvariant, PTL

\* When the app runs it finds every file as it last wrote it (setup_session, run),
\* whatever step the run before broke off at, with the same exceptions.
THEOREM AppFindsLatest == Spec => []AppSeesLatest
<1>1. HomeInv => AppSeesLatest
    BY DEF AppSeesLatest, HomeInv, KeptInv, Kept, InDisk, InPlain
<1>2. QED
    BY <1>1, HomeInvariant, PTL

==============================================================================
