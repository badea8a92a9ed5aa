---------------------------- MODULE ProjectSetup ----------------------------
(***************************************************************************)
(* A repository's project.conf over several runs (src/cfg.rs,              *)
(* ProjectConfig).  Each run loads it in the launcher, for the daemon, and *)
(* again in the child, for the workspace; the guest reads it a third time  *)
(* when it boots.  A load makes, migrates or completes the file; the user  *)
(* edits it, or lets the wizard write it (src/cfgsetup.rs).                *)
(*                                                                         *)
(* A file is written by cutting it to nothing and filling it; a crash may  *)
(* come between any two steps.                                             *)
(***************************************************************************)
EXTENDS Naturals, FiniteSets

CONSTANTS
    Run,            \* runs of the launcher, one after another or side by side
    System,         \* build systems that can be detected
    Paranoid,       \* the entries a system gives in paranoid mode
    Choice,         \* what the user may write into project.conf: [env, list, rest, style]
                    \* or Unreadable
    Legacy,         \* what env.conf may hold, likewise
    Answer,         \* what the user may tell the wizard: [env, extra, rest]
    InGuest,        \* commands the image of the guest has itself
    Overlap,        \* may two processes load or write at once?
    MayFail,        \* may the launcher's writing fail?
    MayTear,        \* may a crash or a failed write leave a file cut to nothing?
    None, Torn, Unreadable,
    MaxLoads, MaxEdits      \* bounds

\* A command with any arguments, with some that are given, or with none.
Entry(name, args) == [name |-> name, args |-> args]

\* How a list stands in its file: an item a line, as the program writes it; all in one
\* line; or with single quotes, or a comment behind each item.
Style == {"block", "flow", "quoted"}

ASSUME ConstantsOK ==
    /\ DOMAIN Paranoid = System
    /\ \A s \in System : \A e \in Paranoid[s] : e.args \in {"some", "none"}
    /\ \A c \in (Choice \cup Legacy) \ {Unreadable} : c.style \in Style
    /\ {Overlap, MayFail, MayTear} \subseteq BOOLEAN
    /\ {MaxLoads, MaxEdits} \subseteq Nat
    /\ Cardinality({None, Torn, Unreadable}) = 3

VARIABLES
    conf,       \* project.conf: None, Torn, Unreadable or [env, list, rest, style]
    legacy,     \* env.conf: None, Unreadable or the like
    found,      \* the build systems the repository has files of
    pc,         \* where each run stands
    load,       \* which load of the run it is: 1 in the launcher, 2 in the child
    got,        \* what it has read
    rule,       \* what the daemon goes by
    links,      \* the commands the guest has links for
    wizard,     \* what the wizard is about to write
    choice,     \* history: what the user chose last, or None
    want,       \* history: choice, found and edits at the run's first load; the user
                \* has changed nothing by its boot, and a completed list was written
    count       \* bounds: loads and edits so far

files == <<conf, legacy, found>>
run == <<pc, load, got, rule, links>>
vars == <<files, run, wizard, choice, want, count>>

Relaxed(systems) == {Entry(s, "any") : s \in systems}
Default == [env |-> "relaxed", list |-> {}, rest |-> "usual", style |-> "block"]
Created == [Default EXCEPT !.list = Relaxed(found)]

\* to_yaml: what stands in it unquoted and begins with a star is no YAML.
Written(config) ==
    IF config.rest = "starred" THEN Unreadable ELSE [config EXCEPT !.style = "block"]

\* from_str; of nothing at all: an error, or everything by default.
Parsed(text) == CASE text = Unreadable -> {} [] text = Torn -> {Default} [] OTHER -> {text}
Refused(text) == text \in {Unreadable, Torn}

\* validate
Valid(config) == config.env = "paranoid" => \A e \in config.list : e.args # "any"

\* env.conf has no env: its fields are taken over, whatever they are, not how they stand.
Migrated(old) ==
    IF old = Unreadable THEN old ELSE [old EXCEPT !.env = "relaxed", !.style = "block"]

Init ==
    /\ conf = None
    /\ legacy \in Legacy \cup {None}
    /\ found \in SUBSET System
    /\ pc = [r \in Run |-> "off"] /\ load = [r \in Run |-> 0]
    /\ got = [r \in Run |-> None] /\ rule = [r \in Run |-> None]
    /\ links = [r \in Run |-> {}]
    /\ wizard = [pc |-> "off", config |-> None]
    /\ choice = IF legacy = None THEN None ELSE Migrated(legacy)
    /\ want = [r \in Run |-> [choice |-> None, found |-> {}, edits |-> 0, kept |-> TRUE]]
    /\ count = [loads |-> 0, edits |-> 0]

\* While a process loads, another one may not, or it may.
Resting == {"off", "forked", "up", "booted", "failed"}
Quiet == Overlap \/ (wizard.pc = "off" /\ \A r \in Run : pc[r] \in Resting)

Goto(r, label) == pc' = [pc EXCEPT ![r] = label]

-----------------------------------------------------------------------------
(* load_or_create.                                                         *)

Begin(r) ==
    /\ pc[r] \in {"off", "booted", "failed"} /\ count.loads < MaxLoads /\ Quiet
    /\ Goto(r, "look")
    /\ load' = [load EXCEPT ![r] = 1]
    /\ got' = [got EXCEPT ![r] = None] /\ rule' = [rule EXCEPT ![r] = None]
    /\ links' = [links EXCEPT ![r] = {}]
    /\ want' = [want EXCEPT ![r] = [choice |-> choice, found |-> found, edits |-> count.edits, kept |-> TRUE]]
    /\ count' = [count EXCEPT !.loads = @ + 1]
    /\ UNCHANGED <<files, wizard, choice>>

\* The child has asked for the sudo password; for a copy-on-write workspace, it
\* loads again.
BeginInChild(r) ==
    /\ pc[r] = "forked" /\ Quiet
    /\ Goto(r, "look")
    /\ load' = [load EXCEPT ![r] = 2]
    /\ UNCHANGED <<files, got, rule, links, wizard, choice, want, count>>

\* For a direct one it does not.
Direct(r) ==
    /\ pc[r] = "forked"
    /\ Goto(r, "up")
    /\ UNCHANGED <<files, load, got, rule, links, wizard, choice, want, count>>

Look(r) ==
    /\ pc[r] = "look"
    /\ Goto(r, IF conf # None THEN "read" ELSE IF legacy # None THEN "migrate" ELSE "create")
    /\ UNCHANGED <<files, load, got, rule, links, wizard, choice, want, count>>

\* An empty list is filled with what is detected, and written if that is anything.
Read(r) ==
    /\ pc[r] = "read"
    /\ \E c \in Parsed(conf) :
        IF c.list = {} /\ found # {}
        THEN /\ got' = [got EXCEPT ![r] = [c EXCEPT !.list = Relaxed(found)]]
             /\ Goto(r, "fill")
        ELSE /\ got' = [got EXCEPT ![r] = c]
             /\ Goto(r, "check")
    /\ UNCHANGED <<files, load, rule, links, wizard, choice, want, count>>

ReadFails(r) ==
    /\ pc[r] = "read" /\ Refused(conf)
    /\ Goto(r, "failed")
    /\ UNCHANGED <<files, load, got, rule, links, wizard, choice, want, count>>

\* Slip: the old file goes before the new one is there.
MigrateRemovesFirst(r) ==
    /\ pc[r] = "migrate" /\ legacy \notin {None, Unreadable}
    /\ got' = [got EXCEPT ![r] = Migrated(legacy)]
    /\ legacy' = None
    /\ Goto(r, "take")
    /\ UNCHANGED <<conf, found, load, rule, links, wizard, choice, want, count>>

Migrate(r) ==
    /\ pc[r] = "migrate" /\ legacy \notin {None, Unreadable}
    /\ got' = [got EXCEPT ![r] = Migrated(legacy)]
    /\ Goto(r, "take")
    /\ UNCHANGED <<files, load, rule, links, wizard, choice, want, count>>

\* It is no YAML, or another run has just removed it.
MigrateFails(r) ==
    /\ pc[r] = "migrate" /\ legacy \in {None, Unreadable}
    /\ Goto(r, "failed")
    /\ UNCHANGED <<files, load, got, rule, links, wizard, choice, want, count>>

Create(r) ==
    /\ pc[r] = "create"
    /\ got' = [got EXCEPT ![r] = Created]
    /\ Goto(r, "new")
    /\ UNCHANGED <<files, load, rule, links, wizard, choice, want, count>>

\* fs::write: the file is cut to nothing, then filled.
Cut(r) ==
    /\ pc[r] \in {"fill", "take", "new"}
    /\ conf' = Torn
    /\ Goto(r, CASE pc[r] = "fill" -> "filling" [] pc[r] = "take" -> "taking" [] OTHER -> "making")
    /\ UNCHANGED <<legacy, found, load, got, rule, links, wizard, choice, want, count>>

Fill(r) ==
    /\ pc[r] \in {"filling", "taking", "making"}
    /\ conf' = Written(got[r])
    /\ Goto(r, IF pc[r] = "taking" THEN "remove" ELSE "check")
    /\ UNCHANGED <<legacy, found, load, got, rule, links, wizard, choice, want, count>>

\* The writing of a new file fails, before it has been cut or after: so does the load.
WriteFails(r) ==
    /\ MayFail /\ pc[r] \in {"take", "taking", "new", "making"}
    /\ pc[r] \in {"taking", "making"} => MayTear
    /\ Goto(r, "failed")
    /\ UNCHANGED <<files, load, got, rule, links, wizard, choice, want, count>>

\* That a list could not be completed is not looked at, though the file may be cut.
FillFails(r) ==
    /\ MayFail /\ pc[r] \in {"fill", "filling"}
    /\ pc[r] = "filling" => MayTear
    /\ want' = [want EXCEPT ![r].kept = FALSE]
    /\ Goto(r, "check")
    /\ UNCHANGED <<files, load, got, rule, links, wizard, choice, count>>

\* Nor is whether the old file went.
RemoveLegacy(r) ==
    /\ pc[r] = "remove"
    /\ legacy' \in {None, legacy}
    /\ Goto(r, "check")
    /\ UNCHANGED <<conf, found, load, got, rule, links, wizard, choice, want, count>>

Check(r) ==
    /\ pc[r] = "check" /\ Valid(got[r])
    /\ IF load[r] = 1
       THEN rule' = [rule EXCEPT ![r] = got[r]] /\ Goto(r, "forked")
       ELSE UNCHANGED rule /\ Goto(r, "up")
    /\ UNCHANGED <<files, load, got, links, wizard, choice, want, count>>

CheckFails(r) ==
    /\ pc[r] = "check" /\ ~Valid(got[r])
    /\ Goto(r, "failed")
    /\ UNCHANGED <<files, load, got, rule, links, wizard, choice, want, count>>

Crash(r) ==
    /\ pc[r] \notin Resting
    /\ pc[r] \in {"filling", "taking", "making"} => MayTear
    /\ Goto(r, "off")
    /\ UNCHANGED <<files, load, got, rule, links, wizard, choice, want, count>>

-----------------------------------------------------------------------------
(* bunkerbox-vscomm install, in the guest.                                 *)

\* Slip: an entry's arguments are taken for a part of its name.
LinkNamesWhole(list) == {e.name : e \in {x \in list : x.args = "none"}}

\* extract_command_name: all before " *".  With other arguments it is the name of
\* no command.
LinkNames(list) == {e.name : e \in {x \in list : x.args # "some"}}

\* read_whitelist_entries, the guest's own reader: the lines with a dash behind the line
\* "passthrough:", each without the double quotes at its ends.  A list in that line
\* itself it does not see; single quotes, or a comment, become a part of the name, which
\* then is no command's.
LinesOf(text) ==
    IF text \in {None, Torn, Unreadable} THEN {}
    ELSE {e \in text.list : text.style = "block"}

Boot(r) ==
    /\ pc[r] = "up" /\ Quiet
    /\ LET text == IF conf # None THEN conf ELSE legacy IN
        links' = [links EXCEPT ![r] = LinkNames(LinesOf(text)) \ InGuest]
    /\ want' = [want EXCEPT ![r].kept = @ /\ count.edits = want[r].edits]
    /\ Goto(r, "booted")
    /\ UNCHANGED <<files, load, got, rule, wizard, choice, count>>

-----------------------------------------------------------------------------
(* The user.                                                               *)

UserEdits(c) ==
    /\ count.edits < MaxEdits /\ Quiet
    /\ conf # None
    /\ conf' = c /\ choice' = c
    /\ count' = [count EXCEPT !.edits = @ + 1]
    /\ UNCHANGED <<legacy, found, run, wizard, want>>

UserAddsFiles ==
    /\ count.edits < MaxEdits /\ Quiet
    /\ \E s \in System \ found : found' = found \cup {s}
    /\ count' = [count EXCEPT !.edits = @ + 1]
    /\ UNCHANGED <<conf, legacy, run, wizard, choice, want>>

\* build_passthrough and the other questions; excludes are not among them.
WizardAsks(a) ==
    /\ wizard.pc = "off" /\ count.edits < MaxEdits /\ Quiet
    /\ LET detected == IF a.env = "paranoid" THEN UNION {Paranoid[s] : s \in found} ELSE Relaxed(found) IN
        wizard' = [pc |-> "asked",
                   config |-> [env |-> a.env, rest |-> a.rest, style |-> "block",
                               list |-> detected \cup {e \in a.extra : a.env = "paranoid" => e.args # "any"}]]
    /\ count' = [count EXCEPT !.edits = @ + 1]
    /\ UNCHANGED <<files, run, choice, want>>

WizardCuts ==
    /\ wizard.pc = "asked"
    /\ conf' = Torn
    /\ wizard' = [wizard EXCEPT !.pc = "cut"]
    /\ UNCHANGED <<legacy, found, run, choice, want, count>>

WizardFills ==
    /\ wizard.pc = "cut"
    /\ conf' = Written(wizard.config)
    /\ choice' = wizard.config
    /\ wizard' = [pc |-> "off", config |-> None]
    /\ UNCHANGED <<legacy, found, run, want, count>>

WizardCrashes ==
    /\ wizard.pc # "off"
    /\ wizard.pc = "cut" => MayTear
    /\ wizard' = [pc |-> "off", config |-> None]
    /\ UNCHANGED <<files, run, choice, want, count>>

-----------------------------------------------------------------------------

Load(r) ==
    \/ Begin(r) \/ BeginInChild(r) \/ Direct(r) \/ Look(r)
    \/ Read(r) \/ ReadFails(r) \/ Migrate(r) \/ MigrateFails(r) \/ Create(r)
    \/ Cut(r) \/ Fill(r) \/ WriteFails(r) \/ FillFails(r) \/ RemoveLegacy(r)
    \/ Check(r) \/ CheckFails(r)

User ==
    \/ \E c \in Choice : UserEdits(c)
    \/ UserAddsFiles
    \/ \E a \in Answer : WizardAsks(a)
    \/ WizardCuts \/ WizardFills \/ WizardCrashes

Next == User \/ \E r \in Run : Load(r) \/ Crash(r) \/ Boot(r)

Spec == Init /\ [][Next]_vars

-----------------------------------------------------------------------------
(* Properties.                                                             *)

\* What the user chose last, in whichever file, rules the next run, its list and
\* everything else, across migrations, completions, failed writes and crashes; an empty list is
\* what is detected, and nothing is ever added to one that is not empty.
ChoiceRules ==
    \A r \in Run : rule[r] # None =>
        /\ want[r].choice # Unreadable
        /\ LET c == IF want[r].choice = None THEN Default ELSE want[r].choice IN
              /\ rule[r].env = c.env /\ rule[r].rest = c.rest
              /\ rule[r].list = IF c.list = {} THEN Relaxed(want[r].found) ELSE c.list

\* A list the user has written in a style of his own, which the guest does not read.
OwnStyle(c) == c \notin {None, Unreadable} /\ c.list # {} /\ c.style # "block"

\* The guest has a link for each command that the daemon of its run lets through
\* and the guest lacks, and no other, though the two have read the file at
\* different times and each in its own way: of every file the program has written,
\* migrated or completed, whatever style the user's stood in before.  Excepted are a
\* list that still stands in a style of the user's own, what the user has changed in
\* between, in the file or the repository, and a list that could not be written.
LinksMatchRule ==
    \A r \in Run : pc[r] = "booted" /\ want[r].kept /\ ~OwnStyle(want[r].choice) =>
        links[r] = {e.name : e \in rule[r].list} \ InGuest

\* A load fails only because of what the user has written into the file: the
\* program never writes there what it will not take itself.  For paranoid mode,
\* where the list is to hold exact commands, an empty one is still to be filled
\* with what is detected (docs/config/project.md:58 and 82).
RefusesOnlyTheUsers ==
    \A r \in Run : pc[r] = "failed" /\ count.edits = want[r].edits =>
        want[r].choice # None /\ (want[r].choice = Unreadable \/ ~Valid(want[r].choice))
=============================================================================
