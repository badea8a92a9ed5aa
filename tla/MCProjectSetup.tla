--------------------------- MODULE MCProjectSetup ---------------------------
(* Small instances of ProjectSetup for TLC. *)
EXTENDS ProjectSetup

CONSTANTS r1, r2

Cargo == "cargo"
One == {r1}
Two == {r1, r2}
Systems == {Cargo}
ParanoidCargo == [s \in Systems |-> {Entry(Cargo, "none"), Entry(Cargo, "some")}]

Of(env, list, rest) == [env |-> env, list |-> list, rest |-> rest, style |-> "block"]
In(style, config) == [config EXCEPT !.style = style]
Choices ==
    {In("quoted", Of("relaxed", {Entry("tool", "any"), Entry("less", "any")}, "usual")),
     In("flow", Of("relaxed", {}, "usual")),
     Of("relaxed", {Entry("tool", "any")}, "custom"), Of("relaxed", {}, "custom"),
     Of("paranoid", {Entry("tool", "none")}, "usual"), Of("paranoid", {}, "usual"),
     Of("paranoid", {Entry("tool", "any")}, "usual"), Unreadable}
Legacies ==
    {Unreadable, In("flow", Of("relaxed", {Entry("tool", "any"), Entry("less", "any")}, "custom"))}
Answers == {[env |-> e, extra |-> x, rest |-> "usual"] :
                e \in {"relaxed", "paranoid"}, x \in {{}, {Entry("tool", "any")}}}
Less == {"less"}

\* Where the program does not do what is written of it.
EmptyLegacy == {Of("relaxed", {}, "usual")}
Starred == {Of("relaxed", {Entry("tool", "any")}, "starred")}
WithArguments == {Of("paranoid", {Entry("tool", "some")}, "usual")}
=============================================================================
