---------------------------- MODULE MCLauncherRun ----------------------------
(* Small instances of LauncherRun for TLC. *)
EXTENDS LauncherRun

AnyProject == Project
AnyPorts == SUBSET Port
AllFaults == Fault
=============================================================================
