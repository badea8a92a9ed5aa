--------------------------- MODULE MCExecSession ---------------------------
(* Small instances of ExecSession for TLC. *)
EXTENDS ExecSession

AllModes == {"direct", "bwrap", "relay"}
SomeCodes == {0, 1, 3}
=============================================================================
