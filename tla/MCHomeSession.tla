--------------------------- MODULE MCHomeSession ---------------------------
(* Small instances of HomeSession for TLC. *)
EXTENDS HomeSession

CONSTANTS s, p, j      \* a secret, a plain file, a file the cleanup purges

SecretOnly == {s}
SecretPlainJunk == {s, p, j}
JunkOnly == {j}
Sometimes == {TRUE, FALSE}
=============================================================================
