--------------------------- MODULE MCCowWorkspace ---------------------------
(* Small instances of CowWorkspace for TLC. *)
EXTENDS CowWorkspace

CONSTANTS a, b, h,      \* two plain files, a file behind a dot
          v, w          \* contents

Plain == {a}
AllFiles == {a, b, h}
HiddenFiles == {h}
None == {}
OneContent == {v}
Contents == {v, w}
=============================================================================
