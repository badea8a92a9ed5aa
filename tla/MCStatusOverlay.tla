--------------------------- MODULE MCStatusOverlay ---------------------------
(* Small instances of StatusOverlay for TLC. *)
EXTENDS StatusOverlay

AllPrompts == {"sudo", "passphrase"}

\* What the hooks of the images send before the app starts ...
StatusThenHide == <<Info, Cmd("hide", "ASCII", FALSE)>>
\* ... with a hide after a delay ...
StatusAndTimeout == <<Info, Cmd("hide", "ASCII", FALSE), Cmd("hide", None, TRUE)>>
\* ... with a hide in between, and a text to wait for.
StatusHideText == <<Info, Hide, Info, Cmd("hide", "prompt", FALSE)>>

AllScripts == {StatusThenHide, StatusAndTimeout, StatusHideText}
OneScript == {StatusThenHide}
AnyOrder == {TRUE, FALSE}
Orderly == {TRUE}
=============================================================================
