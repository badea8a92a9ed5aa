--------------------------- MODULE MCBridgeFirewall ---------------------------
(* Small instances of BridgeFirewall for TLC. *)
EXTENDS BridgeFirewall

CONSTANTS
    r1, r2,     \* runs
    d1, d2      \* destinations

TwoRuns == {r1, r2}
TwoDest == {d1, d2}
\* One destination each, and different ones.
OneEach == [r \in TwoRuns |-> IF r = r1 THEN <<d1>> ELSE <<d2>>]
=============================================================================
