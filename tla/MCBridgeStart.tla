--------------------------- MODULE MCBridgeStart ---------------------------
(* Small instances of BridgeStart for TLC.                                 *)
EXTENDS BridgeStart

\* No default route, and two.
TwoTables == {<<>>, <<"b", "a">>}

\* The MAC of eth0 has the bit that the start clears, that of eth1 has not.
OddAndEven == [eth0 |-> 11, eth1 |-> 6]
=============================================================================
