----------------------------- MODULE MCWsTunnel -----------------------------
(* WsTunnel for TLC.                                                       *)
EXTENDS WsTunnel

CONSTANTS p1, p2, good, bad

MCPacket == {p1, p2}
MCPsk == {good, bad}
GoodOnly == {good}
OneAndTwo == [client |-> 2, server |-> 1]
NoTraffic == [client |-> 0, server |-> 0]
=============================================================================
