----------------------------- MODULE MCPacketHelper -----------------------------
(***************************************************************************)
(* Loads of PacketHelper for TLC.                                          *)
(***************************************************************************)
EXTENDS PacketHelper

NoWait == {0}

\* Two requests, every order of events around the turns of the loop, a source port too many.
Turns == [requests |-> 2, maxPort |-> 3, protocols |-> {"icmp", "udp", "stream"}, clock |-> 1]

\* Two requests with deadlines of their own, the clock can pass both.
Deadlines == [requests |-> 2, maxPort |-> 2, protocols |-> {"icmp"}, clock |-> 2]

\* Three requests for two table entries and two sequence numbers: numbers are reused while
\* outstanding and the table is exhausted.
Reuse == [requests |-> 3, maxPort |-> 2, protocols |-> {"icmp", "udp"}, clock |-> 1]

MCLoads == {Turns, Deadlines, Reuse}
=============================================================================
