----------------------------- MODULE MCProbePath -----------------------------
(***************************************************************************)
(* Sessions for ProbePath: plain ones of every protocol and family, and    *)
(* ones with fixed ports inside and outside of the sequence numbers, with  *)
(* a device, a mark, a source address, and a size the buffer cannot hold.  *)
(***************************************************************************)
EXTENDS ProbePath

Plain ==
    [family |-> 4, protocol |-> "icmp", protocols |-> {"icmp"}, localIp |-> None,
     size |-> 64, bitPattern |-> 7, tos |-> 3, port |-> 0, localPort |-> 0, mark |-> 0,
     device |-> None]
Udp == [Plain EXCEPT !.protocol = "udp", !.protocols = {"udp"}]

MCSettings ==
    {Plain, Udp,
     [Plain EXCEPT !.family = 6],
     [Udp EXCEPT !.family = 6, !.size = 9040],
     [Plain EXCEPT !.protocols = {"icmp", "udp", "tcp"}, !.mark = 1],
     [Udp EXCEPT !.port = 53],
     [Udp EXCEPT !.port = MinPort + 1],
     [Udp EXCEPT !.localPort = MinPort],
     [Udp EXCEPT !.port = 53, !.localPort = 9999],
     [Udp EXCEPT !.port = MinPort, !.localPort = 9999],
     [Plain EXCEPT !.protocol = "tcp", !.protocols = {"tcp"}, !.port = 443],
     [Plain EXCEPT !.protocol = "sctp", !.protocols = {"sctp"}],
     [Plain EXCEPT !.device = "eth0", !.localIp = [family |-> 4, host |-> "me2"]],
     [Plain EXCEPT !.size = 9001],
     [Udp EXCEPT !.localPort = 80]}

MCPrivileges == {{"raw"}, {"raw", "admin", "sctp"}, {"ping", "sctp"}, {}}

MCObjects ==
    LET label(n) == [label |-> n, tc |-> 0, s |-> 1, ttl |-> 1] IN
    [h \in {"me", "target", "router", "stranger"} |->
        IF h = "router"
        THEN <<[mpls |-> FALSE, labels |-> <<>>],
               [mpls |-> TRUE, labels |-> <<label(16), label(17), label(18)>>]>>
        ELSE <<>>]

MCSendErrors == {"ENETUNREACH", "EACCES"}
MCUnreachableErrors == {"EHOSTUNREACH", "ENETUNREACH"}
MCSums == {0, MinPort + 1}
=============================================================================
