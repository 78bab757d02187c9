------------------------------ MODULE ProbePath ------------------------------
(***************************************************************************)
(* The way of a probe and of its answer: from the engine's parameters over *)
(* the request line into the helper, out of one of its sockets, and back   *)
(* from whatever the network returns to a response line and what the       *)
(* client reads there (crates/mtr-packet/src/backend/unix, with            *)
(* command.rs, main and privs.rs; engine.rs `send_query`; module Wire).    *)
(* PacketHelper has the turns of the helper's loop and their timing; here  *)
(* a turn is only its order: drain the sockets, expire, dispatch.          *)
(*                                                                         *)
(* An answer names no probe.  It quotes a header, out of which the helper  *)
(* takes a sequence number: its ICMP id and sequence, a UDP port or        *)
(* checksum, a TCP source port.  The network quotes the probes' own        *)
(* datagrams and those of other programs of this host.                     *)
(***************************************************************************)
EXTENDS Wire, FiniteSets

CONSTANTS
    Settings,         \* what a session may be asked for, see MCProbePath
    Privileges,       \* what the kernel may grant the helper, subsets of Grants
    MaxProbes,        \* MAX_PROBES
    MinPort, MaxPort, \* MIN_PORT, MAX_PORT of the sequence numbers
    MaxTokens,        \* BOUND: probes the engine asks for
    MaxSkipped,       \* BOUND: source ports in use that a stream probe meets
    MaxForeign,       \* BOUND: messages about other programs' datagrams
    PacketBufferSize, \* PACKET_BUFFER_SIZE
    IcmpId,           \* icmp_id, the low bits of the process id
    PidPort,          \* udp_source_port_from_pid
    OtherPort,        \* the source port of another helper
    Sums,             \* what an ordinary UDP checksum may come to
    Me, Target,       \* hosts: this one, the one traced,
    Router, Stranger, \* one on the way, one another program talks to
    Objects,          \* per host, the extension objects its messages carry
    SendErrors,       \* errors of sendto() and connect() that are the probe's own
    UnreachableErrors \* what a "ping" socket reports of an unreachable other than port

Ports  == MinPort..MaxPort
Tokens == 1..MaxTokens
Grants == {"raw", "ping", "admin", "sctp"}
SendSockets == {"icmp", "udp"}
Families == {4, 6}
Protocols == {"icmp", "udp", "tcp", "sctp"}
Label == [label : Nat, tc : Nat, s : Nat, ttl : Nat]

\* The other programs differ from this one in what MCProbePath's names say; an
\* error of the network is never one of a missing privilege.
ASSUME ProbePathAssumption ==
    /\ MaxProbes \in Nat \ {0} /\ MaxTokens \in Nat /\ MaxSkipped \in Nat /\ MaxForeign \in Nat
    /\ MinPort \in Nat \ {0} /\ MaxPort \in Nat
    /\ MinPort + MaxTokens * (MaxSkipped + 1) <= MaxPort + 1
    /\ MaxArguments >= 3
    /\ IcmpId \in Nat /\ OtherPort \notin Ports \cup {PidPort} /\ Stranger # Target
    /\ "EPERM" \notin SendErrors \cup UnreachableErrors
    /\ \A h \in {Target, Router} :
          Objects[h] \in Seq([mpls : BOOLEAN, labels : Seq(Label)])

ASSUME SettingsAssumption ==
    \A s \in Settings :
        /\ s.family \in Families
        /\ s.protocol \in Protocols /\ s.protocols \subseteq Protocols
        /\ s.localIp # None => s.localIp.family \in Families
        /\ s.size \in Nat /\ s.tos \in Nat /\ s.mark \in Nat /\ s.bitPattern # None
        /\ s.port \in Nat /\ s.localPort \in Nat \ {OtherPort}

\* None is none of the values that stand on a line, nor a result.
ASSUME NoneAssumption ==
    /\ None \notin Nat /\ None \notin Seq(Nat)
    /\ None \notin Protocols \cup {"rtt", "ok", "no", "EINVAL", "EPERM"}
    /\ None \notin [family : Families, host : {Target, Router}]
    /\ None \notin [token : Tokens, kind : ResultNames,
                    addr : [family : Families, host : {Target, Router}],
                    labels : Seq(Label), detail : {None}]

VARIABLES
    asked,         \* Settings the session runs with
    pc,            \* the helper's step
    mode,          \* per family: "raw", "dgram" or "none"
    caps,          \* the capabilities it has kept
    sctp,          \* UnixBackend::sctp
    table,         \* ProbeTable::probes
    nextSequence,  \* ProbeTable::next_sequence
    socket,        \* per send socket: device, options, pending error, error queue
    resend,        \* the datagram whose first sendto() reported an error
    sent,          \* tokens the engine has drawn
    flights,       \* datagrams in the network, not answered yet
    answers,       \* per token, the response the client read and where from
    foreign,       \* messages about other programs' datagrams so far
    missed         \* answers to outstanding probes that the helper dropped

vars == <<asked, pc, mode, caps, sctp, table, nextSequence, socket, resend, sent,
          flights, answers, foreign, missed>>

Host(h) == [family |-> asked.family, host |-> h]
IsRaw == mode[asked.family] = "raw"
IsStream(protocol) == protocol \in {"tcp", "sctp"}

\* `queue` is the error queue, `error` what the next call on the socket reports.
FreshSocket == [device |-> None, bound |-> FALSE, tos |-> 0, ttl |-> 64,
                error |-> None, queue |-> <<>>]

Init ==
    /\ asked \in Settings
    /\ pc = "start"
    /\ mode = [f \in Families |-> "none"] /\ caps = {} /\ sctp = FALSE
    /\ table = <<>> /\ nextSequence = MinPort
    /\ socket = [s \in SendSockets |-> FreshSocket]
    /\ resend = None
    /\ sent = 0 /\ flights = {} /\ answers = [t \in Tokens |-> None]
    /\ foreign = 0 /\ missed = {}

-----------------------------------------------------------------------------
(* Starting the helper *)

\* Family::open: raw sockets, else "ping" sockets, else none of the family.
Opened(granted) ==
    CASE "raw" \in granted  -> "raw"
      [] "ping" \in granted -> "dgram"
      [] OTHER              -> "none"

\* drop_all: of the capabilities only the one SO_MARK needs stays.
Kept(granted) == granted \cap {"admin"}

\* check_sctp_support, asked in finish_init: whether the kernel makes an SCTP socket.
CheckSctpSupport(granted) == "sctp" \in granted

ProtocolSupported(protocol, hasSctp) == protocol # "sctp" \/ hasSctp
MarkSupported(kept) == "admin" \in kept

Supports(feature, opened, kept, hasSctp) ==
    CASE feature \in {"ip-4", "ip-6"} -> opened # "none"
      [] feature = "send-probe"       -> TRUE
      [] feature = "mark"             -> MarkSupported(kept)
      [] OTHER                        -> ProtocolSupported(feature, hasSctp)

\* check-support as the helper answers it and the client reads it.
Agreed(feature, opened, kept, hasSctp) ==
    LET line == EncodeCheckSupport(1, feature)
        answer == ParseResponse(EncodeResponse(Response(line.token,
                      "feature-support", None, <<>>,
                      IF Supports(FirstOf(line, "feature"), opened, kept, hasSctp)
                      THEN "ok" ELSE "no")))
    IN  answer.detail = "ok"

\* The client asks for what its session needs: the family, the protocol it
\* starts with, and the mark if there is one.
Required ==
    {"send-probe", IF asked.family = 4 THEN "ip-4" ELSE "ip-6", asked.protocol}
        \cup (IF asked.mark # 0 THEN {"mark"} ELSE {})

\* main: open the sockets, drop the privileges, then serve; the client's
\* handshake comes first.
Start ==
    /\ pc = "start"
    /\ \E granted \in Privileges :
          /\ mode' = [f \in Families |-> Opened(granted)]
          /\ caps' = Kept(granted)
          /\ sctp' = CheckSctpSupport(granted)
          /\ pc' = IF \A f \in Required :
                         Agreed(f, Opened(granted), Kept(granted), CheckSctpSupport(granted))
                   THEN "drain" ELSE "ended"
    /\ UNCHANGED <<asked, table, nextSequence, socket, resend, sent, flights,
                   answers, foreign, missed>>

-----------------------------------------------------------------------------
(* Answering the client *)

\* What the client makes of a response, with the message it goes back to, the
\* sequence number that was matched and the error behind it: Stray when it was
\* another probe that drew it.
Stray == "stray"
Answered(t, response, message, seq, error) ==
    answers' = [answers EXCEPT ![t] =
        [response |-> ParseResponse(EncodeResponse(response)),
         message |-> message, seq |-> seq, error |-> error]]

\* error_response.
ErrorKind(errno) ==
    CASE errno = "EINVAL"        -> "invalid-argument"
      [] errno = "ENETDOWN"      -> "network-down"
      [] errno = "EHOSTDOWN"     -> "host-down"
      [] errno = "ENETUNREACH"   -> "no-route-network"
      [] errno = "EHOSTUNREACH"  -> "no-route-host"
      [] errno = "EPERM"         -> "permission-denied"
      [] errno = "EADDRINUSE"    -> "address-in-use"
      [] errno = "EADDRNOTAVAIL" -> "address-not-available"
      [] errno = "ETIMEDOUT"     -> "wait-tcp-respone-timeout"
      [] OTHER                   -> "unexpected-error"
ErrorResponse(t, errno) ==
    LET kind == ErrorKind(errno) IN
    Response(t, kind, None, <<>>, IF kind = "unexpected-error" THEN errno ELSE None)

\* A fatal response ends the session, and with it the helper.
NextStep(response, step) == IF FatalForClient(response) THEN "ended" ELSE step

WithoutEntry(i) == [j \in 1..(Len(table) - 1) |-> IF j = i THEN table[Len(table)] ELSE table[j]]

-----------------------------------------------------------------------------
(* Asking for a probe *)

\* send_query: the probe of token t goes t hops far.
Params(t, protocol) ==
    [target |-> Host(Target), localIp |-> asked.localIp, protocol |-> protocol,
     size |-> asked.size, bitPattern |-> asked.bitPattern, tos |-> asked.tos,
     ttl |-> t, timeout |-> 10,
     port      |-> IF asked.port # 0 THEN asked.port ELSE None,
     localPort |-> IF asked.localPort # 0 THEN asked.localPort ELSE None,
     mark      |-> IF asked.mark # 0 THEN asked.mark ELSE None,
     localDevice |-> asked.device]

Larger(a, b) == IF a > b THEN a ELSE b

\* packet_size; None when the packet would not fit the buffer.
PacketSize(p, raw) ==
    LET ip     == CASE ~raw -> 0 [] p.family = 4 -> 20 [] OTHER -> 40
        least  == ip + (IF p.protocol = "icmp" THEN 8 ELSE 12)
        header == IF raw /\ p.family = 6 THEN 40 ELSE 0
        size   == Larger(least, p.size) - header
    IN  IF size > PacketBufferSize THEN None ELSE size

\* udp_ports: where the sequence number travels depends on the ports asked for.
UdpPorts(p, seq) ==
    CASE p.port # 0 /\ p.localPort # 0 -> [src |-> p.localPort, dst |-> p.port, fixed |-> TRUE]
      [] p.port # 0 /\ p.localPort = 0 -> [src |-> seq, dst |-> p.port, fixed |-> FALSE]
      [] OTHER -> [src |-> IF p.localPort # 0 THEN p.localPort ELSE PidPort,
                   dst |-> seq, fixed |-> FALSE]

\* resolve: the addresses; a "ping" socket has the ICMP id for a port.
LocalHost(p) == IF p.localIp = None THEN Me ELSE p.localIp.host
Entry(t, p, seq) ==
    LET ports == UdpPorts(p, seq) IN
    [token |-> t, seq |-> seq, protocol |-> p.protocol,
     remote |-> [host |-> p.remote.host,
                 port |-> CASE p.protocol = "udp" -> ports.dst
                            [] p.protocol = "icmp" -> 0
                            [] OTHER -> IF p.port # 0 THEN p.port ELSE 80],
     local  |-> [host |-> LocalHost(p),
                 port |-> CASE p.protocol = "udp" -> ports.src
                            [] p.protocol = "icmp" -> IF IsRaw THEN 0 ELSE IcmpId
                            [] OTHER -> seq]]

\* icmp_echo, udp_datagram, a SYN: the header that travels, as far as it is
\* looked at again.
Header(e, p, sum) ==
    [protocol |-> e.protocol, src |-> e.local.host, dst |-> e.remote.host,
     id      |-> IF e.protocol = "icmp" THEN IcmpId ELSE 0,
     seq     |-> IF e.protocol = "icmp" THEN e.seq ELSE 0,
     srcPort |-> IF e.protocol = "icmp" THEN 0 ELSE e.local.port,
     dstPort |-> IF e.protocol = "icmp" THEN 0 ELSE e.remote.port,
     sum     |-> IF e.protocol = "udp" /\ UdpPorts(p, e.seq).fixed THEN e.seq ELSE sum]

Flight(e, header, options, size, pattern) ==
    [token |-> e.token, header |-> header, tos |-> options.tos,
     ttl |-> options.ttl, device |-> options.device, size |-> size,
     pattern |-> pattern]

\* Mutant: the device is bound for every probe.
OptionErrorRebinds(s, p) ==
    IF \/ p.mark # 0 /\ "admin" \notin caps
       \/ p.localDevice # None /\ s.device # None
    THEN "EPERM" ELSE None

\* set_mark_and_device: a mark takes a capability; so does binding to a device
\* a socket that is bound to one already.
OptionError(s, p) ==
    IF \/ p.mark # 0 /\ "admin" \notin caps
       \/ p.localDevice \notin {None, s.device} /\ s.device # None
    THEN "EPERM" ELSE None

\* Mutant: a socket that is bound keeps the options it has.
WithOptionsOnce(s, p) ==
    [s EXCEPT !.device = OrDefault(p.localDevice, s.device), !.bound = TRUE,
              !.tos = IF s.bound THEN s.tos ELSE p.tos,
              !.ttl = IF s.bound THEN s.ttl ELSE p.ttl]

\* apply_probe_options: the sockets are shared, so every probe sets its own.
WithOptions(s, p) ==
    [s EXCEPT !.device = OrDefault(p.localDevice, s.device), !.bound = TRUE,
              !.tos = p.tos, !.ttl = p.ttl]

Fails(t, errno, cause) ==
    /\ Answered(t, ErrorResponse(t, errno), None, 0, cause)
    /\ pc' = NextStep(ErrorResponse(t, errno), "dispatch")
    /\ UNCHANGED <<table, flights, resend>>

\* The errors that sendto() is repeated for and recvfrom() expects.
QueueErrors == {"EHOSTUNREACH", "ECONNREFUSED"}

\* send_datagram, up to the first sendto().  A "ping" socket reports there the
\* error an earlier probe has drawn, instead of sending.
SendDatagram(e, p) ==
    LET before == socket[p.protocol]
        s      == WithOptions(before, p)
        size   == PacketSize(p, IsRaw)
        cannot == IF size = None THEN "EINVAL" ELSE OptionError(before, p)
    IN  \/ /\ cannot # None
           /\ Fails(e.token, cannot, cannot) /\ UNCHANGED socket
        \/ /\ cannot = None
           /\ socket' = [socket EXCEPT ![p.protocol] = [s EXCEPT !.error = None]]
           /\ \E sum \in (IF p.protocol = "udp" THEN Sums ELSE {0}) :
              LET flight == Flight(e, Header(e, p, sum), s, size, p.bitPattern) IN
              \/ /\ s.error = None
                 /\ flights' = flights \cup {flight} /\ table' = Append(table, e)
                 /\ UNCHANGED <<pc, resend, answers>>
              \/ /\ s.error = None
                 /\ \E errno \in SendErrors : Fails(e.token, errno, errno)
              \/ /\ s.error \in QueueErrors
                 /\ resend' = flight /\ pc' = "resend" /\ table' = Append(table, e)
                 /\ UNCHANGED <<flights, answers>>
              \/ /\ s.error \notin QueueErrors \cup {None}
                 /\ Fails(e.token, s.error, Stray)

\* start_stream: a connect() of its own socket; refused, it has arrived.
StartStream(e, p) ==
    LET own == WithOptions(FreshSocket, p)
        refused == Response(e.token, "reply", Host(Target), <<>>, None)
    IN  /\ UNCHANGED <<socket, resend>>
        /\ \/ /\ OptionError(FreshSocket, p) # None
              /\ Fails(e.token, OptionError(FreshSocket, p), OptionError(FreshSocket, p))
           \/ /\ OptionError(FreshSocket, p) = None
              /\ flights' = flights \cup {Flight(e, Header(e, p, 0), own, 0, 0)}
              /\ table' = Append(table, e) /\ UNCHANGED <<pc, answers>>
           \/ /\ OptionError(FreshSocket, p) = None
              /\ Answered(e.token, refused, None, 0, "ECONNREFUSED")
              /\ UNCHANGED <<pc, table, flights>>
           \/ /\ OptionError(FreshSocket, p) = None
              /\ \E errno \in SendErrors : Fails(e.token, errno, errno)

\* next_sequence: the n-th number from the next one on, around the range.  A
\* stream probe takes another one while its source port is in use.
After(n) == MinPort + ((nextSequence - MinPort + n) % (MaxPort - MinPort + 1))
Skips(p) == IF IsStream(p.protocol) /\ OptionError(FreshSocket, p) = None
            THEN 0..MaxSkipped ELSE {0}

Refuse(t, response) ==
    /\ Answered(t, response, None, 0, response.kind)
    /\ pc' = NextStep(response, "dispatch")
    /\ UNCHANGED <<table, nextSequence, flights, socket, resend>>
Invalid(t, reason) == Response(t, "invalid-argument", None, <<>>, reason)

\* A request from the engine's parameters to the first sendto(): send_query,
\* encode, dispatch_line, decode_send_probe, Helper::send_probe.
Ask(protocol) ==
    LET t    == sent + 1
        line == EncodeProbe(t, Params(t, protocol))
        p    == DecodeProbe(line)
    IN  /\ pc = "dispatch" /\ sent < MaxTokens
        /\ sent' = t
        /\ UNCHANGED <<asked, mode, caps, sctp, foreign, missed>>
        /\ CASE ~Tokenizes(line)   -> Refuse(t, Bare(0, "command-parse-error"))
             [] Tokenizes(line) /\ ~ProbeDecodes(line) -> Refuse(t, Invalid(t, None))
             [] OTHER ->
                IF mode[p.family] = "none"
                THEN Refuse(t, Invalid(t, "ip-version-not-supported"))
                ELSE IF ~ProtocolSupported(p.protocol, sctp)
                THEN Refuse(t, Invalid(t, "protocol-not-supported"))
                ELSE IF Len(table) >= MaxProbes
                THEN Refuse(t, Bare(t, "probes-exhausted"))
                ELSE \E skipped \in Skips(p) :
                     LET e == Entry(t, p, After(skipped)) IN
                     /\ nextSequence' = After(skipped + 1)
                     /\ IF IsStream(p.protocol) THEN StartStream(e, p)
                        ELSE SendDatagram(e, p)

\* The second sendto(): whatever it reports is returned.
Resend ==
    LET s == socket[resend.header.protocol]
        t == resend.token
    IN  /\ pc = "resend"
        /\ resend' = None
        /\ socket' = [socket EXCEPT ![resend.header.protocol].error = None]
        /\ UNCHANGED <<asked, mode, caps, sctp, nextSequence, sent, foreign, missed>>
        /\ \/ /\ s.error = None /\ flights' = flights \cup {resend}
              /\ pc' = "dispatch" /\ UNCHANGED <<table, answers>>
           \/ \E errno \in (IF s.error = None THEN SendErrors ELSE {s.error}) :
              /\ table' = WithoutEntry(Len(table))
              /\ Answered(t, ErrorResponse(t, errno), None, 0,
                          IF s.error = None THEN errno ELSE Stray)
              /\ pc' = NextStep(ErrorResponse(t, errno), "dispatch")
              /\ UNCHANGED flights

-----------------------------------------------------------------------------
(* What the network returns *)

\* The type and code of an ICMP message that says something, per family.
Number(family, says) ==
    IF family = 4
    THEN CASE says = "echo" -> <<0, 0>>     [] says = "exceeded" -> <<11, 0>>
           [] says = "port" -> <<3, 3>>     [] says = "other"    -> <<3, 4>>
    ELSE CASE says = "echo" -> <<129, 0>>   [] says = "exceeded" -> <<3, 0>>
           [] says = "port" -> <<1, 4>>     [] says = "other"    -> <<1, 3>>

\* `of` and `says` are what the message is about; the helper does not see them.
Message(says, from, header, of) ==
    [type |-> Number(asked.family, says)[1], code |-> Number(asked.family, says)[2],
     from |-> from, header |-> header, objects |-> Objects[from],
     of |-> of, says |-> says]

Errors(f) ==
    {Message("exceeded", Router, f.header, f.token),
     Message("other", Router, f.header, f.token)}
        \cup (IF f.header.protocol = "udp"
              THEN {Message("port", Target, f.header, f.token)} ELSE {})
\* A router may quote the datagram as it got it, behind a translated address.
Rewritten(f) ==
    {Message("exceeded", Router, [f.header EXCEPT !.src = Stranger], f.token)}
Echoes(f) ==
    IF f.header.protocol = "icmp"
    THEN {Message("echo", Target, f.header, f.token)} ELSE {}

\* Datagrams other programs of this host have sent: another helper tracing the
\* same target, one that uses our source port for another host, any connection
\* (one of SCTP is matched like one of TCP).
OtherHeaders ==
    LET h == [protocol |-> "icmp", src |-> Me, dst |-> Target, id |-> 0, seq |-> 0,
              srcPort |-> 0, dstPort |-> 0, sum |-> 0]
    IN  UNION {{[h EXCEPT !.id = IcmpId + 1, !.seq = p],
                [h EXCEPT !.protocol = "udp", !.srcPort = OtherPort, !.dstPort = p],
                [h EXCEPT !.protocol = "udp", !.srcPort = PidPort, !.dstPort = p,
                          !.dst = Stranger],
                [h EXCEPT !.protocol = "tcp", !.srcPort = p, !.dstPort = 80]}
               : p \in MinPort..(nextSequence - 1)}

-----------------------------------------------------------------------------
(* Finding the probe *)

FindBySequence(s) == {i \in DOMAIN table : table[i].seq = s}

\* Of a quoted UDP header the first candidate that is an outstanding probe's
\* sequence number decides.
Deciding(h) ==
    CASE FindBySequence(h.dstPort) # {} -> FindBySequence(h.dstPort)
      [] FindBySequence(h.dstPort) = {} /\ FindBySequence(h.srcPort) # {} ->
            FindBySequence(h.srcPort)
      [] OTHER -> FindBySequence(h.sum)

\* Mutant: the ports of the probe are not compared.
MatchUdpAnyPort(h, addressed) ==
    {i \in Deciding(h) :
        /\ table[i].protocol = "udp"
        /\ addressed => /\ h.src = table[i].local.host
                        /\ h.dst = table[i].remote.host}

\* match_udp: the probe that is found is compared; the error queue has no
\* addresses to compare.
MatchUdp(h, addressed) ==
    {i \in Deciding(h) :
        /\ table[i].protocol = "udp"
        /\ h.dstPort = table[i].remote.port
        /\ h.srcPort = table[i].local.port
        /\ addressed => /\ h.src = table[i].local.host
                        /\ h.dst = table[i].remote.host}

\* match_reply
Matches(h, addressed) ==
    CASE h.protocol = "icmp" -> IF h.id = IcmpId THEN FindBySequence(h.seq) ELSE {}
      [] h.protocol = "udp"  -> MatchUdp(h, addressed)
      [] OTHER               -> FindBySequence(h.srcPort)

PortCode(family) == IF family = 4 THEN 3 ELSE 4

\* parse_icmp and the result of match_reply, and kind_from_icmp4/6 and
\* queued_icmp_kind for the error queue, which come to the same.
Verdict(family, type, code) ==
    CASE type = (IF family = 4 THEN 0 ELSE 129) -> "reply"
      [] type = (IF family = 4 THEN 11 ELSE 3)  -> "ttl-expired"
      [] type = (IF family = 4 THEN 3 ELSE 1) /\ code = PortCode(family) -> "reply"
      [] OTHER                                  -> "no-route-host"

\* decode_mpls: the labels of the first MPLS object.
DecodeMpls(objects) ==
    LET mpls == {i \in DOMAIN objects : objects[i].mpls} IN
    IF mpls = {} THEN <<>>
    ELSE LET labels == objects[CHOOSE i \in mpls : \A j \in mpls : i <= j].labels IN
         SubSeq(labels, 1, IF Len(labels) <= MaxLabels THEN Len(labels) ELSE MaxLabels)

\* What is known to go wrong: with a fixed port in the range of the sequence
\* numbers, the probe that has this number stands before all others; and the
\* quote of a translated address is not the probe's.
Shadowed(t) ==
    /\ asked.port # 0
    /\ \E i \in DOMAIN table : /\ table[i].token # t
                              /\ table[i].seq \in {asked.port, asked.localPort}
Explained(m) == Shadowed(m.of) \/ m.header.src = Stranger
Outstanding(t) == \E i \in DOMAIN table : table[i].token = t

\* deliver and respond: the probe found leaves the table; no probe, no answer.
Deliver(m, addressed, labels) ==
    \/ \E i \in Matches(m.header, addressed) :
          /\ table' = WithoutEntry(i)
          /\ Answered(table[i].token,
                      Response(table[i].token, Verdict(asked.family, m.type, m.code),
                               Host(m.from), labels, None),
                      m, table[i].seq, None)
          /\ UNCHANGED missed
    \/ /\ Matches(m.header, addressed) = {}
       /\ missed' = IF Outstanding(m.of) /\ ~Explained(m)
                    THEN missed \cup {m.of} ELSE missed
       /\ UNCHANGED <<table, answers>>

-----------------------------------------------------------------------------
(* Receiving: drain_socket and check_streams *)

\* A message on the receive socket; a raw one sees every ICMP message for this
\* host, a "ping" socket only the echo replies.
Receive ==
    /\ pc = "drain"
    /\ \E f \in flights :
          \E m \in (IF IsRaw THEN Errors(f) \cup Rewritten(f) \cup Echoes(f)
                    ELSE Echoes(f)) :
             /\ flights' = flights \ {f}
             /\ Deliver(m, TRUE, DecodeMpls(m.objects))
    /\ UNCHANGED <<asked, pc, mode, caps, sctp, nextSequence, socket, resend, sent, foreign>>

ReceiveForeign ==
    /\ pc = "drain" /\ IsRaw /\ foreign < MaxForeign
    /\ foreign' = foreign + 1
    /\ \E h \in OtherHeaders :
          Deliver(Message("exceeded", Router, h, 0), TRUE, DecodeMpls(Objects[Router]))
    /\ UNCHANGED <<asked, pc, mode, caps, sctp, nextSequence, socket, resend, sent, flights>>

\* The kernel puts an error drawn by a "ping" socket on the socket's queue, and
\* has the next call on the socket report it, at any time.
ErrorArrives ==
    /\ pc \notin {"start", "ended", "fatal"} /\ ~IsRaw
    /\ \E f \in flights : \E m \in Errors(f) :
          /\ f.header.protocol \in SendSockets
          /\ flights' = flights \ {f}
          /\ \E errno \in (CASE m.says = "port"     -> {"ECONNREFUSED"}
                              [] m.says = "exceeded" -> {"EHOSTUNREACH"}
                              [] m.says = "other"    -> UnreachableErrors) :
             LET s == socket[f.header.protocol] IN
             socket' = [socket EXCEPT ![f.header.protocol] =
                           [s EXCEPT !.error = errno,
                                     !.queue = Append(@, [message |-> m, left |-> FALSE])]]
    /\ UNCHANGED <<asked, pc, mode, caps, sctp, table, nextSequence, resend, sent, answers,
                   foreign, missed>>

\* Mutant: an empty receive queue ends the turn, whatever is on the error queue.
UnreadAnnounced(s) == s.error # None

\* A read finds the reported error, or looks at the error queue by itself.
Unread(s) == s.error # None \/ s.queue # <<>>

\* recvfrom() on a "ping" socket with an error: the queue says whose it is.  An
\* error that is not expected there ends the helper.
ReadErrorQueue(k) ==
    LET s == socket[k] IN
    /\ pc = "drain" /\ Unread(s)
    /\ \/ /\ s.error \in QueueErrors \cup {None}
          /\ socket' = [socket EXCEPT ![k] =
                           [s EXCEPT !.error = None, !.queue = Tail(@)]]
          /\ Deliver(Head(s.queue).message, FALSE, <<>>)
          /\ UNCHANGED pc
       \/ /\ s.error \notin QueueErrors \cup {None}
          /\ pc' = "fatal" /\ UNCHANGED <<socket, table, answers, missed>>
    /\ UNCHANGED <<asked, mode, caps, sctp, nextSequence, resend, sent, flights, foreign>>

\* A connecting socket: connected or refused, it has arrived; or it failed.
Connected(i) ==
    /\ pc = "drain" /\ IsStream(table[i].protocol)
    /\ table' = WithoutEntry(i)
    /\ LET t == table[i].token IN
       \/ /\ Answered(t, Response(t, "reply", Host(table[i].remote.host), <<>>, None),
                      None, 0, None)
          /\ UNCHANGED pc
       \/ \E errno \in SendErrors :
             /\ Answered(t, ErrorResponse(t, errno), None, 0, errno)
             /\ pc' = NextStep(ErrorResponse(t, errno), pc)
    /\ UNCHANGED <<asked, mode, caps, sctp, nextSequence, socket, resend, sent, flights,
                   foreign, missed>>

\* The sockets are drained; what is left on a queue should have been read.
DrainEnds ==
    /\ pc = "drain" /\ \A k \in SendSockets : ~Unread(socket[k])
    /\ pc' = "expire"
    /\ socket' = [k \in SendSockets |->
                     [socket[k] EXCEPT !.queue =
                         [j \in DOMAIN @ |-> [@[j] EXCEPT !.left = TRUE]]]]
    /\ UNCHANGED <<asked, mode, caps, sctp, table, nextSequence, resend, sent, flights,
                   answers, foreign, missed>>

LeftUnread(t) ==
    \E k \in SendSockets : \E j \in DOMAIN socket[k].queue :
        socket[k].queue[j].left /\ socket[k].queue[j].message.of = t

Expire(i) ==
    LET t == table[i].token IN
    /\ pc = "expire"
    /\ table' = WithoutEntry(i)
    /\ Answered(t, Bare(t, "no-reply"), None, 0, None)
    /\ missed' = IF LeftUnread(t) THEN missed \cup {t} ELSE missed
    /\ UNCHANGED <<asked, pc, mode, caps, sctp, nextSequence, socket, resend, sent, flights,
                   foreign>>

\* On to the dispatch of the commands, and to the next turn.
NextStage ==
    /\ \/ pc = "expire" /\ pc' = "dispatch"
       \/ pc = "dispatch" /\ pc' = "drain"
    /\ UNCHANGED <<asked, mode, caps, sctp, table, nextSequence, socket, resend, sent, flights,
                   answers, foreign, missed>>

Next ==
    \/ Start \/ Resend \/ Receive \/ ReceiveForeign \/ ErrorArrives \/ DrainEnds
    \/ NextStage
    \/ \E protocol \in asked.protocols : Ask(protocol)
    \/ \E k \in SendSockets : ReadErrorQueue(k)
    \/ \E i \in DOMAIN table : Connected(i) \/ Expire(i)

Spec == Init /\ [][Next]_vars

-----------------------------------------------------------------------------
(* Properties *)

\* What the network meant.
Meant(says) ==
    CASE says \in {"echo", "port"} -> "reply"
      [] says = "exceeded"         -> "ttl-expired"
      [] says = "other"            -> "no-route-host"

\* Two ways a message is taken for another probe's answer: the quote of a TCP
\* header is looked up by its source port and nothing else; and with both
\* ports fixed all the probes have the same ports, so that the one whose
\* number is among them gets every answer.
Mistaken(m, seq) ==
    \/ m.of = 0 /\ m.header.protocol = "tcp" /\ m.header.srcPort = seq
    \/ asked.port # 0 /\ asked.localPort # 0 /\ seq \in {asked.port, asked.localPort}

\* The result a client reads for a probe comes from a message about that very
\* probe, not about an earlier one or another program's datagram, and it is
\* what the message said: the same verdict in both families, from the same
\* host, with its labels, as many as a response holds.
AnswersBelong ==
    \A t \in Tokens :
        answers[t] # None /\ answers[t].message # None =>
            LET m == answers[t].message
                r == answers[t].response
            IN  /\ m.of = t \/ Mistaken(m, answers[t].seq)
                /\ r # None /\ r.token = t
                /\ r.kind = Meant(m.says) /\ r.addr = Host(m.from)
                /\ r.labels \in {<<>>, DecodeMpls(Objects[m.from])}
                /\ IsRaw => r.labels = DecodeMpls(Objects[m.from])

\* No answer to an outstanding probe is dropped or left on an error queue until
\* the probe expires, except in the two ways the code accepts: a fixed port
\* shadows the sequence numbers, or a router quotes a translated address.
HeardIsAnswered == missed = {}

\* A datagram leaves as the engine asked for it: hops, service, device, addresses,
\* ports, size.
LeftAsAsked(f) ==
    /\ f.ttl = f.token /\ f.tos = asked.tos /\ f.device = asked.device
    /\ f.header.dst = Target
    /\ f.header.src = IF asked.localIp = None THEN Me ELSE asked.localIp.host
    /\ f.header.protocol # "icmp" /\ asked.port # 0 => f.header.dstPort = asked.port
    /\ f.header.protocol = "udp" /\ asked.localPort # 0 =>
          f.header.srcPort = asked.localPort
    /\ f.header.protocol \in SendSockets =>
          /\ f.pattern = asked.bitPattern
          /\ f.size + (IF IsRaw /\ asked.family = 6 THEN 40 ELSE 0) >= asked.size

\* Every probe leaves as asked, whatever the shared socket was used for before and
\* whatever the request line left out; and after the handshake none is refused for
\* want of a privilege the helper has dropped, neither the mark nor the device of a
\* later probe.
SentAsAsked ==
    /\ \A f \in flights : LeftAsAsked(f)
    /\ \A t \in Tokens :
         answers[t] # None => answers[t].response.kind # "permission-denied"

\* An error that one probe draws from the network costs neither another probe
\* its answer nor the session its helper.
ErrorStaysWithItsProbe ==
    /\ pc # "fatal"
    /\ \A t \in Tokens : answers[t] # None => answers[t].error # Stray

=============================================================================
