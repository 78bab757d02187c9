-------------------------------- MODULE Wire --------------------------------
(***************************************************************************)
(* The lines the client and the helper exchange (crates/mtr-proto): what   *)
(* is written for a request or a response, and what the other side reads   *)
(* out of it.  A line is a token, a name and the words after them.  The    *)
(* helper does not read what the client would: it takes the last of        *)
(* several occurrences of an argument, fills in defaults of its own and    *)
(* checks values as C's mtr-packet does.  Numbers and addresses stand for  *)
(* their texts; how a number is cut to a C int does not show, because the  *)
(* client only writes numbers that fit one.                                *)
(***************************************************************************)
EXTENDS Integers, Sequences

CONSTANTS
    None,              \* an argument left out
    MaxArguments,      \* MAX_ARGUMENTS: key and value pairs on a line
    MaxLabels,         \* MAX_LABELS: MPLS labels in a response
    MinLocalPort       \* the first port an unprivileged process may bind

ASSUME WireAssumption ==
    /\ MaxArguments \in Nat /\ MaxLabels \in Nat /\ MinLocalPort \in Nat

Line(token, name, words) == [token |-> token, name |-> name, words |-> words]

\* The words of an argument; none when it is left out.
Argument(key, value) == IF value = None THEN <<>> ELSE <<key, value>>

\* An address is its family, 4 or 6, and its host.
Keyed(key4, key6, addr) ==
    IF addr = None THEN <<>>
    ELSE <<IF addr.family = 4 THEN key4 ELSE key6, addr>>

-----------------------------------------------------------------------------
(* Requests *)

\* Request::encode, in the order of C's client.
EncodeProbe(token, p) ==
    Line(token, "send-probe",
        Keyed("ip-4", "ip-6", p.target)
            \o Keyed("local-ip-4", "local-ip-6", p.localIp)
            \o Argument("protocol", p.protocol) \o Argument("size", p.size)
            \o Argument("bit-pattern", p.bitPattern) \o Argument("tos", p.tos)
            \o Argument("ttl", p.ttl) \o Argument("timeout", p.timeout)
            \o Argument("port", p.port) \o Argument("local-port", p.localPort)
            \o Argument("mark", p.mark) \o Argument("local-device", p.localDevice))

EncodeCheckSupport(token, feature) ==
    Line(token, "check-support", <<"feature", feature>>)

\* Reading a line: the words come in pairs, and not too many of them.
Tokenizes(line) ==
    /\ Len(line.words) % 2 = 0
    /\ Len(line.words) <= 2 * MaxArguments

Occurrences(line, key) ==
    {i \in 1..(Len(line.words) \div 2) : line.words[2 * i - 1] = key}
ValueAt(line, i) == line.words[2 * i]

FirstOf(line, key) ==
    LET at == Occurrences(line, key) IN
    IF at = {} THEN None
    ELSE ValueAt(line, CHOOSE i \in at : \A j \in at : i <= j)

LastOf(line, keys) ==
    LET at == UNION {Occurrences(line, key) : key \in keys} IN
    IF at = {} THEN None
    ELSE ValueAt(line, CHOOSE i \in at : \A j \in at : j <= i)

OrDefault(value, default) == IF value = None THEN default ELSE value

\* What the helper makes of a send-probe line.  The port is the only value it
\* refuses by itself; the rest fails, if it does, where it is used.
ProbeDecodes(line) ==
    \A i \in Occurrences(line, "local-port") : ValueAt(line, i) >= MinLocalPort

DecodeProbe(line) ==
    LET target == LastOf(line, {"ip-4", "ip-6"}) IN
    [family      |-> IF target = None THEN 0 ELSE target.family,
     remote      |-> target,
     localIp     |-> LastOf(line, {"local-ip-4", "local-ip-6"}),
     localDevice |-> LastOf(line, {"local-device"}),
     protocol    |-> OrDefault(LastOf(line, {"protocol"}), "icmp"),
     port        |-> OrDefault(LastOf(line, {"port"}), 0),
     localPort   |-> OrDefault(LastOf(line, {"local-port"}), 0),
     tos         |-> OrDefault(LastOf(line, {"tos"}), 0),
     mark        |-> OrDefault(LastOf(line, {"mark"}), 0),
     ttl         |-> OrDefault(LastOf(line, {"ttl"}), 255),
     size        |-> OrDefault(LastOf(line, {"size"}), 64),
     bitPattern  |-> OrDefault(LastOf(line, {"bit-pattern"}), 0),
     timeout     |-> OrDefault(LastOf(line, {"timeout"}), 10)]

-----------------------------------------------------------------------------
(* Responses *)

\* The fields of a response; only a probe's result has an address and labels,
\* and only three of the other kinds say more than their name.
Response(token, kind, addr, labels, detail) ==
    [token |-> token, kind |-> kind, addr |-> addr, labels |-> labels,
     detail |-> detail]
Bare(token, kind) == Response(token, kind, None, <<>>, None)

DetailKey(kind) ==
    CASE kind = "feature-support"  -> "support"
      [] kind = "invalid-argument" -> "reason"
      [] kind = "unexpected-error" -> "errno"
      [] OTHER                     -> None

\* Labels go out as one comma list, four numbers each.
FormatLabels(labels) ==
    [k \in 1..(4 * Len(labels)) |->
        LET of == labels[(k + 3) \div 4] IN
        <<of.label, of.tc, of.s, of.ttl>>[((k - 1) % 4) + 1]]

\* Complete groups of four, the first MaxLabels of them.
ParseLabels(numbers) ==
    LET groups == Len(numbers) \div 4 IN
    [i \in 1..(IF groups <= MaxLabels THEN groups ELSE MaxLabels) |->
        [label |-> numbers[4 * i - 3], tc  |-> numbers[4 * i - 2],
         s     |-> numbers[4 * i - 1], ttl |-> numbers[4 * i]]]

EncodeResponse(r) ==
    Line(r.token, r.kind,
         IF r.addr # None
         THEN Keyed("ip-4", "ip-6", r.addr)
                \o <<"round-trip-time", "rtt">>
                \o (IF r.labels = <<>> THEN <<>>
                    ELSE <<"mpls", FormatLabels(r.labels)>>)
         ELSE Argument(DetailKey(r.kind), r.detail))

ResultNames == {"reply", "ttl-expired", "no-route-host"}
ErrorNames == {"probes-exhausted", "permission-denied", "address-in-use",
               "address-not-available", "network-down", "host-down",
               "no-route-network", "wait-tcp-respone-timeout"}
PlainNames == ErrorNames \cup
    {"no-reply", "unknown-command", "command-parse-error",
     "command-buffer-overflow"}
DetailedNames == {"feature-support", "invalid-argument", "unexpected-error"}

\* What the client reads: None for a line it cannot make sense of, which it
\* skips.  A no-route-host comes with and without an address.
ParseResponse(line) ==
    LET addr == OrDefault(FirstOf(line, "ip-4"), FirstOf(line, "ip-6"))
        mpls == OrDefault(FirstOf(line, "mpls"), <<>>)
    IN  CASE ~Tokenizes(line) -> None
          [] line.name \in ResultNames /\ addr # None
                /\ FirstOf(line, "round-trip-time") # None ->
               Response(line.token, line.name, addr, ParseLabels(mpls), None)
          [] line.name = "no-route-host" /\ addr = None ->
               Bare(line.token, line.name)
          [] line.name \in PlainNames -> Bare(line.token, line.name)
          [] /\ line.name \in DetailedNames
             /\ line.name = "feature-support" => FirstOf(line, "support") # None ->
               Response(line.token, line.name, None, <<>>,
                        FirstOf(line, DetailKey(line.name)))
          [] OTHER -> None

\* The responses that end the client's session.
FatalForClient(r) ==
    r.kind \in {"probes-exhausted", "invalid-argument", "permission-denied",
                "address-in-use", "address-not-available", "unexpected-error"}

=============================================================================
