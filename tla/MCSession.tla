------------------------------- MODULE MCSession -------------------------------
(***************************************************************************)
(* Instances of Session for TLC: worlds about options, about --init-config  *)
(* and about targets.                                                       *)
(***************************************************************************)
EXTENDS Session

\* A user without privileges, one IPv4 host, no files.
Plain ==
    [ env |-> <<>>, words |-> <<>>, files |-> [default |-> Absent, named |-> Absent],
      guard |-> FALSE, root |-> FALSE, home |-> TRUE, interface |-> {"4"},
      hosts |-> << [name |-> "host", port |-> None] >>, hostFile |-> None,
      answers |-> [host |-> <<"4">>, dual |-> <<"6", "4">>, six |-> <<"6">>,
                   mapped |-> <<"mapped">>, none |-> <<>>, localhost |-> <<"4">>] ]

HostNamed(name) == [name |-> name, port |-> None]

-----------------------------------------------------------------------------
\* Layers: an option in the environment, one or two on the command line, and a file.
LayerFlags ==
    { Flag("interval", 20), Flag("interval", 5), Flag("max_ttl", 999), Flag("max_ttl", 10),
      Flag("no_dns", TRUE), Flag("aslookup", TRUE), Flag("color", "always"),
      Flag("no_color", TRUE), Flag("theme", "nord"), Flag("order", "LS"),
      Flag("order", Wrong), Flag("due_ttl", 20), Flag("json", TRUE) }
LayerFiles ==
    { Absent, Broken, Toml(Empty),
      Toml([max_ttl |-> 12, color |-> "never"]),
      Toml([interval |-> 30, dns |-> TRUE, preset |-> "gruvbox", sparkline |-> FALSE]),
      Toml([asn |-> FALSE, fields |-> "LSD", overrides |-> "red", timeout |-> 0]) }
AtMostOne(flags) == {<<>>} \cup {<<f>> : f \in flags}

LayerWorlds ==
    { [Plain EXCEPT !.env = env, !.words = words, !.files.default = file] :
        env \in AtMostOne(LayerFlags), words \in AtMostOne(LayerFlags), file \in LayerFiles }

\* Numbers at the edges of their ranges, for a user and for root.
EdgeFlags ==
    { Flag("psize", -MinPacket), Flag("psize", MaxPacket + 1), Flag("bitpattern", -1),
      Flag("bitpattern", 256), Flag("tos", 255), Flag("tos", -1), Flag("cache", 0),
      Flag("timeout", IntMax), Flag("timeout", IntMax + 1), Flag("max_unknown", 0),
      Flag("report_cycles", 0), Flag("report_cycles", -1), Flag("mark", MarkMax),
      Flag("mark", MarkMax + 1), Flag("interval", 5), Flag("gracetime", 0),
      Flag("gracetime", MaxSeconds), Flag("port", 443), Flag("localport", 1023),
      Flag("address", "6"), Flag("interface", "eth0"), Flag("udp", TRUE), Flag("tcp", TRUE),
      Flag("inet4", TRUE), Flag("inet6", TRUE), Flag("first_ttl", 0), Flag("first_ttl", 31),
      Flag("due_ttl", 0), Flag("due_ttl", 300), Flag("max_ttl", 0), Flag("ipinfo", Wrong),
      Flag("version", TRUE) }
EdgeWorlds ==
    { [Plain EXCEPT !.words = <<f, g>>, !.root = root] :
        f \in EdgeFlags, g \in {Flag("sctp", TRUE), Flag("mark", 7), Flag("inet6", TRUE),
                                Flag("max_ttl", 999), Flag("report", TRUE)}, root \in BOOLEAN }

-----------------------------------------------------------------------------
\* --init-config with up to two more options, to either path.
InitWorlds ==
    { [Plain EXCEPT !.env = env, !.words = <<Flag("init_config", TRUE)>> \o where \o words,
                    !.files.default = file, !.guard = guard, !.root = root] :
        env   \in {<<>>, <<Flag("interval", 20)>>, <<Flag("first_ttl", 11)>>},
        words \in AtMostOne(LayerFlags \cup {Flag("timeout", 0), Flag("max_unknown", 7),
                                             Flag("ascii", TRUE), Flag("gracetime", 60)}),
        where \in {<<>>, <<Flag("config", "named")>>},
        file  \in {Absent, Toml([max_ttl |-> 12])}, guard \in BOOLEAN, root \in BOOLEAN }

-----------------------------------------------------------------------------
\* Up to three targets in every mode.
TargetModes ==
    { <<>>, <<Flag("report", TRUE)>>, <<Flag("json", TRUE)>>, <<Flag("report", TRUE),
      Flag("csv", TRUE), Flag("no_dns", TRUE)>>, <<Flag("json", TRUE), Flag("inet4", TRUE)>>,
      <<Flag("report_wide", TRUE), Flag("address", "4"), Flag("mark", 7)>>,
      <<Flag("tcp", TRUE), Flag("json", TRUE), Flag("interface", "eth0")>>,
      <<Flag("curses", TRUE), Flag("report_on_exit", TRUE)>>,
      <<Flag("csv", TRUE), Flag("filename", "hosts"), Flag("inet6", TRUE)>> }
HostLists ==
    LET names == {"host", "dual", "six", "mapped", "none"} IN
        {<<>>} \cup {<<HostNamed(n)>> : n \in names}
               \cup {<<HostNamed(n), HostNamed(m)>> : n \in names, m \in names}
               \cup { <<HostNamed("dual"), HostNamed("six"), HostNamed("dual")>>,
                      <<HostNamed("host"), HostNamed("dual"), HostNamed("host")>>,
                      <<[name |-> "host", port |-> 443]>>,
                      <<[name |-> "host", port |-> Wrong], HostNamed("host")>> }
TargetWorlds ==
    { [Plain EXCEPT !.words = words, !.hosts = hosts, !.hostFile = hostFile] :
        words \in TargetModes, hosts \in HostLists,
        hostFile \in {None, <<HostNamed("six")>>} }

OddWorlds ==
    { [Plain EXCEPT !.env = Wrong], [Plain EXCEPT !.words = Help],
      [Plain EXCEPT !.words = <<Flag("config", "named")>>, !.guard = TRUE],
      [Plain EXCEPT !.words = <<Flag("filename", "hosts")>>, !.guard = TRUE],
      [Plain EXCEPT !.words = <<Flag("init_config", TRUE)>>, !.home = FALSE],
      [Plain EXCEPT !.home = FALSE] }

AllWorlds == LayerWorlds \cup EdgeWorlds \cup InitWorlds \cup TargetWorlds \cup OddWorlds

AfterInit == { <<>>, <<Flag("config", "named")>>, <<Flag("json", TRUE), Flag("interval", 40)>>,
               <<Flag("init_config", TRUE)>> }
=============================================================================
