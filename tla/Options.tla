-------------------------------- MODULE Options --------------------------------
(***************************************************************************)
(* From words to settings: the command line with the words of $MTR_OPTIONS  *)
(* in front (crates/mtr/src/cli.rs, options.rs), the configuration file     *)
(* between them and the defaults (config_file.rs), the checks, and what     *)
(* --init-config saves.  Pure operators; Session has the order in which a   *)
(* process uses them.                                                       *)
(*                                                                          *)
(* argv is a sequence of option occurrences [id, val]; how a word is spelt, *)
(* quoted or abbreviated is left out.  Seconds are counted in tenths, and   *)
(* text that only has to be right or wrong (a field list, thresholds) is    *)
(* Wrong or a name.                                                         *)
(***************************************************************************)
EXTENDS Integers, Sequences

CONSTANTS
    None,        \* an option that is not given
    Wrong,       \* a value that its parser refuses
    IntMax,      \* i32::MAX
    MarkMax,     \* u32::MAX
    MaxSeconds,  \* MAX_SECONDS, in tenths
    MinPacket,   \* MIN_PACKET, MAX_PACKET
    MaxPacket,
    Linux        \* cfg!(target_os = "linux")

ASSUME OptionsAssumption ==
    /\ None \notin Int /\ None \notin {"auto", "default", "never"}
    /\ IntMax \in Nat /\ IntMax >= 255
    /\ MarkMax \in Nat /\ MaxSeconds \in Nat /\ MaxSeconds >= 50
    /\ MinPacket \in Nat /\ MaxPacket \in Nat /\ MinPacket <= 64 /\ 64 <= MaxPacket
    /\ Linux \in BOOLEAN

\* struct Args: the built-in default of every option and of the fields that only the
\* configuration file sets (the last five).
DefaultArgs ==
    [ version |-> FALSE, inet4 |-> FALSE, inet6 |-> FALSE, filename |-> None,
      report |-> FALSE, report_wide |-> FALSE, report_on_exit |-> FALSE, curses |-> FALSE,
      csv |-> FALSE, json |-> FALSE, no_dns |-> FALSE, order |-> None,
      ipinfo |-> None, aslookup |-> FALSE, interval |-> 10, report_cycles |-> None,
      psize |-> 64, bitpattern |-> 0, tos |-> 0, interface |-> None, address |-> None,
      first_ttl |-> 1, max_ttl |-> 30, due_ttl |-> None, max_unknown |-> 12,
      max_display_path |-> 8, udp |-> FALSE, tcp |-> FALSE, sctp |-> FALSE,
      port |-> None, localport |-> None, timeout |-> 10, gracetime |-> 50,
      cache |-> None, mark |-> None, ascii |-> FALSE, no_color |-> FALSE, color |-> None,
      rtt_thresholds |-> None, theme |-> None, config |-> None, init_config |-> FALSE,
      color_choice |-> None, theme_preset |-> None, theme_overrides |-> "none",
      sparkline |-> TRUE, detail_pane |-> TRUE ]

\* What the parser makes of words: options, all but the last five fields, the first two groups
\* of them switches and whole numbers.
Switches == {"no_dns", "no_color"}
Wholes   == {"report_cycles", "first_ttl", "max_ttl", "due_ttl", "max_unknown"}
FileOnly == {"color_choice", "theme_preset", "theme_overrides", "sparkline", "detail_pane"}

AreWords(words) ==
    /\ words \in Seq({words[i] : i \in DOMAIN words})
    /\ \A i \in DOMAIN words :
          /\ words[i].id \in DOMAIN DefaultArgs \ FileOnly /\ words[i].val # None
          /\ words[i].id \in Switches => words[i].val = TRUE
          /\ words[i].id \in Wholes => words[i].val \in Int

Flag(id, val) == [id |-> id, val |-> val]

\* Mutant: the words of the environment come after the command line.
EnvironmentLast(env, words) == words \o env

\* build_argv: the environment first, so that the command line overrides it.
BuildArgv(env, words) == env \o words

\* cli_set: the options that came from argv.
Given(argv) == {argv[i].id : i \in DOMAIN argv}

LastAt(argv, ids) ==
    CHOOSE i \in DOMAIN argv :
        /\ argv[i].id \in ids
        /\ \A j \in DOMAIN argv : argv[j].id \in ids => j <= i

\* parse_argv: the last occurrence of an option counts (args_override_self).
ParseArgv(argv) ==
    [id \in DOMAIN DefaultArgs |->
        IF id \in Given(argv) THEN argv[LastAt(argv, {id})].val ELSE DefaultArgs[id]]

ModeFlags == {"report", "report_wide", "curses", "csv", "json"}
ModeOf(id) == CASE id \in {"report", "report_wide"} -> "report"
                [] id = "curses" -> "tui" [] id = "csv" -> "csv" [] id = "json" -> "json"

\* output_mode, into_options: the last mode flag wins; the terminal without one.
OutputMode(argv) ==
    IF Given(argv) \cap ModeFlags = {} THEN "tui"
    ELSE ModeOf(argv[LastAt(argv, ModeFlags)].id)

-----------------------------------------------------------------------------
(* The configuration file: a function from some of the keys to values *)

\* In the order of the file.
KeyOrder == <<"rtt_thresholds_ms", "fields", "ascii", "color", "sparkline", "detail_pane",
              "interval", "gracetime", "max_ttl", "max_unknown", "timeout", "dns", "asn",
              "preset", "overrides">>
FileKeys == {KeyOrder[i] : i \in DOMAIN KeyOrder}

\* What TOML has been read into.
IsFile(file) ==
    /\ DOMAIN file \subseteq FileKeys
    /\ \A k \in DOMAIN file \cap {"rtt_thresholds_ms", "fields", "color", "preset"} : file[k] # None
    /\ \A k \in DOMAIN file \cap {"max_ttl", "max_unknown"} : file[k] \in Int
    /\ "dns" \in DOMAIN file => file["dns"] \in BOOLEAN

InRange(n, low, high) == n # None /\ low <= n /\ n <= high
ValidSeconds(s) == 0 < s /\ s <= MaxSeconds

\* FileConfig::validate
ValidFile(file) ==
    LET Has(k) == k \in DOMAIN file IN
        /\ \A k \in {"rtt_thresholds_ms", "fields", "overrides"} : Has(k) => file[k] # Wrong
        /\ \A k \in {"interval", "gracetime"} : Has(k) => ValidSeconds(file[k])
        /\ \A k \in {"timeout", "max_unknown"} : Has(k) => InRange(file[k], 1, IntMax)
        /\ Has("max_ttl") => InRange(file["max_ttl"], 1, 255)

\* The field of Args a key is written to, and the flag that shuts it out.  The sparkline and
\* the detail pane have none, nor have the colours of [theme].
ArgOf(key) ==
    CASE key = "rtt_thresholds_ms" -> "rtt_thresholds" [] key = "fields" -> "order"
      [] key = "color" -> "color_choice" [] key = "dns" -> "no_dns" [] key = "asn" -> "aslookup"
      [] key = "preset" -> "theme_preset" [] key = "overrides" -> "theme_overrides"
      [] OTHER -> key
FlagOf(key) ==
    CASE key = "color" -> "color" [] key = "preset" -> "theme" [] OTHER -> ArgOf(key)

ArgValue(key, val) == IF key = "dns" THEN ~val ELSE val

\* apply: the file fills the keys that argv has left alone.
Apply(args, given, file) ==
    [id \in DOMAIN args |->
        IF \E k \in DOMAIN file : ArgOf(k) = id /\ FlagOf(k) \notin given
        THEN LET k == CHOOSE k \in DOMAIN file : ArgOf(k) = id IN ArgValue(k, file[k])
        ELSE args[id]]

-----------------------------------------------------------------------------
(* Checks and conversions: Args::into_options *)

Clamp(n, low, high) == IF n < low THEN low ELSE IF n > high THEN high ELSE n
OrElse(val, default) == IF val = None THEN default ELSE val

Protocol(args) == CASE args.udp -> "udp" [] args.tcp -> "tcp" [] args.sctp -> "sctp"
                    [] OTHER -> "icmp"

\* Mutant: the due TTL is not compared with the maximum.
TtlsWithoutDue(args) ==
    LET first == IF args.first_ttl < 1 THEN 1 ELSE args.first_ttl
        max   == Clamp(args.max_ttl, 1, 255)
        due   == IF args.due_ttl = None THEN 0
                 ELSE IF args.due_ttl > 255 THEN 255 ELSE args.due_ttl
    IN [first |-> first, max |-> max, due |-> due,
        ok |-> /\ args.due_ttl # None => args.due_ttl > 0
               /\ first <= max
               /\ due > 0 => first <= due]

\* The three TTLs as the engine gets them, and whether they are accepted.
Ttls(args) ==
    LET first == IF args.first_ttl < 1 THEN 1 ELSE args.first_ttl
        max   == Clamp(args.max_ttl, 1, 255)
        due   == IF args.due_ttl = None THEN 0
                 ELSE IF args.due_ttl > 255 THEN 255 ELSE args.due_ttl
    IN [first |-> first, max |-> max, due |-> due,
        ok |-> /\ args.due_ttl # None => args.due_ttl > 0
               /\ first <= max
               /\ due > 0 => first <= due
               /\ due <= max]

\* A value that must be in a range where it is given at all.
InRangeIfGiven(n, low, high) == n # None => low <= n /\ n <= high

ExclusiveFlags(args) ==
    /\ ~(args.udp /\ args.tcp) /\ ~(args.udp /\ args.sctp) /\ ~(args.tcp /\ args.sctp)
    /\ ~(args.inet4 /\ args.inet6)

ValidNumbers(args) ==
    LET size == IF args.psize < 0 THEN -args.psize ELSE args.psize IN
        /\ MinPacket <= size /\ size <= MaxPacket
        /\ InRange(args.bitpattern, -1, 255)
        /\ InRange(args.tos, 0, 255)
        /\ InRangeIfGiven(args.cache, 1, IntMax)
        /\ InRange(args.timeout, 1, IntMax)
        /\ InRange(args.max_unknown, 1, IntMax)
        /\ InRangeIfGiven(args.report_cycles, 0, IntMax)
        /\ InRangeIfGiven(args.mark, 0, MarkMax) /\ (args.mark # None => Linux)

\* The interval below a second is for root only.
ValidTimes(args, root) ==
    /\ ValidSeconds(args.interval) /\ ValidSeconds(args.gracetime)
    /\ root \/ args.interval >= 10

ValidPorts(args) ==
    /\ InRangeIfGiven(args.port, 1, 65535)
    /\ InRangeIfGiven(args.localport, 1024, 65535)
    /\ Protocol(args) = "icmp" => args.port = None

ValidText(args) ==
    args.order # Wrong /\ args.ipinfo # Wrong /\ args.address # Wrong

Accepted(args, root) ==
    /\ ExclusiveFlags(args) /\ ValidNumbers(args) /\ ValidTimes(args, root)
    /\ Ttls(args).ok /\ ValidPorts(args) /\ ValidText(args)

\* --color wins, then --no-color, then the file.
ColorOf(args) ==
    IF args.color # None THEN args.color
    ELSE IF args.no_color THEN "never" ELSE OrElse(args.color_choice, "auto")

\* The settings a configuration file can hold, as the program uses them.
Settings(args) ==
    [ rtt_thresholds_ms |-> OrElse(args.rtt_thresholds, "default"),
      fields |-> OrElse(args.order, "default"), ascii |-> args.ascii,
      color |-> ColorOf(args), sparkline |-> args.sparkline,
      detail_pane |-> args.detail_pane, interval |-> args.interval,
      gracetime |-> args.gracetime, max_ttl |-> Ttls(args).max,
      max_unknown |-> args.max_unknown, timeout |-> args.timeout,
      dns |-> ~args.no_dns, asn |-> args.aslookup,
      preset |-> OrElse(args.theme, OrElse(args.theme_preset, "default")),
      overrides |-> args.theme_overrides ]

\* Config: what the engine is made with.
EngineConfig(args, argv) ==
    [ firstTtl |-> Ttls(args).first, maxTtl |-> Ttls(args).max, dueTtl |-> Ttls(args).due,
      maxUnknown |-> args.max_unknown, maxPing |-> OrElse(args.report_cycles, 10),
      interactive |-> OutputMode(argv) = "tui", forceMaxPing |-> args.report_cycles # None,
      cache |-> args.cache # None ]

\* What Engine assumes of its configuration (ConfigRecords and ValidConfig there).
FitForEngine(config) ==
    /\ config.firstTtl \in 1..255 /\ config.maxTtl \in 1..255 /\ config.dueTtl \in 0..255
    /\ config.maxUnknown \in 1..IntMax /\ config.maxPing \in 0..IntMax
    /\ config.firstTtl <= config.maxTtl
    /\ config.dueTtl # 0 => config.firstTtl <= config.dueTtl
    /\ config.dueTtl <= config.maxTtl

-----------------------------------------------------------------------------
(* --init-config *)

\* effective_from_args: the values in effect; of all of them only the maximum TTL is
\* adjusted by into_options rather than refused.
Effective(args) ==
    [Settings(args) EXCEPT !.max_ttl = Clamp(args.max_ttl, 1, 255)]

BuiltIn == Effective(DefaultArgs)

\* Mutant: only the rules of the file are checked.
CanSaveValid(settings, root) == ValidFile(settings)

\* EffectiveConfig::validate: the file has to load and to run again.
CanSave(settings, root) ==
    /\ ValidFile(settings)
    /\ root \/ settings.interval >= 10

\* render, then load: a key at its default is commented out.
Saved(settings) == [k \in {key \in FileKeys : settings[key] # BuiltIn[key]} |-> settings[k]]
=============================================================================
