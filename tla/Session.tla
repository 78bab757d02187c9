-------------------------------- MODULE Session --------------------------------
(***************************************************************************)
(* A process of mtr-rs from its words to its exit status: run and           *)
(* run_target of crates/mtr/src/lib.rs with resolve_target and the local    *)
(* address (target.rs), the search for the helper and its handshake         *)
(* (helper.rs), and the configuration file that --init-config leaves for    *)
(* the next process (config_file.rs).  Options says what the words mean.    *)
(*                                                                          *)
(* What the system answers (a route, a helper, a terminal) is a choice of   *)
(* the action that asks.  What a run does between its start and its end is  *)
(* module Pipeline.                                                         *)
(***************************************************************************)
EXTENDS Options, FiniteSets, SequencesExt

CONSTANTS
    Help,        \* the words --help
    Worlds,      \* what a process can meet: its user, its words and its system
    LaterWords   \* the words of a second process

\* A path of a configuration file: nothing there, a file that cannot be read or parsed, or keys.
Absent     == [kind |-> "absent"]
Broken     == [kind |-> "broken"]
Toml(keys) == [kind |-> "toml", keys |-> keys]
IsConfig(file) ==
    file \in {Absent, Broken} \/ (file = Toml(file.keys) /\ IsFile(file.keys))

\* Words and files are as their parsers leave them, hosts are lists, and a name has addresses of
\* the kinds of Resolve below.
ASSUME SessionAssumption ==
    /\ \A w \in Worlds :
          /\ {"env", "words", "root", "hosts", "hostFile", "answers"} \subseteq DOMAIN w
          /\ w.env # Wrong => AreWords(w.env)
          /\ w.words \notin {Wrong, Help} => AreWords(w.words)
          /\ DOMAIN w.files = {"default", "named"}
          /\ \A path \in DOMAIN w.files : IsConfig(w.files[path])
          /\ w.hosts \in Seq(ToSet(w.hosts))
          /\ w.hostFile # None => w.hostFile \in Seq(ToSet(w.hostFile))
          /\ \A name \in DOMAIN w.answers : w.answers[name] \in Seq({"4", "6", "mapped"})
    /\ \A words \in LaterWords : AreWords(words)

VARIABLES
    world,       \* the world of this process
    files,       \* the two configuration files, the default one and the one of --config
    pc,          \* where run() stands
    argv,        \* the options of environment and command line, in order
    read,        \* the configuration file as it was loaded
    targets,     \* Options::targets
    af,          \* the family that resolve_target is asked for, that of the address before
    preflight,   \* the addresses of resolve_all so far, or None
    at,          \* the target of the loop
    ip,          \* its address
    confirmed,   \* the features its helper has confirmed
    docs,        \* the JSON documents that wait for the end
    exit,        \* the exit status
    outcome,     \* History: what became of each target so far
    printed,     \* History: what stdout got
    saved        \* History: what --init-config saved, and where

vars == <<world, files, pc, argv, read, targets, af, preflight, at, ip, confirmed, docs, exit,
          outcome, printed, saved>>
loopVars == <<targets, af, preflight, at, ip, confirmed, docs, outcome, printed>>

Empty == <<>>           \* a file without keys

Init ==
    /\ world \in Worlds
    /\ files = world.files
    /\ pc = "start" /\ argv = <<>> /\ read = Empty
    /\ targets = <<>> /\ af = "any" /\ preflight = None /\ at = 1
    /\ ip = None /\ confirmed = <<>> /\ docs = <<>> /\ exit = 0
    /\ outcome = <<>> /\ printed = <<>> /\ saved = None

Exit(code) == pc' = "exit" /\ exit' = code
Goto(place) == pc' = place /\ exit' = exit

Args == Apply(ParseArgv(argv), Given(argv), read)
Mode == OutputMode(argv)

-----------------------------------------------------------------------------
(* Words, configuration file, options *)

\* run_from_env and the top of run.  Words can be an error of the parser, or its --help.
Parse ==
    /\ pc = "start"
    /\ IF Wrong \in {world.env, world.words} THEN Exit(1) /\ argv' = argv
       ELSE IF world.words = Help THEN Exit(0) /\ argv' = argv
       ELSE /\ argv' = BuildArgv(world.env, world.words)
            /\ CASE "version" \in Given(argv')     -> Exit(0)
                 [] "init_config" \in Given(argv') -> Goto("init")
                 [] OTHER                          -> Goto("config")
    /\ UNCHANGED <<world, files, read, saved, loopVars>>

\* resolve_path: --config, else the default path if there is one.
ConfigPath ==
    IF "config" \in Given(argv) THEN "named" ELSE IF world.home THEN "default" ELSE None

\* What a write that fails can leave: the keys written so far, or half a line.
Truncated(contents) ==
    {Broken} \cup
       {Toml([k \in DOMAIN contents \cap ToSet(SubSeq(KeyOrder, 1, n)) |-> contents[k]]) :
           n \in 0..Len(KeyOrder)}

\* init_config_target and init.
InitConfig ==
    /\ pc = "init"
    /\ LET settings == Effective(Args)
           refused  == \/ world.guard \/ ConfigPath = None
                       \/ ~CanSave(settings, world.root) \/ files[ConfigPath] # Absent
       IN \/ /\ Exit(1)            \* refused, or the directory or the file cannot be made
             /\ UNCHANGED <<files, saved>>
          \/ /\ ~refused
             /\ files' = [files EXCEPT ![ConfigPath] = Toml(Saved(settings))]
             /\ saved' = [path |-> ConfigPath, settings |-> settings]
             /\ Exit(0)
          \/ /\ ~refused
             /\ \E rest \in Truncated(Saved(settings)) :
                    files' = [files EXCEPT ![ConfigPath] = rest]
             /\ saved' = saved
             /\ Exit(1)
    /\ UNCHANGED <<world, argv, read, loopVars>>

\* config_source, load and apply.
LoadConfig ==
    /\ pc = "config"
    /\ LET contents == IF world.guard \/ ConfigPath = None THEN Absent ELSE files[ConfigPath]
       IN CASE world.guard /\ "config" \in Given(argv) -> Exit(1) /\ read' = read
            [] contents = Absent                       -> Goto("hosts") /\ read' = Empty
            [] contents = Broken                       -> Exit(1) /\ read' = read
            [] OTHER -> IF ValidFile(contents.keys) THEN Goto("hosts") /\ read' = contents.keys
                        ELSE Exit(1) /\ read' = read
    /\ UNCHANGED <<world, files, argv, saved, loopVars>>

\* -F: hosts_from_file_option; its hosts come before those of the command line.
HostsGiven ==
    IF Args.filename = None THEN world.hosts
    ELSE IF world.guard \/ world.hostFile = None THEN None
    ELSE world.hostFile \o world.hosts

\* split_target_port, for every protocol but ICMP; localhost without a host.
Targets(hosts) ==
    IF hosts = <<>> THEN << [name |-> "localhost", port |-> None] >>
    ELSE IF Protocol(Args) = "icmp"
    THEN [i \in DOMAIN hosts |->
            [name |-> IF hosts[i].port = None THEN hosts[i].name ELSE "with a port",
             port |-> None]]
    ELSE hosts

\* The -F file and into_options.
IntoOptions ==
    /\ pc = "hosts"
    /\ IF /\ HostsGiven # None
          /\ Accepted(Args, world.root)
          /\ \A t \in ToSet(Targets(HostsGiven)) : t.port # Wrong
       THEN Goto("preflight") /\ targets' = Targets(HostsGiven)
       ELSE Exit(1) /\ targets' = targets
    /\ UNCHANGED <<world, files, argv, read, af, preflight, at, ip, confirmed, docs, outcome,
                   printed, saved>>

-----------------------------------------------------------------------------
(* Resolving: an address is of family 4 or 6, or an IPv4 address mapped into 6 *)

FamilyOf(addr) == IF addr = "mapped" THEN "6" ELSE addr
Unmap(addr, family) == IF addr = "mapped" /\ family = "any" THEN "4" ELSE addr
FamilyOk(addr, family) == family \in {"any", FamilyOf(addr)}

\* resolve_target: the first address of the family; a name may have none at all.
Resolve(name, family) ==
    LET answers == IF name \in DOMAIN world.answers THEN world.answers[name] ELSE <<>>
        addr(i) == Unmap(answers[i], family)
        fit     == {i \in DOMAIN answers : FamilyOk(addr(i), family)}
    IN IF fit = {} THEN None ELSE addr(Min(fit))

Requested == IF Args.inet4 THEN "4" ELSE IF Args.inet6 THEN "6" ELSE "any"

\* resolve_all: with two targets or more, and not in the terminal.
Preflight ==
    /\ pc = "preflight"
    /\ af' = Requested
    /\ IF Mode = "tui" \/ Len(targets) < 2
       THEN Goto("targets") /\ preflight' = None
       ELSE Goto("resolve all") /\ preflight' = <<>>
    /\ UNCHANGED <<world, files, argv, read, targets, at, ip, confirmed, docs, outcome, printed,
                   saved>>

\* Mutant: every target is resolved as the user asked.
HintOfTheUser(addr) == Requested

\* The family of the next target is that of the address just found.
HintAfter(addr) == FamilyOf(addr)

\* Its loop; any failure ends the run.
ResolveAll ==
    /\ pc = "resolve all"
    /\ IF Len(preflight) = Len(targets) THEN Goto("targets") /\ UNCHANGED <<af, preflight>>
       ELSE LET addr == Resolve(targets[Len(preflight) + 1].name, af) IN
            IF addr = None THEN Exit(1) /\ UNCHANGED <<af, preflight>>
            ELSE /\ preflight' = Append(preflight, addr) /\ af' = HintAfter(addr)
                 /\ Goto("resolve all")
    /\ UNCHANGED <<world, files, argv, read, targets, at, ip, confirmed, docs, outcome, printed,
                   saved>>

-----------------------------------------------------------------------------
(* The loop over the targets *)

\* targets_to_run: the terminal shows the first target only.
RunList == IF Mode = "tui" THEN SubSeq(targets, 1, 1) ELSE targets

\* Mutant: a failure leaves the exit status alone.
TargetFailsQuietly ==
    /\ outcome' = Append(outcome, "failed")
    /\ at' = at + 1
    /\ IF Mode = "tui" THEN Exit(1) ELSE Goto("targets")
    /\ docs' = docs

\* A target that fails ends the terminal session; a report goes on with the next target.
TargetFails ==
    /\ outcome' = Append(outcome, "failed")
    /\ at' = at + 1
    /\ IF Mode = "tui" THEN Exit(1) ELSE pc' = "targets" /\ exit' = 1
    /\ docs' = docs

LoopStep == UNCHANGED <<world, files, argv, read, targets, af, preflight, saved>>
Proceed(place) == Goto(place) /\ UNCHANGED <<at, docs, outcome>>

ResolveNext ==
    /\ pc = "targets" /\ at <= Len(RunList)
    /\ ip' = IF preflight # None THEN preflight[at] ELSE Resolve(RunList[at].name, af)
    /\ confirmed' = <<>>
    /\ IF ip' = None THEN TargetFails ELSE Proceed("local")
    /\ LoopStep /\ UNCHANGED printed

\* The source address: of -a, of the interface of -I, or of the route.  All but the first ask
\* the system, which may fail; a host that is merely unreachable is no failure on Linux.
FindLocal ==
    /\ pc = "local"
    /\ \/ /\ IF Args.address # None THEN FamilyOf(Args.address) = FamilyOf(ip)
             ELSE Args.interface # None => FamilyOf(ip) \in world.interface
          /\ Proceed("spawn")
       \/ /\ Args.address # None => FamilyOf(Args.address) # FamilyOf(ip)
          /\ TargetFails
    /\ LoopStep /\ UNCHANGED <<ip, confirmed, printed>>

\* candidates, spawn_with: the first candidate that starts, if one does.
Spawn ==
    /\ pc = "spawn"
    /\ Proceed("check") \/ TargetFails
    /\ LoopStep /\ UNCHANGED <<ip, confirmed, printed>>

\* Mutant: the family is not asked for.
RequiredWithoutFamily ==
    <<"send-probe", Protocol(Args)>>
        \o (IF OrElse(Args.mark, 0) # 0 THEN <<"mark">> ELSE <<>>)

\* The features asked for in turn.
Required ==
    <<"send-probe", FamilyOf(ip), Protocol(Args)>>
        \o (IF OrElse(Args.mark, 0) # 0 THEN <<"mark">> ELSE <<>>)

\* check: yes, or no, or nothing that can be understood within five seconds.
Check ==
    /\ pc = "check" /\ Len(confirmed) < Len(Required)
    /\ \/ confirmed' = Append(confirmed, Required[Len(confirmed) + 1]) /\ Proceed("check")
       \/ confirmed' = confirmed /\ TargetFails
    /\ LoopStep /\ UNCHANGED <<ip, printed>>

\* The report announces itself; the resolver or the terminal may fail to start.
Begin ==
    /\ pc = "check" /\ Len(confirmed) = Len(Required)
    /\ printed' = IF Mode = "report" THEN Append(printed, <<"start", at>>) ELSE printed
    /\ \/ Proceed("running")
       \/ /\ Mode = "tui" \/ ~Args.no_dns \/ Args.aslookup \/ Args.ipinfo # None
          /\ TargetFails
    /\ LoopStep /\ UNCHANGED <<ip, confirmed>>

\* The end of run_target: the report is printed at once, the JSON document waits.
Output(result) ==
    /\ outcome' = Append(outcome, result)
    /\ docs' = IF Mode = "json" THEN Append(docs, at) ELSE docs
    /\ printed' = IF Mode \in {"report", "csv"} \/ (Mode = "tui" /\ Args.report_on_exit)
                  THEN Append(printed, <<"report", at>>) ELSE printed
    /\ at' = at + 1

Finished ==
    /\ pc = "running"
    /\ Output("done") /\ Goto("targets")
    /\ LoopStep /\ UNCHANGED <<ip, confirmed>>

\* Ctrl-C ends the loop, too.
Interrupted ==
    /\ pc = "running"
    /\ Output("interrupted") /\ pc' = "print" /\ exit' = 130
    /\ LoopStep /\ UNCHANGED <<ip, confirmed>>

RunFails ==
    /\ pc = "running"
    /\ TargetFails
    /\ LoopStep /\ UNCHANGED <<ip, confirmed, printed>>

\* wrap_documents: all of JSON at the end, whatever happened to the last targets.
PrintDocuments ==
    /\ pc = "print" \/ (pc = "targets" /\ at > Len(RunList))
    /\ printed' = printed \o [i \in DOMAIN docs |-> <<"report", docs[i]>>]
    /\ Exit(exit)
    /\ LoopStep /\ UNCHANGED <<at, ip, confirmed, docs, outcome>>

-----------------------------------------------------------------------------
\* The same user starts another process.  Only --init-config leaves something behind.
NextProcess ==
    /\ pc = "exit" /\ "init_config" \in Given(argv)
    /\ \E words \in LaterWords : world' = [world EXCEPT !.words = words]
    /\ pc' = "start" /\ exit' = 0 /\ argv' = <<>> /\ read' = Empty
    /\ UNCHANGED <<files, saved, loopVars>>

Next ==
    \/ Parse \/ InitConfig \/ LoadConfig \/ IntoOptions \/ Preflight \/ ResolveAll
    \/ ResolveNext \/ FindLocal \/ Spawn \/ Check \/ Begin
    \/ Finished \/ Interrupted \/ RunFails \/ PrintDocuments
    \/ NextProcess

Spec == Init /\ [][Next]_vars

-----------------------------------------------------------------------------
(* Properties *)

\* All layers have been read; later steps change none of them.
OptionsRead == pc = "hosts"

\* The flags a key of the file stands for.
FlagsOf(key) == IF key = "color" THEN {"color", "no_color"} ELSE {FlagOf(key)}
Says(words, key) == \E i \in DOMAIN words : words[i].id \in FlagsOf(key)

\* What the last of the words about a key asks for.
Said(words, key) ==
    LET flag == words[LastAt(words, FlagsOf(key))] IN
        CASE flag.id = "no_color" -> "never"
          [] flag.id = "no_dns"   -> FALSE
          [] flag.id = "max_ttl"  -> Clamp(flag.val, 1, 255)
          [] OTHER                -> flag.val

\* built-in defaults < this file < $MTR_OPTIONS < the command line (config_file.rs, the
\* header of the file).
ByRank(key) ==
    IF Says(world.words, key) THEN Said(world.words, key)
    ELSE IF Says(world.env, key) THEN Said(world.env, key)
    ELSE IF key \in DOMAIN read THEN read[key] ELSE BuiltIn[key]

\* Both flags about colours, which have an order of their own: --color wins over --no-color,
\* wherever the two stand (ColorOf).
ColorTwice == {"color", "no_color"} \subseteq Given(argv)

\* Every setting has the value of the highest layer that says something about it, after
\* parsing, the file and the conversions have each added their part.
LayersInOrder ==
    OptionsRead =>
        \A key \in FileKeys \ (IF ColorTwice THEN {"color"} ELSE {}) :
            Settings(Args)[key] = ByRank(key)

\* What --init-config has saved can be loaded, is what a later process of the same user uses
\* where its own words are silent, and never makes one refuse that would have run without it,
\* but for the other two TTLs, which are not saved ("the rendered file has to load *and* run
\* again", config_file.rs).
SavedReproduces ==
    saved # None =>
        /\ files[saved.path].kind = "toml" /\ ValidFile(files[saved.path].keys)
        /\ OptionsRead /\ ConfigPath = saved.path /\ ~world.guard =>
              /\ \A key \in FileKeys :
                    FlagsOf(key) \cap Given(argv) = {} => Settings(Args)[key] = saved.settings[key]
              /\ Given(argv) \cap {"first_ttl", "due_ttl"} = {} =>
                    (Accepted(ParseArgv(argv), world.root) => Accepted(Args, world.root))

\* Whatever the layers ask for, the engine is made with a configuration it can work with.
EngineGetsValid ==
    pc = "running" => FitForEngine(EngineConfig(Args, argv))

\* The exit status and the output account for every target: 0 when all were traced, 130 when
\* Ctrl-C ended the last, 1 when one failed; each target traced has its report or document,
\* also when another one failed before or after it.
EveryTargetCounts ==
    LET traced == {i \in DOMAIN outcome : outcome[i] # "failed"} IN
        pc = "exit" /\ outcome # <<>> =>
            /\ exit = 0 <=> (traced = DOMAIN RunList /\ Last(outcome) = "done")
            /\ exit = 130 <=> Last(outcome) = "interrupted"
            /\ Mode # "tui" =>
                  /\ Len(outcome) = Len(RunList) \/ exit = 130
                  /\ {p[2] : p \in {q \in ToSet(printed) : q[1] = "report"}} = traced
                  /\ Cardinality({i \in DOMAIN printed : printed[i][1] = "report"})
                       = Cardinality(traced)

\* A run starts with an address of the family that was asked for, a source address and a
\* helper of that family, and a report of several targets keeps to one family and has found an
\* address for each of them (the debug_assert of run).
FamiliesAgree ==
    pc = "running" =>
        /\ FamilyOk(ip, Requested)
        /\ FamilyOf(ip) \in ToSet(confirmed)
        /\ Args.address # None => FamilyOf(Args.address) = FamilyOf(ip)
        /\ preflight # None => Len(preflight) = Len(RunList)
        /\ preflight # None =>
              \A i, j \in DOMAIN preflight : FamilyOf(preflight[i]) = FamilyOf(preflight[j])
=============================================================================
