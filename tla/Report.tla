------------------------------- MODULE Report ---------------------------------
(***************************************************************************)
(* What a report prints, and the part of every hop it is computed from: the *)
(* addresses and labels hop.rs keeps, the error, the figures of RttStats,   *)
(* the hops Engine::display_range selects, and the emitters: text            *)
(* (emit/report.rs), CSV and JSON, with names, AS fields and the -o columns; *)
(* and what the table and the pane of the TUI show of the same hops.         *)
(* Which probe an answer belongs to is the business of module Engine: here   *)
(* any open probe of a hop may be answered, in any order, or never.         *)
(* Widths, padding, quoting and the rounding to milliseconds are left out.  *)
(***************************************************************************)
EXTENDS RttStats, Sequences, SequencesExt, FiniteSets

CONSTANTS
    Addrs,      \* addresses that answer
    Target,     \* Engine::target
    Errors,     \* HopError
    MplsLabels, \* MPLS labels
    None,       \* Option::None
    NameOf,     \* NameCache: the useful PTR name of an address, or None
    AsnOf,      \* NameCache: the fields of the origin record, or None
    MaxPath,    \* MAX_PATH: addresses remembered per hop
    MaxRtt,     \* BOUND: the longest round trip, in microseconds
    Instances   \* configurations, each with the inputs explored under it

\* The columns of -o; gmean ("G") is left out, see RttStats.
Keys == {" ", "L", "D", "R", "S", "N", "B", "A", "W", "V", "J", "M", "X", "I"}
MaxFields == 20

\* The engine's Config, -w, and what is explored under it: sends per hop, and
\* the addresses, times, label stacks and errors of the answers.
Configs ==
    [ firstTtl : Nat \ {0}, maxTtl : Nat, dueTtl : Nat, interactive : BOOLEAN,
      fields : {spec \in Seq(Keys \cup {"_"}) : Len(spec) <= MaxFields},
      wide : BOOLEAN, mpls : BOOLEAN, ipinfo : Seq(Nat), dns : BOOLEAN, showIps : BOOLEAN,
      maxDisplayPath : Nat, sends : Nat, froms : SUBSET Addrs, rtts : SUBSET (0..MaxRtt),
      labels : SUBSET Seq(MplsLabels), errs : SUBSET (Errors \cup {None}) ]

\* jinta reaches 16 times the worst jitter and has to fit an i32.
ASSUME ReportAssumption ==
    /\ Target \in Addrs /\ None \notin Addrs /\ None \notin Errors
    /\ MaxPath \in Nat \ {0}
    /\ MaxRtt \in Nat /\ 16 * MaxRtt + 7 <= 2147483647
    /\ Instances \subseteq Configs

VARIABLES
    cfg,      \* the instance, with the TTLs of the moment
    hops,     \* Engine::hops
    open,     \* per hop, probes that can still be answered
    heard,    \* GHOST: per hop, <<address, labels>> of the answers since the last reset
    total,    \* GHOST: per hop, the sum of the round-trip times since then
    printed   \* the session is over and its report printed

vars == <<cfg, hops, open, heard, total, printed>>

HopRecords ==
    [ addr  : Addrs \cup {None},    \* the latest responder
      addrs : Seq([addr : Addrs, mpls : Seq(MplsLabels)]),
      mpls  : Seq(MplsLabels),      \* labels of addr
      err   : Errors \cup {None},
      stats : StatsRecords ]

NewHop == [addr |-> None, addrs |-> <<>>, mpls |-> <<>>, err |-> None, stats |-> NoStats]

Cleared ==
    /\ hops'  = [at \in DOMAIN hops |-> NewHop]
    /\ open'  = [at \in DOMAIN hops |-> 0]
    /\ heard' = [at \in DOMAIN hops |-> {}]
    /\ total' = [at \in DOMAIN hops |-> 0]

Init ==
    /\ cfg \in Instances
    /\ hops  = [at \in 1..cfg.maxTtl |-> NewHop]
    /\ open  = [at \in 1..cfg.maxTtl |-> 0]
    /\ heard = [at \in 1..cfg.maxTtl |-> {}]
    /\ total = [at \in 1..cfg.maxTtl |-> 0]
    /\ printed = FALSE

-----------------------------------------------------------------------------
(* hop.rs *)

RecordSend(h) == [h EXCEPT !.stats = CountSend(@)]

\* A known responder only counts; a new one is remembered while there is room.
NoteAddr(addrs, from, labels) ==
    IF (\E i \in DOMAIN addrs : addrs[i].addr = from) \/ Len(addrs) >= MaxPath
    THEN addrs
    ELSE Append(addrs, [addr |-> from, mpls |-> labels])

\* The labels of the row only change with its address.
Overwrites(h, from, overwrite) == overwrite /\ h.addr # from

RecordReply(h, from, rtt, labels, err, overwrite) ==
    [ err   |-> err,
      addrs |-> NoteAddr(h.addrs, from, labels),
      addr  |-> IF Overwrites(h, from, overwrite) THEN from ELSE h.addr,
      mpls  |-> IF Overwrites(h, from, overwrite) THEN labels ELSE h.mpls,
      stats |-> CountReply(h.stats, rtt) ]

RecordSendError(h, err) == [h EXCEPT !.err = err, !.stats = NotInFlight(@)]

-----------------------------------------------------------------------------
(* engine.rs: what changes the hops *)

Send(at) ==
    /\ at >= cfg.firstTtl /\ at <= cfg.maxTtl
    /\ hops[at].stats.xmit < cfg.sends
    /\ hops' = [hops EXCEPT ![at] = RecordSend(@)]
    /\ open' = [open EXCEPT ![at] = @ + 1]
    /\ UNCHANGED <<cfg, heard, total, printed>>

\* Before the due TTL the target does not become a hop's address.
MayShow(at, from) == from = Target => cfg.dueTtl <= at

Answer(at, from, rtt, labels, err) ==
    /\ open[at] > 0
    /\ hops'  = [hops EXCEPT ![at] =
                    RecordReply(@, from, rtt, labels, err, MayShow(at, from))]
    /\ open'  = [open EXCEPT ![at] = @ - 1]
    /\ heard' = [heard EXCEPT ![at] = @ \cup {<<from, labels>>}]
    /\ total' = [total EXCEPT ![at] = @ + rtt]
    /\ UNCHANGED <<cfg, printed>>

SendFails(at, err) ==
    /\ open[at] > 0
    /\ hops' = [hops EXCEPT ![at] = RecordSendError(@, err)]
    /\ open' = [open EXCEPT ![at] = @ - 1]
    /\ UNCHANGED <<cfg, heard, total, printed>>

Reset == cfg.interactive /\ Cleared /\ UNCHANGED <<cfg, printed>>

SetFirstTtl(ttl) ==
    /\ cfg.interactive
    /\ cfg' = [cfg EXCEPT !.firstTtl = IF ttl > Larger(cfg.maxTtl, 1)
                                       THEN Larger(cfg.maxTtl, 1) ELSE Larger(ttl, 1)]
    /\ UNCHANGED <<hops, open, heard, total, printed>>

SetMaxTtl(ttl) ==
    /\ cfg.interactive
    /\ cfg' = [cfg EXCEPT !.maxTtl = Larger(ttl, cfg.firstTtl)]
    /\ UNCHANGED <<hops, open, heard, total, printed>>

\* Finished, interrupted, or the TUI left: end_transit, then the report.
End ==
    /\ hops' = [at \in DOMAIN hops |-> [hops[at] EXCEPT !.stats = NotInFlight(@)]]
    /\ printed' = TRUE
    /\ UNCHANGED <<cfg, open, heard, total>>

Running(at) ==
    \/ Send(at)
    \/ \E from \in cfg.froms, rtt \in cfg.rtts, labels \in cfg.labels, err \in cfg.errs :
         Answer(at, from, rtt, labels, err)
    \/ \E err \in cfg.errs \ {None} : SendFails(at, err)
    \/ SetFirstTtl(at)
    \/ SetMaxTtl(at)

Next == ~printed /\ ((\E at \in DOMAIN hops : Running(at)) \/ Reset \/ End)

Spec == Init /\ [][Next]_vars

-----------------------------------------------------------------------------
(* Engine::display_range *)

RouteEnds(at) == hops[at].addr = Target \/ hops[at].err # None
Known(at)     == hops[at].addr # None
Path          == 1..cfg.maxTtl

\* The first hop that ends the route, else one past the last hop that is known.
MaxHop ==
    IF \E at \in Path : RouteEnds(at)
    THEN CHOOSE at \in Path : RouteEnds(at) /\ \A b \in 1..(at - 1) : ~RouteEnds(b)
    ELSE IF \E at \in Path : Known(at)
         THEN Smaller(cfg.maxTtl,
                      1 + CHOOSE at \in Path : /\ Known(at)
                                               /\ \A b \in (at + 1)..cfg.maxTtl : ~Known(b))
         ELSE 0

DisplayRange == cfg.firstTtl..MaxHop
Displayed(i) == cfg.firstTtl + i - 1
Rows == 1..Larger(0, MaxHop - cfg.firstTtl + 1)

-----------------------------------------------------------------------------
(* names.rs, asn.rs and fields.rs *)

\* ???, the address, its name, or both with --show-ips.
AddrName(a) ==
    IF a = None THEN <<>>
    ELSE IF NameOf[a] = None \/ ~cfg.dns THEN <<a>>
    ELSE IF cfg.showIps THEN <<NameOf[a], a>>
    ELSE <<NameOf[a]>>

HopName(h) == IF h.err # None THEN <<h.err>> ELSE AddrName(h.addr)

\* One field of the origin record, by its number from 0: the first one stands in
\* for a missing one; None is the unknown mark.
AsnField(a, f) ==
    IF a = None THEN None
    ELSE LET record == AsnOf[a]
         IN  IF record = None THEN None
             ELSE IF f + 1 \in DOMAIN record THEN record[f + 1] ELSE record[1]

AsnFields(a) == [i \in DOMAIN cfg.ipinfo |-> AsnField(a, cfg.ipinfo[i])]

ActiveFields == SelectSeq(cfg.fields, LAMBDA key : key \in Keys)

Figure(s, key) ==
    CASE key = "L" -> Loss(s)     [] key = "D" -> Drop(s)     [] key = "R" -> s.returned
      [] key = "S" -> s.xmit      [] key = "N" -> s.last      [] key = "B" -> s.best
      [] key = "A" -> s.avg       [] key = "W" -> s.worst     [] key = "V" -> StDev(s)
      [] key = "J" -> s.jitter    [] key = "M" -> s.javg      [] key = "X" -> s.jworst
      [] key = "I" -> s.jinta     [] key = " " -> None

Figures(h) == [i \in DOMAIN ActiveFields |-> Figure(h.stats, ActiveFields[i])]

-----------------------------------------------------------------------------
(* emit: text, CSV and JSON *)

\* Mutant: the first address is taken for the one of the hop's row.
ExtrasButFirst(h) ==
    IF h.addrs = <<>> THEN <<>>
    ELSE SubSeq(h.addrs, 2, Smaller(Len(h.addrs), cfg.maxDisplayPath))

\* The addresses below a hop's row: of the first MaxDisplayPath ones, the others.
Extras(h) ==
    SelectSeq(SubSeq(h.addrs, 1, Smaller(Len(h.addrs), cfg.maxDisplayPath)),
              LAMBDA a : a.addr # h.addr)

Labels(labels) == IF cfg.mpls THEN labels ELSE <<>>

HopRow(at) ==
    [ hop |-> at, extra |-> FALSE, of |-> hops[at].addr, name |-> HopName(hops[at]),
      asn |-> AsnFields(hops[at].addr), figures |-> Figures(hops[at]),
      labels |-> Labels(hops[at].mpls) ]

ExtraRow(at, a) ==
    [ hop |-> at, extra |-> TRUE, of |-> a.addr, name |-> AddrName(a.addr),
      asn |-> AsnFields(a.addr), figures |-> <<>>, labels |-> Labels(a.mpls) ]

ExtraRows(at) ==
    LET extras == Extras(hops[at])
    IN  [i \in DOMAIN extras |-> ExtraRow(at, extras[i])]

TextReport ==
    FlattenSeq([i \in Rows |-> <<HopRow(Displayed(i))>> \o ExtraRows(Displayed(i))])

\* The AS column of CSV and JSON is there when field 0 is selected.
AsnColumn(a) == IF 0 \in ToSet(cfg.ipinfo) THEN <<AsnField(a, 0)>> ELSE <<>>

\* The spacer is a column without a title, and without a figure.
CsvHeader ==
    IF Rows = {} THEN <<>>
    ELSE AsnColumn(None)
           \o [i \in DOMAIN ActiveFields |->
                 IF ActiveFields[i] = " " THEN None ELSE ActiveFields[i]]

\* The row of another address repeats the hop's figures.
CsvRow(at, extra, a, name) ==
    [ hop |-> at, extra |-> extra, of |-> a, name |-> name,
      cells |-> AsnColumn(a) \o Figures(hops[at]) ]

CsvRows ==
    FlattenSeq([i \in Rows |->
        LET at     == Displayed(i)
            h      == hops[at]
            extras == IF cfg.wide THEN Extras(h) ELSE <<>>
        IN  <<CsvRow(at, FALSE, h.addr, HopName(h))>>
              \o [j \in DOMAIN extras |->
                    CsvRow(at, TRUE, extras[j].addr, AddrName(extras[j].addr))]])

JsonKeys == SelectSeq(ActiveFields, LAMBDA key : key # " ")

Hubs ==
    [i \in Rows |->
        LET h == hops[Displayed(i)]
        IN  [ count |-> Displayed(i), name |-> HopName(h), asn |-> AsnColumn(h.addr),
              figures |-> [j \in DOMAIN JsonKeys |-> <<JsonKeys[j], Figure(h.stats, JsonKeys[j])>>] ]]

-----------------------------------------------------------------------------
(* The terminal: tui/render/table.rs, and the pane's title and Addresses tab in detail.rs *)

\* rows: the others among a hop's addresses, maxDisplayPath with its own.
ScreenExtras(h) ==
    LET others == SelectSeq(h.addrs, LAMBDA a : a.addr # h.addr)
    IN  SubSeq(others, 1, Smaller(Len(others), Larger(cfg.maxDisplayPath - 1, 0)))

\* The labels below a hop's row are those its address first came with.
FirstLabels(h) ==
    FlattenSeq([i \in DOMAIN h.addrs |-> IF h.addrs[i].addr = h.addr THEN h.addrs[i].mpls ELSE <<>>])

\* An error takes the AS fields along with the address.
ScreenRow(at) ==
    LET h == hops[at]
    IN  [ hop |-> at, extra |-> FALSE, of |-> h.addr, name |-> HopName(h),
          asn |-> IF h.err = None /\ h.addr # None THEN AsnFields(h.addr) ELSE <<>>,
          figures |-> Figures(h), labels |-> Labels(FirstLabels(h)) ]

Screen ==
    FlattenSeq([i \in Rows |->
        LET extras == ScreenExtras(hops[Displayed(i)])
        IN  <<ScreenRow(Displayed(i))>>
              \o [j \in DOMAIN extras |-> ExtraRow(Displayed(i), extras[j])]])

\* Name, address and AS of the selected hop, those that are known.
TitleLine(h) ==
    IF h.addr = None THEN <<>>
    ELSE (IF NameOf[h.addr] # None /\ cfg.dns THEN <<NameOf[h.addr]>> ELSE <<>>)
           \o <<h.addr>>
           \o (IF AsnOf[h.addr] # None THEN <<AsnField(h.addr, 0)>> ELSE <<>>)

\* Every address a hop remembers; None is printed as a dash.
AddressTab(h) ==
    [i \in DOMAIN h.addrs |->
        LET addr == h.addrs[i].addr
        IN  [of |-> addr, name |-> IF cfg.dns THEN NameOf[addr] ELSE None,
             asn |-> AsnField(addr, 0)]]

-----------------------------------------------------------------------------
(* Correctness *)

TypeOK ==
    /\ cfg \in Configs
    /\ DOMAIN hops \subseteq Nat
    /\ hops  \in [DOMAIN hops -> HopRecords]
    /\ open  \in [DOMAIN hops -> Nat]
    /\ heard \in [DOMAIN hops -> SUBSET (Addrs \X Seq(MplsLabels))]
    /\ total \in [DOMAIN hops -> Nat]
    /\ printed \in BOOLEAN

\* The truncated mean is never above the true one and loses less than one
\* microsecond per further reply; it stays between the best and the worst time.
MeanBounded(s, sum) ==
    /\ s.best <= s.avg /\ s.avg <= s.worst
    /\ s.best <= s.last /\ s.last <= s.worst
    /\ 0 <= s.best /\ s.worst <= MaxRtt
    /\ 0 <= sum - s.returned * s.avg
    /\ 2 * (sum - s.returned * s.avg) <= s.returned * (s.returned - 1)

Spread(s) == s.worst - s.best

\* The root of ssd is taken, and no deviation exceeds the spread of the times.
DeviationBounded(s) ==
    0 <= s.ssd /\ s.ssd <= (s.returned - 1) * (Spread(s) * Spread(s))

\* No jitter exceeds the spread, and the interarrival jitter fits its i32.
JitterBounded(s) ==
    /\ 0 <= s.jitter /\ s.jitter <= s.jworst /\ s.jworst <= Spread(s)
    /\ 0 <= s.javg /\ s.javg <= s.jworst
    /\ 0 <= s.jinta /\ s.jinta <= 16 * s.jworst + 7

\* Loss is a percentage and Drop no negative number: the probe left out as in
\* flight is never one that was answered.
CountsBounded(s) ==
    /\ s.transit \in {0, 1}
    /\ 0 <= s.returned /\ s.returned + s.transit <= s.xmit

StatsBounded(s, sum) ==
    CountsBounded(s) /\ MeanBounded(s, sum) /\ DeviationBounded(s) /\ JitterBounded(s)

\* Whatever order and size of round-trip times the replies of a hop have, across
\* sends, failures, resets and the end, the recurrences of stats.rs keep every
\* column within the bounds its meaning gives it, though each one rounds on
\* every reply and none is ever computed from the times themselves.
FiguresBounded == \A at \in DOMAIN hops : StatsBounded(hops[at].stats, total[at])

Responders(at) == {answer[1] : answer \in heard[at]}

RowsOf(at) == SelectSeq(TextReport, LAMBDA row : row.hop = at)

\* Each address once, none that never answered at this hop, and all of them while
\* neither the hop nor the report is full, but for the one whose place an error takes.
AddressesShown(at) ==
    LET shown  == SelectSeq(RowsOf(at),
                            LAMBDA row : row.of # None /\ row.name # <<hops[at].err>>)
        seen   == {shown[i].of : i \in DOMAIN shown}
        hidden == IF hops[at].err # None THEN {hops[at].addr} ELSE {}
    IN  /\ Cardinality(seen) = Len(shown)
        /\ seen \subseteq Responders(at)
        /\ Cardinality(Responders(at)) <= Smaller(MaxPath, cfg.maxDisplayPath)
             => seen = Responders(at) \ hidden

\* Labels stand below an address that sent them.
LabelsShown(at) ==
    \A i \in DOMAIN RowsOf(at) :
        LET row == RowsOf(at)[i]
        IN  row.labels # <<>> => <<row.of, row.labels>> \in heard[at]

\* A hop that answered is only left out before the first TTL, beyond the last
\* one, or after a hop that ended the route.
HopsShown ==
    \A at \in Path :
        Responders(at) # {} /\ hops[at].addr # None /\ at \notin DisplayRange =>
            at < cfg.firstTtl \/ \E b \in 1..(at - 1) : RouteEnds(b)

\* The screen agrees with the text report: the same hops under the same names with the same
\* figures, labels below an address that sent them, and the same addresses while the report's
\* limit hides none of them from either.  The Addresses tab has them all.
ScreenAgrees ==
    /\ LET own(rows) == [i \in DOMAIN rows |-> <<rows[i].hop, rows[i].name, rows[i].figures>>]
       IN  own(SelectSeq(Screen, LAMBDA row : ~row.extra))
             = own(SelectSeq(TextReport, LAMBDA row : ~row.extra))
    /\ \A i \in DOMAIN Screen :
         Screen[i].labels # <<>> => <<Screen[i].of, Screen[i].labels>> \in heard[Screen[i].hop]
    /\ \A at \in DisplayRange :
         LET screen == SelectSeq(Screen, LAMBDA row : row.hop = at)
             tab    == AddressTab(hops[at])
             listed == {tab[i].of : i \in DOMAIN tab}
             others == listed \ {hops[at].addr}
         IN  /\ Cardinality(others) < cfg.maxDisplayPath =>
                   [i \in DOMAIN screen |-> screen[i].of] = [i \in DOMAIN RowsOf(at) |-> RowsOf(at)[i].of]
             /\ Cardinality(listed) = Len(tab) /\ listed \subseteq Responders(at)
             /\ Cardinality(Responders(at)) <= MaxPath => listed = Responders(at)
             /\ hops[at].err = None =>
                   ToSet(screen[1].name) \subseteq ToSet(TitleLine(hops[at]))

\* The three formats name the same hops and print the same figures in columns
\* of the same order; every line of the CSV is as wide as its header.
FormatsAgree ==
    LET text == SelectSeq(TextReport, LAMBDA row : ~row.extra)
        csv  == SelectSeq(CsvRows, LAMBDA row : ~row.extra)
    IN  /\ Len(text) = Cardinality(DisplayRange)
        /\ Len(csv) = Len(text) /\ Len(Hubs) = Len(text)
        /\ \A i \in DOMAIN text :
             /\ text[i].hop = Hubs[i].count /\ text[i].name = Hubs[i].name
             /\ text[i].hop = csv[i].hop /\ text[i].name = csv[i].name
             /\ csv[i].cells = Hubs[i].asn \o text[i].figures
             /\ SelectSeq(csv[i].cells, LAMBDA v : v # None)
                  = SelectSeq(Hubs[i].asn, LAMBDA v : v # None)
                      \o [j \in DOMAIN Hubs[i].figures |-> Hubs[i].figures[j][2]]
        /\ \A i \in DOMAIN CsvRows : Len(CsvRows[i].cells) = Len(CsvHeader)
        /\ cfg.wide => [i \in DOMAIN CsvRows |-> CsvRows[i].of]
                         = [i \in DOMAIN TextReport |-> TextReport[i].of]

\* What is printed in the end, and was on the screen before, accounts for every hop and every
\* responder the session heard, once and where it belongs, the same in every format: though
\* a hop's address is the latest responder and its list keeps the first ones,
\* the due TTL hides the target from one and not from the other, and errors,
\* resets and changed TTLs came in between.
ReportShowsAll ==
    printed => /\ \A at \in DisplayRange : AddressesShown(at) /\ LabelsShown(at)
               /\ HopsShown
               /\ FormatsAgree
               /\ ScreenAgrees
=============================================================================
