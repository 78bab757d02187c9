------------------------------- MODULE HopViews --------------------------------
(***************************************************************************)
(* What the terminal shows of one hop's latest probes: the ring of           *)
(* crates/mtr-core/src/history.rs, and the views computed from it for every   *)
(* frame: the sparkline of the table (tui/render/sparkline.rs, the columns    *)
(* of table.rs) and the tabs Rtt (a chart with a row of loss marks) and Log   *)
(* of the detail pane (detail.rs).  The outcomes of probes are recorded in    *)
(* any order, late ones after their probe was taken for lost or has left the *)
(* ring.  Positions are character cells; the text in them, glyphs and colours *)
(* are left out, and so is the chart as ratatui draws it: the ASCII chart      *)
(* shows the same data.                                                      *)
(***************************************************************************)
EXTENDS Bounds, Sequences, SequencesExt, FiniteSets

CONSTANTS
    Instances,     \* see InstanceRecords
    NumWidth,      \* NUM_WIDTH: selection mark and hop number
    HostMin,       \* HOST_MIN
    SparkMin,      \* SPARK_MIN
    FixedColumns,  \* the widths of the Addresses tab but for IP and Name, with separators
    MinTextWidth,  \* MIN_TEXT_W
    MaxTime        \* of a round trip, in microseconds: in the statistics it is an i32

Buckets == 8  \* BUCKETS
Results == {"reply", "ttl-expired", "no-route-host"}
Times   == 0..MaxTime

\* Probes the ring keeps, results and round-trip times (microseconds) of answers, the times of
\* other hops, intervals without a probe, resets, widths of the terminal and lines of a pane's tab; widths
\* of the -o columns, the ipinfo columns, the hop's name and its addresses.
InstanceRecords ==
    [ capacity : Nat \ {0}, sends : Nat, results : SUBSET Results, rtts : SUBSET Times,
      others : SUBSET Times, waits : Nat,
      resets : Nat, widths : SUBSET Nat, height : Nat, stats : Nat, ipinfo : Nat, name : Nat,
      address : Nat, sparkline : BOOLEAN ]

ASSUME HopViewsAssumption ==
    /\ Instances \subseteq InstanceRecords
    /\ {NumWidth, HostMin, SparkMin, FixedColumns, MinTextWidth, MaxTime} \subseteq Nat

VARIABLES
    cfg,     \* the instance
    now,     \* in intervals
    resets,  \* so far
    hop,     \* xmit, returned and worst of its statistics, and its History: base and samples
    live,    \* probes whose outcome can still be recorded
    truth    \* GHOST: the outcome of every probe since the last reset

hopVars == <<cfg, now, resets, hop, live, truth>>

Outcome(kind, us, result) == [kind |-> kind, us |-> us, result |-> result]
Pending == Outcome("pending", 0, "none")
Lost    == Outcome("lost", 0, "none")

NewHop == [xmit |-> 0, returned |-> 0, worst |-> 0, base |-> 1, samples |-> <<>>]

HopInit ==
    /\ cfg \in Instances
    /\ now = 0 /\ resets = 0
    /\ hop = NewHop /\ live = {} /\ truth = <<>>

-----------------------------------------------------------------------------
(* history.rs *)

\* Mutant: the probe that leaves the ring does not take its number along.
PushKeepsBase(h, sent) ==
    LET seq  == h.xmit + 1
        full == Len(h.samples) = cfg.capacity
    IN  [h EXCEPT !.xmit    = seq,
                  !.base    = IF h.samples = <<>> THEN seq ELSE @,
                  !.samples = Append(IF full THEN Tail(@) ELSE @,
                                     [seq |-> seq, sent |-> sent, outcome |-> Pending])]

\* push_sent: the oldest probe leaves a full ring.
Push(h, sent) ==
    LET seq  == h.xmit + 1
        full == Len(h.samples) = cfg.capacity
    IN  [h EXCEPT !.xmit    = seq,
                  !.base    = IF h.samples = <<>> THEN seq ELSE IF full THEN @ + 1 ELSE @,
                  !.samples = Append(IF full THEN Tail(@) ELSE @,
                                     [seq |-> seq, sent |-> sent, outcome |-> Pending])]

\* record_outcome: ignored for a probe that has left.
Record(h, seq, outcome) ==
    LET i == seq - h.base + 1
    IN  IF i \in DOMAIN h.samples THEN [h EXCEPT !.samples[i].outcome = outcome] ELSE h

-----------------------------------------------------------------------------
(* What happens to the hop (hop.rs, and which probes engine.rs still accepts) *)

Known(seq, outcome) == truth' = [truth EXCEPT ![seq].outcome = outcome]

Send ==
    /\ hop.xmit < cfg.sends
    /\ now' = now + 1
    /\ hop' = Push(hop, now + 1)
    /\ live' = live \cup {hop.xmit + 1}
    /\ truth' = Append(truth, [sent |-> now + 1, outcome |-> Pending])
    /\ UNCHANGED <<cfg, resets>>

Reply(seq, us, result) ==
    LET outcome == Outcome("rtt", us, result)
        counted == [hop EXCEPT !.returned = @ + 1, !.worst = IF us > @ THEN us ELSE @]
    IN  /\ hop' = Record(counted, seq, outcome)
        /\ live' = live \ {seq}
        /\ Known(seq, outcome)
        /\ UNCHANGED <<cfg, now, resets>>

\* A timeout: the answer may still come.
NoReply(seq) ==
    /\ hop' = Record(hop, seq, Lost)
    /\ Known(seq, Lost)
    /\ UNCHANGED <<cfg, now, resets, live>>

SendFails(seq) ==
    /\ hop' = Record(hop, seq, Lost)
    /\ live' = live \ {seq}
    /\ Known(seq, Lost)
    /\ UNCHANGED <<cfg, now, resets>>

Reset ==
    /\ resets < cfg.resets /\ resets' = resets + 1
    /\ hop' = NewHop /\ live' = {} /\ truth' = <<>>
    /\ UNCHANGED <<cfg, now>>

\* Paused, or waiting for the probes of other hops.
Idle ==
    /\ now < hop.xmit + cfg.waits
    /\ now' = now + 1
    /\ UNCHANGED <<cfg, resets, hop, live, truth>>

HopNext ==
    \/ Send \/ Reset \/ Idle
    \/ \E seq \in live :
         \/ \E us \in cfg.rtts, result \in cfg.results : Reply(seq, us, result)
         \/ NoReply(seq)
         \/ SendFails(seq)

HopSpec == HopInit /\ [][HopNext]_hopVars

-----------------------------------------------------------------------------
(* Columns of the table (table.rs) *)

Minus(a, b)   == AtLeast(a - b, 0)  \* saturating_sub

Unknown == 3  \* the width of ???
LongestName == AtLeast(IF hop.returned = 0 THEN Unknown ELSE cfg.name, HostMin)

\* Mutant: the host column is not kept from taking the sparkline's room.
ColumnsGreedy(width) ==
    LET wanted == LongestName + cfg.ipinfo
        avail  == Minus(width, NumWidth + cfg.stats + 1)
        host   == AtMost(wanted, avail)
    IN  IF cfg.sparkline /\ avail >= HostMin + cfg.ipinfo + SparkMin
        THEN [host |-> host, spark |-> avail - host]
        ELSE [host |-> AtLeast(host, AtMost(HostMin, avail)), spark |-> 0]

\* columns: the host column has what it wants, the sparkline the rest, if there is room.
Columns(width) ==
    LET wanted == LongestName + cfg.ipinfo
        avail  == Minus(width, NumWidth + cfg.stats + 1)
        host   == AtMost(wanted, avail - SparkMin)
    IN  IF cfg.sparkline /\ avail >= HostMin + cfg.ipinfo + SparkMin
        THEN [host |-> host, spark |-> avail - host]
        ELSE [host |-> AtLeast(AtMost(wanted, avail), AtMost(HostMin, avail)), spark |-> 0]

-----------------------------------------------------------------------------
(* sparkline.rs *)

\* Scale::from_hops: over every time remembered on display, at this hop and the others.
Remembered ==
    {hop.samples[i].outcome.us : i \in {j \in DOMAIN hop.samples :
                                           hop.samples[j].outcome.kind = "rtt"}} \cup cfg.others

Scale ==
    IF Remembered = {} THEN [low |-> 0, high |-> 0]
    ELSE [low |-> Min(Remembered), high |-> Max(Remembered)]

\* Thresholds grow with the square of the bucket.
Bucket(us) ==
    LET scale == Scale
        within(i) == Buckets * Buckets * (us - scale.low)
                        <= (scale.high - scale.low) * (i + 1) * (i + 1)
    IN  IF \E i \in 0..(Buckets - 1) : within(i)
        THEN CHOOSE i \in 0..(Buckets - 1) : within(i) /\ \A j \in 0..(i - 1) : ~within(j)
        ELSE Buckets - 1

Blank == [kind |-> "blank"]

Cell(sample) ==
    IF sample.outcome.kind = "rtt"
    THEN [kind |-> "rtt", bucket |-> Bucket(sample.outcome.us), us |-> sample.outcome.us]
    ELSE [kind |-> sample.outcome.kind]

\* The newest n probes that are remembered.
Newest(n) ==
    SubSeq(hop.samples, Minus(Len(hop.samples), n) + 1, Len(hop.samples))

\* cells_for_hop: a hop that never answered is a blank row.
Cells(width) ==
    IF hop.returned = 0 THEN [i \in 1..width |-> Blank]
    ELSE LET newest == Newest(width)
         IN  [i \in 1..Minus(width, Len(newest)) |-> Blank]
                \o [i \in DOMAIN newest |-> Cell(newest[i])]

-----------------------------------------------------------------------------
(* The Rtt and Log tabs (detail.rs) *)

\* nice_ceiling, in milliseconds: one, two or five times a power of ten.
Powers   == {1, 10, 100, 1000, 10000, 100000, 1000000}
Ceilings == {m * power : m \in {1, 2, 5}, power \in Powers}
NiceCeiling(us) == Min({c \in Ceilings : (us + 999) \div 1000 <= c})

ASSUME CeilingsAssumption == \E c \in Ceilings : MaxTime \div 1000 < c

Digits(n) == Cardinality({power \in Powers : power <= n})

\* y_label_width: "100 ms" and the axis.
LabelWidth(ceiling) == Digits(ceiling) + 4

\* chart_points for a number of columns, two probes to a column, counted from 0.
ChartPoints(columns) ==
    LET window  == Newest(2 * columns)
        offset  == 2 * columns - Len(window)
        column(i) == (offset + i - 1) \div 2
        timed   == {i \in DOMAIN window : window[i].outcome.kind = "rtt"}
    IN  [ columns |-> columns,
          points  |-> {<<column(i), window[i].outcome.us>> : i \in timed},
          lost    |-> {column(i) : i \in {j \in DOMAIN window : window[j].outcome.kind = "lost"}},
          span    |-> offset + (IF window = <<>> THEN 0 ELSE now - window[1].sent),
          ceiling |-> NiceCeiling(Max({0} \cup {window[i].outcome.us : i \in timed})) ]

ChartColumns(width, label) == AtLeast(width - label, 1)

\* render_rtt: the labels of the worst time first, then those of the times in its window.
ChartData(width) ==
    LET label == LabelWidth(NiceCeiling(hop.worst))
        first == ChartPoints(ChartColumns(width, label))
    IN  IF LabelWidth(first.ceiling) = label THEN first
        ELSE ChartPoints(ChartColumns(width, LabelWidth(first.ceiling)))

LossMarks(width, data) ==
    LET label == LabelWidth(data.ceiling)
    IN  {label + column : column \in data.lost} \cap 0..(width - 1)

\* The lines of the plot, without the loss marks, the axis and its labels.
PlotHeight == Minus(cfg.height, 3)

Rounded(a, b) == (2 * a + b) \div (2 * b)

\* From the top line; a time of `us` under a ceiling.
PlotRow(us, ceiling) == PlotHeight - 1 - Rounded(us * (PlotHeight - 1), 1000 * ceiling)

\* render_rtt_ascii.
Stars(width, data) ==
    LET label   == LabelWidth(data.ceiling)
        columns == AtMost(data.columns, width - label)
    IN  IF PlotHeight = 0 \/ width <= label THEN {}
        ELSE {<<label + p[1], PlotRow(p[2], data.ceiling)>> :
                 p \in {q \in data.points : q[1] < columns}}

\* render_log: the newest first.
Log ==
    LET newest == Newest(cfg.height)
    IN  [i \in DOMAIN newest |->
            LET e == newest[Len(newest) + 1 - i]
            IN  [ seq |-> e.seq, age |-> now - e.sent, us |-> e.outcome.us,
                  shown |-> CASE e.outcome.kind = "rtt"     -> e.outcome.result
                              [] e.outcome.kind = "lost"    -> "no-reply"
                              [] e.outcome.kind = "pending" -> "pending" ]]

\* address_columns: the address takes what it needs, from three fifths to all but the least.
AddressColumns(width) ==
    LET rest == AtLeast(Minus(width, FixedColumns), 2 * MinTextWidth)
        hi   == rest - MinTextWidth
        lo   == AtMost((3 * rest + 4) \div 5, hi)
        ip   == AtMost(AtLeast(IF hop.returned = 0 THEN 0 ELSE cfg.address, lo), hi)
    IN  [ip |-> ip, name |-> rest - ip]

-----------------------------------------------------------------------------
(* Correctness *)

\* The probes the ring must still know.
Kept == AtLeast(hop.xmit - cfg.capacity + 1, 1)..hop.xmit
Age(seq) == hop.xmit - seq
Is(seq, kind) == truth[seq].outcome.kind = kind

\* The cell for each of the newest probes stands where its age puts it, and tells its outcome.
SparklineTrue(spark) ==
    LET cells == Cells(spark)
        seq(i) == hop.xmit - (spark - i)
    IN  hop.returned > 0 =>
            \A i \in 1..spark :
                IF seq(i) \in Kept
                THEN /\ Is(seq(i), cells[i].kind)
                     /\ cells[i].kind = "rtt" => cells[i].us = truth[seq(i)].outcome.us
                ELSE cells[i] = Blank

\* A row for each of the newest probes, in order, with its outcome and how long ago it left.
LogTrue ==
    LET log == Log
    IN  /\ Len(log) = AtMost(Cardinality(Kept), cfg.height)
        /\ \A i \in DOMAIN log :
             LET seq == hop.xmit + 1 - i
             IN  /\ log[i].seq = seq /\ log[i].us = truth[seq].outcome.us
                 /\ log[i].age = now - truth[seq].sent
                 /\ log[i].shown = "no-reply" <=> Is(seq, "lost")
                 /\ log[i].shown = "pending" <=> Is(seq, "pending")

\* The label column of the chart is as wide as the columns were computed for.  It is not when
\* the times in the window have a narrower label than the worst one, the column this frees
\* takes in an older time, and that one needs the wider label again: render_rtt looks twice only.
LabelSettles(width, data) == data.columns = ChartColumns(width, LabelWidth(data.ceiling))

\* Stars and loss marks stand in the column of their probe's age, the newest probe's being the
\* last of the pane, and the left label is the age of the whole window, though the number of
\* columns depends on the times in them.
ChartTrue(width) ==
    LET data   == ChartData(width)
        shown  == {seq \in Kept : Age(seq) < 2 * data.columns}
        column(seq) == width - 1 - (Age(seq) \div 2)
    IN  LabelSettles(width, data) /\ width > LabelWidth(data.ceiling) =>
          /\ LossMarks(width, data) = {column(seq) : seq \in {s \in shown : Is(s, "lost")}}
          /\ PlotHeight > 0 =>
               Stars(width, data) = {<<column(seq), PlotRow(truth[seq].outcome.us, data.ceiling)>> :
                                  seq \in {s \in shown : Is(s, "rtt")}}
          /\ hop.xmit > 0 => data.span >= 2 * data.columns - 1
          /\ cfg.waits = 0 /\ hop.xmit > 0 => data.span = 2 * data.columns - 1

\* Table, log and chart tell the same of the same probes, whatever the order in which their
\* outcomes came in, after eviction, late answers and resets: though each finds its probes by
\* another position, from the end of a ring that no longer starts at the first.
ViewsTellTruth ==
    /\ LogTrue
    /\ \A width \in cfg.widths : SparklineTrue(Columns(width).spark) /\ ChartTrue(width)

\* A row of the table fills its line and no more, the sparkline has its least width or is not
\* there, and the host column is not squeezed out for it.
TableFits(width) ==
    LET table == Columns(width)
        used  == NumWidth + table.host + cfg.stats + (IF table.spark > 0 THEN 1 + table.spark ELSE 0)
    IN  /\ table.host >= 0
        /\ table.spark > 0 => table.spark >= SparkMin /\ used = width /\ table.host >= HostMin
        /\ width > NumWidth + cfg.stats => used <= width

\* Bars are in the order of the times they stand for, the least and the worst time on display
\* having the first and the last one; stars are in the plot, in this order, and on the right
\* side of the half label.
BarsInOrder ==
    /\ \A us, vs \in Remembered : us <= vs => Bucket(us) <= Bucket(vs)
    /\ Scale.low < Scale.high => Bucket(Scale.low) = 0 /\ Bucket(Scale.high) = Buckets - 1

StarsInOrder(data) ==
    LET ceiling == data.ceiling
        times   == {p[2] : p \in data.points}
    IN  PlotHeight > 0 => \A us, vs \in times :
            /\ PlotRow(us, ceiling) \in 0..(PlotHeight - 1)
            /\ us <= vs => PlotRow(us, ceiling) >= PlotRow(vs, ceiling)
            /\ 2 * us >= 1000 * ceiling => PlotRow(us, ceiling) <= PlotRow(500 * ceiling, ceiling)

\* At every width of the terminal, with every name, label and time, the parts of a line add up:
\* no part gets a negative width (the code's numbers are unsigned), none is drawn over another.
EverythingFits ==
    /\ BarsInOrder
    /\ \A width \in cfg.widths :
         LET data == ChartData(width)
             text == AddressColumns(width)
         IN  /\ TableFits(width)
             /\ text.ip >= MinTextWidth /\ text.name >= MinTextWidth
             /\ width >= FixedColumns + 2 * MinTextWidth =>
                  FixedColumns + text.ip + text.name = width
             /\ StarsInOrder(data)
             /\ \A star \in Stars(width, data) :
                  star[1] \in LabelWidth(data.ceiling)..(width - 1)
=============================================================================
