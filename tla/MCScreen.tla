-------------------------------- MODULE MCScreen -------------------------------
(***************************************************************************)
(* The loop of the terminal interface (Tui) and the views of a hop          *)
(* (HopViews) for TLC.  They share no state: a frame reads the ring of a    *)
(* hop and changes nothing of it.  So a behaviour is about one of them,     *)
(* while the other stays as it begins.                                      *)
(***************************************************************************)
EXTENDS Tui, HopViews

-----------------------------------------------------------------------------
(* Displays: nothing yet, and a path from the second hop on with a hop of more rows than
   the screen: two addresses, both with labels. *)

Plain == [addrs |-> <<0>>, primary |-> 1]
Silent == [addrs |-> <<>>, primary |-> 0]
Tall == [addrs |-> <<2, 1>>, primary |-> 2]

MCDisplays ==
    [ lo : {0}, hops : {<<>>}, mpls : BOOLEAN ]
        \cup [ lo : {1}, hops : {<<Silent, Tall, Plain>>}, mpls : BOOLEAN ]

MCPressed ==
    {"q", "o", "help", "pgdn", "pgup", "down", "up", "enter", "esc", "p", "e",
     "ctrl_l", "ctrl_c", "x"}

\* Rows are rows, and TLC has worked them out once before the first state.
Row == [hop : Nat, kind : {"hop", "mpls", "extra"}, addr : Nat]
ASSUME RowsOf \in [Displays -> Seq(Row)] /\ RowStartsOf \in [Displays -> Seq(Nat)]

-----------------------------------------------------------------------------
(* Instances of the views *)

Base == [ capacity |-> 4, sends |-> 5, results |-> {"reply"}, rtts |-> {900, 150000},
          others |-> {}, waits |-> 0,
          resets |-> 0, widths |-> {7, 8, 9, 10}, height |-> 6, stats |-> 1, ipinfo |-> 0,
          name |-> 3, address |-> 4, sparkline |-> TRUE ]

\* A ring longer than some windows of the chart: labels of three widths.
Charts == [Base EXCEPT !.capacity = 6, !.sends = 6, !.rtts = {900, 150000}, !.height = 3]

\* More probes than the ring keeps, times in between.
Evicting == [Base EXCEPT !.capacity = 2, !.rtts = {900, 40000, 150000}]

\* The clock runs on without probes, and the hop is reset.
Restarting == [Base EXCEPT !.capacity = 2, !.sends = 3, !.waits = 2, !.resets = 1,
                            !.results = Results]

\* Terminals of all widths, a name and an address that do not fit in some, other hops.
Narrow == [Base EXCEPT !.capacity = 3, !.sends = 3,
                       !.widths = {0, 6, 11, 12, 13, 14, 15, 24}, !.others = {500, 70000},
                       !.stats = 4, !.ipinfo = 2, !.name = 6, !.address = 9]

MCInstances ==
    { Charts, Evicting, Restarting, Narrow, [Narrow EXCEPT !.name = 2, !.address = 2, !.ipinfo = 0],
      [Narrow EXCEPT !.sparkline = FALSE] }

-----------------------------------------------------------------------------
VARIABLE subject   \* what this behaviour is about: the "loop" or the "views"

LoopStands ==
    /\ display = [lo |-> 0, hops |-> <<>>, mpls |-> FALSE]
    /\ height = 3 /\ ui = NewView(FALSE)

ScreenInit ==
    /\ Init /\ HopInit
    /\ \/ subject = "loop" /\ cfg = Charts
       \/ subject = "views" /\ LoopStands

ScreenNext ==
    /\ \/ subject = "loop" /\ Next /\ UNCHANGED hopVars
       \/ subject = "views" /\ HopNext /\ UNCHANGED vars
    /\ UNCHANGED subject

\* The fairness is the loop's.  Of the views only safety is stated.
ScreenSpec == ScreenInit /\ [][ScreenNext]_<<vars, hopVars, subject>> /\ Fairness
=============================================================================
