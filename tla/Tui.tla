---------------------------------- MODULE Tui ----------------------------------
(***************************************************************************)
(* The terminal interface: keys and prompts (crates/mtr/src/tui/input.rs),   *)
(* the view state and its reducer (state.rs), the event loop with its        *)
(* throttled drawing (run.rs) and what a frame shows (render).  The engine   *)
(* behind it changes the hops on display at any time; Engine says how.       *)
(*                                                                         *)
(* A hop is shown by several rows of the table: its own, those of the MPLS   *)
(* labels of its address, and those of its other addresses with theirs.      *)
(* Widths, colours and wording are left out, the text of a prompt is its     *)
(* length.                                                                 *)
(***************************************************************************)
EXTENDS Bounds, Sequences, SequencesExt

CONSTANTS
    None,
    Displays,        \* what the engine may show: [lo, hops, mpls]
    Heights,         \* heights of the terminal
    MinHeight,       \* MIN_HEIGHT: below, only a message is drawn
    PaneMinHeight,   \* PANE_MIN_HEIGHT
    DetailRows,      \* DETAIL_ROWS: the lines of the detail pane
    ScrollStep,      \* SCROLL_STEP
    MaxDisplayPath,  \* max_display_path: addresses shown of one hop
    MaxPromptLen,    \* MAX_PROMPT_LEN
    Pressed          \* the keys the user presses

ASSUME TuiAssumption ==
    /\ \A height \in Heights : height \in Nat /\ height >= 3
    /\ \A d \in Displays : [d EXCEPT !.mpls = ~d.mpls] \in Displays
    /\ \A d \in Displays : /\ d.lo \in Nat /\ d.mpls \in BOOLEAN
                           /\ d.hops \in Seq([addrs : Seq(Nat), primary : Nat])
                           /\ \A n \in DOMAIN d.hops : d.hops[n].primary <= Len(d.hops[n].addrs)
    /\ MinHeight \in Nat /\ MinHeight >= 4
    /\ DetailRows \in Nat /\ PaneMinHeight \in Nat /\ PaneMinHeight >= DetailRows + 4
    /\ ScrollStep \in Nat \ {0} /\ MaxDisplayPath \in Nat \ {0} /\ MaxPromptLen \in Nat

VARIABLES
    display,   \* engine: first hop on display, its hops, and whether labels are shown
    height,    \* of the terminal
    resized,   \* a Resize event is on its way
    ui,        \* UiState
    dirty,     \* something may have changed since the last frame
    gap,       \* FRAME_MIN_GAP has passed since the last frame
    at         \* the loop: "top" before drawing, "select", or how it ended

vars == <<display, height, resized, ui, dirty, gap, at>>

-----------------------------------------------------------------------------
(* Rows of the table (render/table.rs) and the bounds of the view (render/mod.rs) *)

\* A hop is [addrs, primary]: how many labels each of its addresses has, and which address is
\* the hop's own, 0 without an answer.
LabelRows(n, shown, addr, mpls) ==
    IF mpls /\ addr # 0
    THEN [i \in 1..shown.addrs[addr] |-> [hop |-> n, kind |-> "mpls", addr |-> addr]]
    ELSE <<>>

\* The extra addresses of a hop, MaxDisplayPath with its own, which is skipped.
Extras(shown) ==
    LET others == Len(shown.addrs) - (IF shown.primary = 0 THEN 0 ELSE 1)
    IN [i \in 1..AtMost(others, MaxDisplayPath - 1) |->
          IF shown.primary # 0 /\ i >= shown.primary THEN i + 1 ELSE i]

HopRows(n, shown, mpls) ==
    << [hop |-> n, kind |-> "hop", addr |-> 0] >>
        \o LabelRows(n, shown, shown.primary, mpls)
        \o FlattenSeq([i \in DOMAIN Extras(shown) |->
              << [hop |-> n, kind |-> "extra", addr |-> Extras(shown)[i]] >>
                  \o LabelRows(n, shown, Extras(shown)[i], mpls)])

RowsOf ==
    [d \in Displays |->
        FlattenSeq([n \in DOMAIN d.hops |-> HopRows(d.lo + n - 1, d.hops[n], d.mpls)])]

\* How many rows stand before the first one of a hop; all of them without one.
Position(rows, n) ==
    LET its == {i \in DOMAIN rows : rows[i].hop = n}
    IN IF its = {} THEN Len(rows) ELSE (CHOOSE i \in its : \A j \in its : i <= j) - 1

\* Where the rows of each hop begin, and where the last one ends.
RowStartsOf ==
    [d \in Displays |-> [i \in 1..(Len(d.hops) + 1) |-> Position(RowsOf[d], d.lo + i - 1)]]

Rows == RowsOf[display]
RowStarts == RowStartsOf[display]

\* display_range
Lo == display.lo
Hi == display.lo + Len(display.hops)

\* Past the end of the range, the number of rows.
RowStart(i) == IF i \in DOMAIN RowStarts THEN RowStarts[i] ELSE Len(Rows)
FirstRow(n) == RowStart((IF n < Lo THEN Lo ELSE n) - Lo + 1)
EndRow(n) == RowStart((IF n < Lo THEN Lo ELSE n) - Lo + 2)

\* hop_at_row: the last hop for a row past the end.
HopAtRow(row) ==
    IF row < Len(Rows) THEN Rows[row + 1].hop
    ELSE IF Hi > Lo THEN Hi - 1 ELSE Lo

PaneShown(view) == view.paneOpen /\ height >= PaneMinHeight

\* layout, table_capacity: without header, footer, column titles and the pane.
Capacity(view) == height - 3 - (IF PaneShown(view) THEN DetailRows ELSE 0)
MaxScroll(visible) == AtLeast(Len(Rows) - visible, 0)

-----------------------------------------------------------------------------
(* The view state (state.rs) *)

Tabs == <<"Rtt", "Addresses", "Log">>
NextTab(tab) == CASE tab = "Rtt" -> "Addresses" [] tab = "Addresses" -> "Log" [] OTHER -> "Rtt"

\* with_view, with the pane as the configuration file says; the Recent column, a matter of width,
\* is left out.
NewView(paneOpen) ==
    [ selected |-> 0, scroll |-> 0, paneOpen |-> paneOpen, tab |-> "Rtt",
      help |-> FALSE, prompt |-> None, status |-> FALSE, quit |-> None ]

\* Mutant: a selection below the screen does not bring the view down.
ClampUpward(view, visible) ==
    LET selected == IF Hi > Lo THEN AtMost(AtLeast(view.selected, Lo), Hi - 1) ELSE Lo
        rows     == AtLeast(visible, 1)
        scroll   == AtMost(view.scroll, MaxScroll(rows))
    IN [view EXCEPT !.selected = selected,
          !.scroll = IF Hi <= Lo THEN 0
                     ELSE AtMost(IF EndRow(selected) <= scroll THEN FirstRow(selected) ELSE scroll,
                                 MaxScroll(rows))]

\* clamp: the selection stays in the range, and one of its rows on the screen.
Clamp(view, visible) ==
    LET selected == IF Hi > Lo THEN AtMost(AtLeast(view.selected, Lo), Hi - 1) ELSE Lo
        rows     == AtLeast(visible, 1)
        scroll   == AtMost(view.scroll, MaxScroll(rows))
    IN [view EXCEPT !.selected = selected,
          !.scroll = IF Hi <= Lo THEN 0
                     ELSE AtMost(IF FirstRow(selected) >= scroll + rows
                                 THEN AtLeast(FirstRow(selected) + 1 - rows, 0)
                                 ELSE IF EndRow(selected) <= scroll THEN FirstRow(selected)
                                 ELSE scroll,
                                 MaxScroll(rows))]

\* Mutant: scrolling leaves the selection behind.
ScrolledAlone(view, down, visible) ==
    LET rows == AtLeast(visible, 1) IN
        IF down THEN [view EXCEPT !.scroll = AtMost(view.scroll + ScrollStep, MaxScroll(rows))]
        ELSE [view EXCEPT !.scroll = AtLeast(view.scroll - ScrollStep, 0)]

\* ScrollDown and ScrollUp take the selection along.
Scrolled(view, down, visible) ==
    LET rows == AtLeast(visible, 1)
        to   == IF down THEN AtMost(view.scroll + ScrollStep, MaxScroll(rows))
                ELSE AtLeast(view.scroll - ScrollStep, 0)
    IN [view EXCEPT !.scroll = to,
          !.selected = IF down THEN AtLeast(view.selected, HopAtRow(to))
                       ELSE AtMost(view.selected, HopAtRow(to + rows - 1))]

\* apply without its final clamp; what a submitted prompt becomes is left to the loop.
Reduced(view, action) ==
    CASE action = "SelectUp"   -> [view EXCEPT !.selected = AtLeast(view.selected - 1, 0)]
      [] action = "SelectDown" -> [view EXCEPT !.selected = view.selected + 1]
      [] action = "ScrollDown" -> Scrolled(view, TRUE, Capacity(view))
      [] action = "ScrollUp"   -> Scrolled(view, FALSE, Capacity(view))
      [] action = "TogglePane" -> [view EXCEPT !.paneOpen = ~view.paneOpen]
      [] action = "NextTab"    -> [view EXCEPT !.tab = NextTab(view.tab)]
      [] action = "ToggleHelp" -> [view EXCEPT !.help = ~view.help]
      [] action = "CloseOverlay" -> [view EXCEPT !.help = FALSE, !.prompt = None]
      [] action \in {"Fields", "MaxTtl"} ->
            [view EXCEPT !.help = FALSE, !.prompt = [kind |-> action, len |-> 0]]
      [] action = "PromptChar" ->
            [view EXCEPT !.prompt.len = AtMost(view.prompt.len + 1, MaxPromptLen)]
      [] action = "PromptBackspace" ->
            [view EXCEPT !.prompt.len = AtLeast(view.prompt.len - 1, 0)]
      [] action = "PromptCancel" -> [view EXCEPT !.prompt = None]
      [] action = "Redraw"     -> view  \* the flag has the terminal forget what it shows
      [] action \in {"Quit", "CtrlC"} -> [view EXCEPT !.quit = action]

\* apply.  The bounds are those before the action, the size of the pane included.  Submitting
\* returns before the clamp.
Apply(view, action) ==
    IF action = "PromptSubmit" THEN [view EXCEPT !.prompt = None]
    ELSE Clamp(Reduced(view, action), Capacity(view))

-----------------------------------------------------------------------------
(* Keys (input.rs) *)

\* The keys that differ in effect; "p" stands for the engine's other switches, "m" and "o" for
\* the prompts, and what a letter does is a table.
PlainKeys ==
    [ q |-> "Quit", m |-> "MaxTtl", o |-> "Fields", help |-> "ToggleHelp",
      pgdn |-> "ScrollDown", pgup |-> "ScrollUp", down |-> "SelectDown", up |-> "SelectUp",
      tab |-> "NextTab", enter |-> "TogglePane",
      esc |-> "CloseOverlay", p |-> "Pause", e |-> "ToggleMpls" ]
EngineActions == {"Pause", "ToggleMpls"}
CtrlKeys == [ ctrl_d |-> "Quit", ctrl_s |-> "Pause", ctrl_l |-> "Redraw" ]
Keys == DOMAIN PlainKeys \cup DOMAIN CtrlKeys \cup {"ctrl_c", "backspace", "x"}

\* Only Ctrl-C gets past a prompt; help closes with any key, and q still quits.
MapKey(key, view) ==
    IF key = "ctrl_c" THEN "CtrlC"
    ELSE IF view.prompt # None
    THEN CASE key = "enter"     -> "PromptSubmit"
           [] key = "esc"       -> "PromptCancel"
           [] key = "backspace" -> "PromptBackspace"
           [] key \in {"q", "m", "o", "p", "e", "x"} ->
                  IF view.prompt.kind = "Fields" /\ key = "x" THEN None ELSE "PromptChar"
           [] OTHER -> None
    ELSE IF view.help THEN IF key = "q" THEN "Quit" ELSE "CloseOverlay"
    ELSE IF key \in DOMAIN CtrlKeys THEN CtrlKeys[key]
    ELSE IF key \in DOMAIN PlainKeys THEN PlainKeys[key] ELSE None

-----------------------------------------------------------------------------
(* What a frame shows (render): the rows in view, the hop marked, pane and footer *)

TooSmall == "too small"
Footer(view) ==
    IF view.prompt # None THEN view.prompt.kind ELSE IF view.status THEN "status" ELSE "hints"

InView(view) == SubSeq(Rows, view.scroll + 1, AtMost(view.scroll + Capacity(view), Len(Rows)))

\* The pane on the hop selected, before any reply on none.
Pane(view) ==
    IF ~PaneShown(view) THEN None
    ELSE IF Lo <= view.selected /\ view.selected < Hi THEN view.tab ELSE "waiting"

Frame(view) ==
    IF height < MinHeight THEN [message |-> TooSmall]
    ELSE [ rows |-> InView(view), marked |-> view.selected, pane |-> Pane(view),
           footer |-> Footer(view), help |-> view.help ]

Clamped == Clamp(ui, Capacity(ui))
Picture == Frame(Clamped)

-----------------------------------------------------------------------------
(* The loop (run.rs) *)

Running == at \in {"top", "select"}

Init ==
    /\ display \in Displays /\ height \in Heights /\ resized = FALSE
    /\ \E paneOpen \in BOOLEAN : ui = NewView(paneOpen)
    /\ dirty = TRUE /\ gap = TRUE /\ at = "top"

\* A frame, at most one in FRAME_MIN_GAP.
Draw ==
    /\ at = "top" /\ dirty /\ gap
    /\ ui' = Clamped
    /\ dirty' = FALSE /\ gap' = FALSE /\ at' = "select"
    /\ UNCHANGED <<display, height, resized>>

Wait ==
    /\ at = "top" /\ ~(dirty /\ gap)
    /\ at' = "select"
    /\ UNCHANGED <<display, height, resized, ui, dirty, gap>>

\* The end of the loop's body.
Again(view) ==
    /\ ui' = view
    /\ at' = CASE view.quit = "Quit" -> "quit" [] view.quit = "CtrlC" -> "interrupted"
                [] OTHER -> "top"

\* The engine's step changes what is on display, or was the last.
Finished == at' = "quit" /\ UNCHANGED <<display, height, resized, ui, dirty, gap>>

\* Mutant: the pause between frames is counted from the last event.
WakeDebounced ==
    /\ at = "select"
    /\ display' \in Displays /\ dirty' = TRUE /\ gap' = FALSE /\ Again(ui)
    /\ UNCHANGED <<height, resized>>

Wake ==
    /\ at = "select"
    /\ \/ Finished
       \/ /\ display' \in Displays /\ dirty' = TRUE /\ Again(ui)
          /\ UNCHANGED <<height, resized, gap>>

\* Pause, and the submitted prompts, may change what is on display; ToggleMpls shows or hides
\* labels.
EngineDoes(action) ==
    IF action = "ToggleMpls" THEN display' = [display EXCEPT !.mpls = ~display.mpls]
    ELSE display' \in Displays

EngineKey(key) ==
    /\ MapKey(key, ui) \in EngineActions
    /\ \/ Finished
       \/ /\ EngineDoes(MapKey(key, ui)) /\ dirty' = TRUE /\ UNCHANGED <<height, resized, gap>>
          /\ Again([ui EXCEPT !.status = TRUE])

\* An empty line is no value; whether another is depends on the text.
Submit(key) ==
    /\ MapKey(key, ui) = "PromptSubmit"
    /\ \/ Finished /\ ui.prompt.len > 0
       \/ /\ ui.prompt.len > 0
          /\ display' \in Displays /\ Again(Apply(ui, "PromptSubmit"))
          /\ dirty' = TRUE /\ UNCHANGED <<height, resized, gap>>
       \/ /\ Again([Apply(ui, "PromptSubmit") EXCEPT !.status = TRUE])
          /\ dirty' = TRUE /\ UNCHANGED <<display, height, resized, gap>>

UiKey(key) ==
    /\ MapKey(key, ui) \notin EngineActions \cup {"PromptSubmit"}
    /\ Again(IF MapKey(key, ui) = None THEN ui ELSE Apply(ui, MapKey(key, ui)))
    /\ dirty' = TRUE
    /\ UNCHANGED <<display, height, resized, gap>>

Key(key) == at = "select" /\ (EngineKey(key) \/ Submit(key) \/ UiKey(key))

\* The size is read when it is needed; its event comes through the stream.
Resize ==
    /\ at = "select" /\ resized
    /\ resized' = FALSE /\ dirty' = TRUE /\ Again(ui)
    /\ UNCHANGED <<display, height, gap>>

EndOfKeys ==
    /\ at = "select"
    /\ Again(Apply(ui, "Quit"))
    /\ UNCHANGED <<display, height, resized, dirty, gap>>

\* Mutant: a status goes away without a frame.
ClockUnmarked ==
    /\ at = "select"
    /\ \E status \in {ui.status, FALSE} : Again([ui EXCEPT !.status = status])
    /\ UNCHANGED <<display, height, resized, dirty, gap>>

Clock ==
    /\ at = "select"
    /\ \E status \in {ui.status, FALSE} : Again([ui EXCEPT !.status = status])
    /\ dirty' = TRUE
    /\ UNCHANGED <<display, height, resized, gap>>

RenderDue ==
    /\ at = "select" /\ dirty /\ gap
    /\ Again(ui)
    /\ UNCHANGED <<display, height, resized, dirty, gap>>

\* Ctrl-C as a signal, and an error of the terminal or of a step.
Signal ==
    /\ at = "select" /\ at' = "interrupted"
    /\ UNCHANGED <<display, height, resized, ui, dirty, gap>>
Fails ==
    /\ Running /\ at' = "error"
    /\ UNCHANGED <<display, height, resized, ui, dirty, gap>>

-----------------------------------------------------------------------------
(* Time and the terminal *)

FrameGap ==
    /\ Running /\ ~gap
    /\ gap' = TRUE
    /\ UNCHANGED <<display, height, resized, ui, dirty, at>>

WindowChanges ==
    /\ Running /\ ~resized
    /\ height' \in Heights \ {height}
    /\ resized' = TRUE
    /\ UNCHANGED <<display, ui, dirty, gap, at>>

Branch ==
    \/ Wake \/ Resize \/ EndOfKeys \/ Clock \/ RenderDue \/ Signal
    \/ \E key \in Pressed : Key(key)

Next == Draw \/ Wait \/ Branch \/ Fails \/ FrameGap \/ WindowChanges

\* The loop goes on and time passes.
Fairness == WF_vars(Draw) /\ WF_vars(Wait) /\ WF_vars(RenderDue) /\ WF_vars(FrameGap)

Spec == Init /\ [][Next]_vars /\ Fairness

-----------------------------------------------------------------------------
(* Properties *)

\* Whatever the engine, the terminal and the user do, the next frame marks a hop with a row in
\* view and leaves no line empty that a row could fill (clamp, "such that the selected hop is
\* on screen").
FrameShowsSelection ==
    Hi > Lo /\ height >= MinHeight =>
        LET inView == {Picture.rows[i].hop : i \in DOMAIN Picture.rows} IN
            /\ Picture.marked \in inView
            /\ Len(Picture.rows) = AtMost(Capacity(ui), Len(Rows))

\* Whatever changes what is shown, a reply, a key, the clock, leaves a mark that has the screen
\* drawn again, if only by the event of a resize.
ChangesAreMarked ==
    [][Running' /\ <<display, height, ui>>' # <<display, height, ui>> =>
        dirty' \/ resized' \/ (UNCHANGED <<display, height>> /\ ui' = Clamped)]_vars

\* The page keys move the view, also past a hop with more rows than the screen: the selection
\* that must stay in view never pulls it back.
ScrollingMoves ==
    LET down == Apply(ui, "ScrollDown")
        up   == Apply(ui, "ScrollUp")
    IN /\ down.scroll > ui.scroll \/ down.scroll = MaxScroll(AtLeast(Capacity(ui), 1))
       /\ up.scroll < ui.scroll \/ ui.scroll = 0

\* However fast replies and keys come, the screen catches up with them.
FrameCatchesUp == dirty ~> ~dirty \/ ~Running
=============================================================================
