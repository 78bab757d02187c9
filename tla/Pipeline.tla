------------------------------- MODULE Pipeline -------------------------------
(***************************************************************************)
(* The path of a probe between the driver and the helper: the driver's      *)
(* select loop (crates/mtr/src/driver.rs, tui/run.rs), a bounded request    *)
(* channel, the writer task, the helper's stdin, the helper, its stdout,    *)
(* the reader task and a bounded event channel (helper.rs).  Every stage    *)
(* waits for room in the next one, and the driver takes no event while it   *)
(* waits for room in the request channel.                                   *)
(*                                                                          *)
(* Requests are counted, not named: which probe is answered is the subject  *)
(* of Engine and PacketHelper.  Lines differ in what the client does with   *)
(* them: a response the engine handles, one of the fatal kinds, or a line   *)
(* that does not parse.                                                     *)
(***************************************************************************)
EXTENDS Naturals, Sequences

CONSTANTS
    RequestCap,  \* capacity of the request channel (256)
    CommandCap,  \* requests that fit the pipe to the helper's stdin
    ReplyCap,    \* lines that fit the pipe from the helper's stdout
    EventCap,    \* capacity of the event channel (1024)
    TableCap     \* probes the helper can have outstanding (MAX_PROBES)

ASSUME PipelineAssumption ==
    /\ RequestCap \in Nat \ {0} /\ EventCap \in Nat \ {0}
    /\ CommandCap \in Nat \ {0} /\ ReplyCap \in Nat \ {0}
    /\ TableCap \in Nat

\* What the path holds when it is full: both channels, both pipes, and one probe in the hands
\* of the driver, the writer, the helper and the reader each.
Capacity == RequestCap + CommandCap + ReplyCap + EventCap + 4

Lines    == {"reply", "fatal", "garbage"}
Outcomes == {"finished", "interrupted", "fatal_reply", "helper_exit", "pipe_write"}

VARIABLES
    driver,     \* "select", "send" or "lookup" (a step that awaits room), "ended"
    outcome,    \* how the session ended
    engine,     \* "probing", "paused", "finished"
    deadline,   \* Driver::deadline is set
    looking,    \* a lookup will be answered
    signal,     \* Ctrl-C was pressed
    requests,   \* length of the request channel
    writer,     \* "idle", "writing" (it holds a request), "gone"
    commands,   \* requests in the stdin pipe
    helper,     \* "alive", "dead"
    working,    \* probes outstanding in the helper
    writing,    \* the line the helper is writing, if any
    replies,    \* the stdout pipe
    reader,     \* "reading", "delivering", "gone"
    delivery,   \* the event the reader awaits room for, if any
    events,     \* the event channel
    owed        \* probes sent and not yet disposed of (history)

driverVars == <<driver, outcome, engine, deadline, looking, signal>>
helperVars == <<helper, working, writing>>
readerVars == <<reader, delivery>>
vars == <<driverVars, requests, writer, commands, helperVars, replies, readerVars, events, owed>>

Init ==
    /\ driver = "select" /\ outcome = "none"
    /\ engine = "probing" /\ deadline = TRUE
    /\ looking = FALSE /\ signal = FALSE
    /\ requests = 0 /\ writer = "idle" /\ commands = 0
    /\ helper = "alive" /\ working = 0 /\ writing = <<>>
    /\ replies = <<>> /\ reader = "reading" /\ delivery = <<>> /\ events = <<>>
    /\ owed = 0

-----------------------------------------------------------------------------
(* The driver *)

\* Mutant: a wake that did not come from the engine clears the deadline, too.
DeadlineAlwaysAsked(current, state, fromEngine) == fromEngine /\ state = "probing"

\* next_deadline with Engine::next_wake: the engine names its next wake unless it is
\* paused or finished; a lookup does not ask it.
NextDeadline(current, state, fromEngine) ==
    IF fromEngine THEN state = "probing" ELSE current

\* The session is over: both channels are dropped and the child is killed.
End(how) ==
    /\ driver' = "ended" /\ outcome' = how
    /\ helper' = "dead"

Selecting == driver = "select"

\* A tick that sends a probe, however many are unanswered; the step then awaits room in the
\* request channel.  (One that sends none, early or for a hop that --cache skips, changes
\* nothing here.)
TickProbe ==
    /\ Selecting /\ deadline /\ engine = "probing"
    /\ driver' = "send" /\ owed' = owed + 1
    /\ deadline' = NextDeadline(deadline, engine, TRUE)
    /\ UNCHANGED <<outcome, engine, looking, signal, requests, writer, commands, helperVars,
                   replies, readerVars, events>>

\* The tick at which the grace period is over: Command::Finished.
TickFinish ==
    /\ Selecting /\ deadline /\ engine = "probing" /\ engine' = "finished"
    /\ deadline' = NextDeadline(deadline, "finished", TRUE)
    /\ End("finished")
    /\ UNCHANGED <<looking, signal, requests, writer, commands, working, writing,
                   replies, readerVars, events, owed>>

SendProbe ==
    /\ driver = "send" /\ writer # "gone" /\ requests < RequestCap
    /\ requests' = requests + 1 /\ driver' = "select"
    /\ UNCHANGED <<outcome, engine, deadline, looking, signal, writer, commands, helperVars,
                   replies, readerVars, events, owed>>

\* The writer has dropped the channel: "command pipe write failure".
SendFails ==
    /\ driver = "send" /\ writer = "gone"
    /\ End("pipe_write")
    /\ UNCHANGED <<engine, deadline, looking, signal, requests, writer, commands, working,
                   writing, replies, readerVars, events, owed>>

TakeEvent == Selecting /\ events # <<>> /\ events' = Tail(events)

\* A response for the engine: at an address that is new the step goes on to a lookup.
OnReply ==
    /\ TakeEvent /\ Head(events) = "reply" /\ owed' = owed - 1
    /\ deadline' = NextDeadline(deadline, engine, TRUE)
    /\ driver' \in {"select", "lookup"}
    /\ UNCHANGED <<outcome, engine, looking, signal, requests, writer, commands, helperVars,
                   replies, readerVars>>

\* fatal_message: a response that ends the session.
OnFatal ==
    /\ TakeEvent /\ Head(events) = "fatal" /\ owed' = owed - 1
    /\ End("fatal_reply")
    /\ UNCHANGED <<engine, deadline, looking, signal, requests, writer, commands, working,
                   writing, replies, readerVars>>

OnExited ==
    /\ TakeEvent /\ Head(events) = "exited"
    /\ End("helper_exit")
    /\ UNCHANGED <<engine, deadline, looking, signal, requests, writer, commands, working,
                   writing, replies, readerVars, owed>>

\* request_lookups got its request through (Lookups!StepProceeds).
LookupSent ==
    /\ driver = "lookup" /\ driver' = "select" /\ looking' = TRUE
    /\ UNCHANGED <<outcome, engine, deadline, signal, requests, writer, commands, helperVars,
                   replies, readerVars, events, owed>>

OnLookup ==
    /\ Selecting /\ looking /\ looking' = FALSE
    /\ deadline' = NextDeadline(deadline, engine, FALSE)
    /\ UNCHANGED <<driver, outcome, engine, signal, requests, writer, commands, helperVars,
                   replies, readerVars, events, owed>>

\* The keys that pause and resume; every action asks the engine for its next wake.
OnAction ==
    /\ Selecting
    /\ \E state \in {"probing", "paused"} \ {engine} :
        /\ engine' = state
        /\ deadline' = NextDeadline(deadline, state, TRUE)
    /\ UNCHANGED <<driver, outcome, looking, signal, requests, writer, commands, helperVars,
                   replies, readerVars, events, owed>>

Signal ==
    /\ driver # "ended" /\ ~signal /\ signal' = TRUE
    /\ UNCHANGED <<driver, outcome, engine, deadline, looking, requests, writer, commands,
                   helperVars, replies, readerVars, events, owed>>

\* ctrl_c is a branch of select!, too: a step in progress is not interrupted.
OnSignal ==
    /\ Selecting /\ signal
    /\ End("interrupted")
    /\ UNCHANGED <<engine, deadline, looking, signal, requests, writer, commands, working,
                   writing, replies, readerVars, events, owed>>

-----------------------------------------------------------------------------
(* The writer and the reader task *)

WriterTakes ==
    /\ writer = "idle" /\ requests > 0
    /\ writer' = "writing" /\ requests' = requests - 1
    /\ UNCHANGED <<driverVars, commands, helperVars, replies, readerVars, events, owed>>

WriterWrites ==
    /\ writer = "writing" /\ helper = "alive" /\ commands < CommandCap
    /\ writer' = "idle" /\ commands' = commands + 1
    /\ UNCHANGED <<driverVars, requests, helperVars, replies, readerVars, events, owed>>

\* A write fails, or the driver has dropped its end and the channel is empty.
WriterStops ==
    /\ \/ writer = "writing" /\ helper = "dead"
       \/ writer = "idle" /\ requests = 0 /\ driver = "ended"
    /\ writer' = "gone"
    /\ UNCHANGED <<driverVars, requests, commands, helperVars, replies, readerVars, events, owed>>

\* Mutant: the end of the helper is reported ahead of the lines it has written.
ReadExitFirst ==
    /\ reader = "reading"
    /\ \/ /\ replies # <<>> /\ helper = "alive"
          /\ replies' = Tail(replies)
          /\ \/ Head(replies) = "garbage" /\ owed' = owed - 1 /\ UNCHANGED readerVars
             \/ /\ Head(replies) # "garbage" /\ UNCHANGED owed
                /\ reader' = "delivering" /\ delivery' = <<Head(replies)>>
       \/ /\ helper = "dead" /\ reader' = "delivering" /\ delivery' = <<"exited">>
          /\ UNCHANGED <<replies, owed>>
    /\ UNCHANGED <<driverVars, requests, writer, commands, helperVars, events>>

\* next_line: a line that parses is delivered, any other one skipped; the end of the
\* stream comes after the last line.
Read ==
    /\ reader = "reading"
    /\ \/ /\ replies # <<>>
          /\ replies' = Tail(replies)
          /\ \/ Head(replies) = "garbage" /\ owed' = owed - 1 /\ UNCHANGED readerVars
             \/ /\ Head(replies) # "garbage" /\ UNCHANGED owed
                /\ reader' = "delivering" /\ delivery' = <<Head(replies)>>
       \/ /\ replies = <<>> /\ helper = "dead"
          /\ reader' = "delivering" /\ delivery' = <<"exited">>
          /\ UNCHANGED <<replies, owed>>
    /\ UNCHANGED <<driverVars, requests, writer, commands, helperVars, events>>

\* After Exited the task ends.
Deliver ==
    /\ reader = "delivering" /\ driver # "ended" /\ Len(events) < EventCap
    /\ events' = events \o delivery /\ delivery' = <<>>
    /\ reader' = IF delivery = <<"exited">> THEN "gone" ELSE "reading"
    /\ UNCHANGED <<driverVars, requests, writer, commands, helperVars, replies, owed>>

\* Mutant: the reader does not look at the result of its send.
DeliverUnchecked ==
    /\ reader = "delivering" /\ driver = "ended"
    /\ reader' = "reading" /\ delivery' = <<>>
    /\ UNCHANGED <<driverVars, requests, writer, commands, helperVars, replies, events, owed>>

\* The driver has dropped the event channel.
DeliverFails ==
    /\ reader = "delivering" /\ driver = "ended"
    /\ reader' = "gone" /\ delivery' = <<>>
    /\ UNCHANGED <<driverVars, requests, writer, commands, helperVars, replies, events, owed>>

-----------------------------------------------------------------------------
(* The helper: one thread that reads no command while it has a line to write *)

HelperIdle == helper = "alive" /\ writing = <<>>

\* A command is dispatched: the probe is outstanding, or it fails at once with one of the
\* fatal responses; with a full table that is probes-exhausted.
HelperTakes ==
    /\ HelperIdle /\ commands > 0 /\ commands' = commands - 1
    /\ \/ working < TableCap /\ working' = working + 1 /\ UNCHANGED writing
       \/ writing' = <<"fatal">> /\ UNCHANGED working
    /\ UNCHANGED <<driverVars, requests, writer, helper, replies, readerVars, events, owed>>

\* Mutant: a probe that is answered stays in the table.
HelperAnswersTwice ==
    /\ HelperIdle /\ working > 0
    /\ writing' \in {<<line>> : line \in Lines} /\ UNCHANGED working
    /\ UNCHANGED <<driverVars, requests, writer, commands, helper, replies, readerVars, events,
                   owed>>

\* A probe is answered, expires or fails; the line may be one this client cannot read.
HelperAnswers ==
    /\ HelperIdle /\ working > 0 /\ working' = working - 1
    /\ writing' \in {<<line>> : line \in Lines}
    /\ UNCHANGED <<driverVars, requests, writer, commands, helper, replies, readerVars, events,
                   owed>>

HelperWrites ==
    /\ helper = "alive" /\ writing # <<>> /\ Len(replies) < ReplyCap
    /\ replies' = replies \o writing /\ writing' = <<>>
    /\ UNCHANGED <<driverVars, requests, writer, commands, helper, working, readerVars, events,
                   owed>>

\* It is killed or gives up; what it has not written is lost.
HelperDies ==
    /\ helper = "alive" /\ helper' = "dead"
    /\ UNCHANGED <<driverVars, requests, writer, commands, working, writing, replies, readerVars,
                   events, owed>>

Over == driver = "ended" /\ writer = "gone" /\ reader = "gone"

Terminated == Over /\ UNCHANGED vars

Next ==
    \/ TickProbe \/ TickFinish \/ SendProbe \/ SendFails
    \/ OnReply \/ OnFatal \/ OnExited \/ LookupSent \/ OnLookup \/ OnAction
    \/ Signal \/ OnSignal
    \/ WriterTakes \/ WriterWrites \/ WriterStops \/ Read \/ Deliver \/ DeliverFails
    \/ HelperTakes \/ HelperAnswers \/ HelperWrites \/ HelperDies
    \/ Terminated

Spec == Init /\ [][Next]_vars

\* Tasks that can go on are polled; the helper runs.  select! chooses among the branches
\* that are ready at random, so one that is ready again and again is taken.
Fairness ==
    /\ WF_vars(SendProbe) /\ WF_vars(SendFails) /\ WF_vars(LookupSent)
    /\ WF_vars(WriterTakes) /\ WF_vars(WriterWrites) /\ WF_vars(WriterStops)
    /\ WF_vars(Read) /\ WF_vars(Deliver) /\ WF_vars(DeliverFails)
    /\ WF_vars(HelperTakes) /\ WF_vars(HelperWrites)
    /\ SF_vars(OnReply \/ OnFatal \/ OnExited) /\ SF_vars(OnSignal)

FairSpec == Spec /\ Fairness

-----------------------------------------------------------------------------
(* Properties *)

Held(line) == IF line = <<>> THEN 0 ELSE 1

TypeOK ==
    /\ driver \in {"select", "send", "lookup", "ended"}
    /\ outcome \in Outcomes \cup {"none"}
    /\ engine \in {"probing", "paused", "finished"}
    /\ deadline \in BOOLEAN /\ looking \in BOOLEAN /\ signal \in BOOLEAN
    /\ requests \in 0..RequestCap /\ commands \in 0..CommandCap
    /\ writer \in {"idle", "writing", "gone"}
    /\ helper \in {"alive", "dead"}
    /\ working \in Nat /\ owed \in Nat
    /\ writing \in {<<>>} \cup {<<line>> : line \in Lines}
    /\ replies \in Seq(Lines) /\ Len(replies) <= ReplyCap
    /\ reader \in {"reading", "delivering", "gone"}
    /\ delivery \in {<<>>} \cup {<<e>> : e \in {"reply", "fatal", "exited"}}
    /\ events \in Seq({"reply", "fatal", "exited"}) /\ Len(events) <= EventCap

\* Every stage waits for the next one, and the driver, which could make room at the end of
\* the path, for room at its beginning.
Gridlock ==
    /\ driver = "send" /\ writer = "writing" /\ requests = RequestCap
    /\ helper = "alive" /\ commands = CommandCap /\ writing # <<>>
    /\ Len(replies) = ReplyCap /\ reader = "delivering" /\ Len(events) = EventCap

\* "the driver drains rx on every select! iteration, so under the current driver neither side
\* can fill up" (helper.rs:64-68).  An iteration takes one branch, and a tick drains nothing.
NeverGridlocked == ~Gridlock

\* What it takes to fill both sides: as many probes sent and not disposed of as the path can
\* hold.  No stage is ever occupied by a line that answers no probe or answers one again.
FullPathIsOwed == Gridlock => owed >= Capacity

\* Driver::deadline is set exactly while the engine probes: an engine that has something
\* to do is woken, and one that is paused is not busy-looped on an old deadline
\* (driver.rs:222-226), whatever lookups and responses came in between.
DeadlineFollowsEngine == driver # "ended" => (deadline <=> engine = "probing")

\* "unexpected packet generator exit" comes last: whatever the helper has written before, a
\* fatal response that says why it exits among it, is taken first (helper.rs:208-226).
ExitComesLast ==
    outcome = "helper_exit" => replies = <<>> /\ delivery = <<>> /\ events = <<>>

\* When the helper is gone or the user has pressed Ctrl-C the session ends, though a step
\* that awaits room is not interrupted, and leaves no task behind.  The one exception is a
\* gridlock, in which Ctrl-C is not looked at; the end of the helper resolves it.
SessionEnds == (helper = "dead" ~> Over) /\ (signal ~> Over \/ Gridlock)
=============================================================================
