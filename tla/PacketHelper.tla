----------------------------- MODULE PacketHelper -----------------------------
(***************************************************************************)
(* The helper process: the loop of crates/mtr-packet/src/lib.rs (`serve`)  *)
(* over the table of outstanding probes.  One turn waits, samples the      *)
(* clock, drains the receive sockets, checks the connecting sockets, reads *)
(* commands, expires deadlines, dispatches the commands it read and writes *)
(* the responses.  Up to the read, the client may write or go away, packets *)
(* may arrive and connects may settle between any two steps; the rest of   *)
(* the turn looks at none of these, so what happens during it happens, for *)
(* the helper, at the start of the next turn.  Time may pass at any point. *)
(*                                                                         *)
(* A request is identified by the number of its line; it stands for the    *)
(* token the response repeats.  What a line asks for (nothing valid, a     *)
(* datagram or a stream probe, its timeout) is chosen when it is dispatched.*)
(***************************************************************************)
EXTENDS Integers, Sequences, FiniteSets

CONSTANTS
    Loads,       \* what the helper is asked for and by which time, see LoadRecords
    MaxProbes,   \* MAX_PROBES: outstanding probes
    MinPort,     \* MIN_PORT: sequence numbers are also source ports
    Timeouts,    \* probe timeouts a request may carry
    MaxCopies    \* BOUND: packets the network delivers for one probe

\* The lines the client writes, MAX_PORT, the protocols of the probes asked for ("stream" is
\* TCP and SCTP), and the last time of the clock: no deadline is set that it cannot pass.
LoadRecords ==
    [ requests : Nat, maxPort : Nat, protocols : SUBSET {"icmp", "udp", "stream"}, clock : Nat ]

ASSUME PacketHelperAssumption ==
    /\ Loads \subseteq LoadRecords
    /\ MaxProbes \in Nat \ {0}
    /\ MinPort \in Nat /\ \A l \in Loads : MinPort < l.maxPort
    /\ Timeouts \subseteq Nat
    /\ MaxCopies \in Nat

VARIABLES
    load,          \* of this process
    pc,            \* the step of the turn; how the process ended
    now,           \* the clock sampled at the start of the turn
    probes,        \* ProbeTable::probes
    nextSequence,  \* ProbeTable::next_sequence
    todo,          \* table positions of the stream probes still to check
    at,            \* table position the expiry loop has reached
    lines,         \* command lines waiting in stdin
    taken,         \* lines read this turn, not dispatched yet
    pipeOpen,      \* pipe_open
    responses,     \* responses of this turn
    output,        \* responses written, in order
    (* the environment *)
    clock,
    written,       \* lines the client has written so far
    eof,           \* the client closed its end
    gone,          \* the client no longer reads: writes fail
    net,           \* requests whose answer waits in a receive socket
    connect,       \* per request, what its connecting socket reports
    sentAs,        \* per request, the sequence and deadline it was sent with
    arrivals       \* per request, when its answers arrived

helper == <<pc, now, probes, nextSequence, todo, at, lines, taken, pipeOpen,
            responses, output>>
env == <<written, eof, gone, net, connect, sentAs, arrivals>>
vars == <<load, helper, clock, env>>

MaxRequest == load.requests
MaxPort == load.maxPort
Protocols == load.protocols
MaxClock == load.clock

Requests == 1..MaxRequest

Ports  == MinPort..MaxPort
Probes == [req : Requests, seq : Ports, protocol : Protocols, deadline : Nat]

\* `of` is the request whose packet or socket made the response: 0 for the others.
Kinds == {"info", "exhausted", "reply", "error", "no-reply"}
Responses == [req : Requests, kind : Kinds, of : 0..MaxRequest]
Answer(r, kind, of) == [req |-> r, kind |-> kind, of |-> of]

Sendings == [seq : Nat, protocol : Protocols \cup {"none"}, deadline : Nat]
NotSent == [seq |-> 0, protocol |-> "none", deadline |-> 0]
IsStream(i) == probes[i].protocol = "stream"

Init ==
    /\ load \in Loads
    /\ pc = "poll" /\ now = 0
    /\ probes = <<>> /\ nextSequence = MinPort
    /\ todo = {} /\ at = 1
    /\ lines = <<>> /\ taken = <<>> /\ pipeOpen = TRUE
    /\ responses = <<>> /\ output = <<>>
    /\ clock = 0 /\ written = 0 /\ eof = FALSE /\ gone = FALSE
    /\ net = {}
    /\ connect = [r \in Requests |-> "none"]
    /\ sentAs = [r \in Requests |-> NotSent]
    /\ arrivals = [r \in Requests |-> <<>>]

-----------------------------------------------------------------------------
(* The probe table *)

\* swap_remove: the last entry takes the place of the removed one.
SwapRemove(s, i) ==
    [j \in 1..(Len(s) - 1) |-> IF j = i THEN s[Len(s)] ELSE s[j]]

\* The sequence number k draws after s.
SequenceAfter(s, k) == MinPort + ((s - MinPort + k) % (MaxPort - MinPort + 1))

FindBySequence(seq) ==
    {i \in DOMAIN probes : /\ probes[i].seq = seq
                           /\ \A j \in 1..(i - 1) : probes[j].seq # seq}

\* Remove entry i and answer its request: respond(), expire(), a failed connect.
TakeOut(i, kind, of) ==
    /\ probes' = SwapRemove(probes, i)
    /\ responses' = Append(responses, Answer(probes[i].req, kind, of))

-----------------------------------------------------------------------------
(* One turn of serve() *)

\* Mutant: poll() is not given the next timeout.
ReadableNoTimeout ==
    \/ pipeOpen /\ (lines # <<>> \/ eof)
    \/ net # {}
    \/ \E i \in DOMAIN probes :
          IsStream(i) /\ connect[probes[i].req] # "connecting"

\* What poll() waits for: stdin, the sockets, or the earliest deadline.
Readable ==
    \/ pipeOpen /\ (lines # <<>> \/ eof)
    \/ net # {}
    \/ \E i \in DOMAIN probes :
          \/ IsStream(i) /\ connect[probes[i].req] # "connecting"
          \/ probes[i].deadline <= clock

StartTurn ==
    /\ pc = "poll" /\ pc' = "receive"
    /\ now' = clock
    /\ UNCHANGED <<probes, nextSequence, todo, at, lines, taken, pipeOpen, responses,
                   output, clock, env>>

Poll == Readable /\ StartTurn

\* EINTR and EAGAIN start a turn as well.
Interrupted == ~Readable /\ StartTurn

\* match_reply for the answer to request r: the first entry with the sequence, and for
\* a UDP probe's answer only if that entry is a UDP probe.
Matches(r) ==
    {i \in FindBySequence(sentAs[r].seq) :
        sentAs[r].protocol = "udp" => probes[i].protocol = "udp"}

\* drain_socket and deliver, for one packet.
Receive ==
    /\ pc = "receive"
    /\ \E r \in net :
        /\ net' = net \ {r}
        /\ \/ \E i \in Matches(r) : TakeOut(i, "reply", r)
           \/ Matches(r) = {} /\ UNCHANGED <<probes, responses>>
    /\ UNCHANGED <<pc, now, nextSequence, todo, at, lines, taken, pipeOpen, output,
                   clock, written, eof, gone, connect, sentAs, arrivals>>

\* check_streams: the positions are collected first and walked from the end.
StreamPositions == {i \in DOMAIN probes : IsStream(i)}

Drained ==
    /\ pc = "receive" /\ net = {}
    /\ pc' = "streams"
    /\ todo' = StreamPositions
    /\ UNCHANGED <<now, probes, nextSequence, at, lines, taken, pipeOpen, responses,
                   output, clock, env>>

\* An unexpected receive error: write what this turn produced, then exit 1.
ReceiveFails ==
    /\ pc = "receive" /\ pc' = "fatal"
    /\ output' = IF gone THEN output ELSE output \o responses
    /\ responses' = <<>>
    /\ UNCHANGED <<now, probes, nextSequence, todo, at, lines, taken, pipeOpen, clock,
                   env>>

CheckStream ==
    /\ pc = "streams"
    /\ \E i \in todo :
        /\ \A j \in todo : j <= i
        /\ todo' = todo \ {i}
        /\ LET r == probes[i].req IN
            \/ connect[r] = "connecting" /\ UNCHANGED <<probes, responses>>
            \/ connect[r] = "reached" /\ TakeOut(i, "reply", r)
            \/ connect[r] = "failed" /\ TakeOut(i, "error", r)
    /\ UNCHANGED <<pc, now, nextSequence, at, lines, taken, pipeOpen, output, clock, env>>

\* One read(): whole lines, end of file, or nothing.
Read ==
    /\ pc = "streams" /\ todo = {}
    /\ pc' = "expire" /\ at' = 1
    /\ \/ /\ pipeOpen /\ lines # <<>>
          /\ \E k \in 1..Len(lines) :
                /\ taken' = SubSeq(lines, 1, k)
                /\ lines' = SubSeq(lines, k + 1, Len(lines))
          /\ UNCHANGED pipeOpen
       \/ /\ pipeOpen /\ lines = <<>>
          /\ pipeOpen' = ~eof
          /\ UNCHANGED <<lines, taken>>
       \/ ~pipeOpen /\ UNCHANGED <<lines, taken, pipeOpen>>
    /\ UNCHANGED <<now, probes, nextSequence, todo, responses, output, clock, written,
                   eof, gone, net, connect, sentAs, arrivals>>

\* An error of poll() or read() ends the process at once: responses of this turn are
\* not written.
Aborts ==
    /\ pc = "poll" \/ (pc = "streams" /\ todo = {} /\ pipeOpen)
    /\ pc' = "aborted"
    /\ UNCHANGED <<now, probes, nextSequence, todo, at, lines, taken, pipeOpen, responses,
                   output, clock, env>>

\* Mutant: deadlines are compared with the time at which they are looked at.
ExpireReadsClock ==
    /\ pc = "expire" /\ at <= Len(probes)
    /\ \/ probes[at].deadline < clock /\ TakeOut(at, "no-reply", 0) /\ UNCHANGED at
       \/ probes[at].deadline >= clock /\ at' = at + 1 /\ UNCHANGED <<probes, responses>>
    /\ UNCHANGED <<pc, now, nextSequence, todo, lines, taken, pipeOpen, output, clock,
                   env>>

\* expire(): an entry moved into a freed place is looked at as well.
Expire ==
    /\ pc = "expire" /\ at <= Len(probes)
    /\ \/ probes[at].deadline < now /\ TakeOut(at, "no-reply", 0) /\ UNCHANGED at
       \/ probes[at].deadline >= now /\ at' = at + 1 /\ UNCHANGED <<probes, responses>>
    /\ UNCHANGED <<pc, now, nextSequence, todo, lines, taken, pipeOpen, output, clock,
                   env>>

Expired ==
    /\ pc = "expire" /\ at > Len(probes)
    /\ pc' = "dispatch" /\ at' = 1
    /\ UNCHANGED <<now, probes, nextSequence, todo, lines, taken, pipeOpen,
                   responses, output, clock, env>>

-----------------------------------------------------------------------------
(* dispatch_line: the alternatives for the line r at the head of `taken` *)

\* check-support, an unknown command, a line that does not parse, an unsupported
\* argument: answered at once.
AnswerAtOnce(r) ==
    /\ responses' = Append(responses, Answer(r, "info", 0))
    /\ UNCHANGED <<probes, nextSequence, connect, sentAs>>

Exhausted(r) ==
    /\ Len(probes) >= MaxProbes
    /\ responses' = Append(responses, Answer(r, "exhausted", 0))
    /\ UNCHANGED <<probes, nextSequence, connect, sentAs>>

\* start_stream tries a source port per attempt, one attempt fewer than there are
\* ports; `busy` of them are in use.
Attempts == MaxPort - MinPort

\* Mutant: the entry keeps the first number when the source port was busy.
SentKeepsFirstSequence(r) ==
    /\ Len(probes) < MaxProbes
    /\ \E timeout \in Timeouts, protocol \in Protocols, busy \in 0..(Attempts - 1) :
        LET seq == SequenceAfter(nextSequence, busy)
            p   == [req |-> r, seq |-> nextSequence, protocol |-> protocol,
                     deadline |-> now + timeout]
        IN  /\ now + timeout < MaxClock
            /\ protocol # "stream" => busy = 0
            /\ probes' = Append(probes, p)
            /\ nextSequence' = SequenceAfter(nextSequence, busy + 1)
            /\ sentAs' = [sentAs EXCEPT ![r] =
                   [seq |-> seq, protocol |-> protocol, deadline |-> p.deadline]]
            /\ connect' = [connect EXCEPT ![r] = IF protocol = "stream" THEN "connecting" ELSE @]
            /\ UNCHANGED responses

Sent(r) ==
    /\ Len(probes) < MaxProbes
    /\ \E timeout \in Timeouts, protocol \in Protocols, busy \in 0..(Attempts - 1) :
        LET seq == SequenceAfter(nextSequence, busy)
            p   == [req |-> r, seq |-> seq, protocol |-> protocol,
                     deadline |-> now + timeout]
        IN  /\ now + timeout < MaxClock
            /\ protocol # "stream" => busy = 0
            /\ probes' = Append(probes, p)
            /\ nextSequence' = SequenceAfter(nextSequence, busy + 1)
            /\ sentAs' = [sentAs EXCEPT ![r] =
                   [seq |-> seq, protocol |-> protocol, deadline |-> p.deadline]]
            /\ connect' = [connect EXCEPT ![r] = IF protocol = "stream" THEN "connecting" ELSE @]
            /\ UNCHANGED responses

\* Mutant: the entry of a probe that could not be sent stays in the table.
NotSendableKeepsEntry(r) ==
    /\ Len(probes) < MaxProbes
    /\ nextSequence' = SequenceAfter(nextSequence, 1)
    /\ responses' = Append(responses, Answer(r, "error", r))
    /\ probes' = Append(probes, [req |-> r, seq |-> nextSequence, protocol |-> "icmp",
                                 deadline |-> now])
    /\ UNCHANGED <<connect, sentAs>>

\* The entry was made, the send failed, the entry is removed again: it was the last
\* one.  A stream connect that is refused on the spot counts as an answer.
NotSendable(r) ==
    /\ Len(probes) < MaxProbes
    /\ \E protocol \in Protocols, kind \in {"error", "reply"}, busy \in 0..Attempts :
        /\ protocol # "stream" => busy = 0 /\ kind = "error"
        /\ kind = "reply" => busy < Attempts
        /\ nextSequence' = SequenceAfter(nextSequence, busy + 1)
        /\ responses' = Append(responses, Answer(r, kind, r))
    /\ UNCHANGED <<probes, connect, sentAs>>

Dispatch ==
    /\ pc = "dispatch" /\ taken # <<>>
    /\ LET r == Head(taken) IN
        AnswerAtOnce(r) \/ Exhausted(r) \/ Sent(r) \/ NotSendable(r)
    /\ taken' = Tail(taken)
    /\ UNCHANGED <<pc, now, todo, at, lines, pipeOpen, output, clock, written, eof, gone,
                   net, arrivals>>

Dispatched ==
    /\ pc = "dispatch" /\ taken = <<>>
    /\ pc' = "flush"
    /\ UNCHANGED <<now, probes, nextSequence, todo, at, lines, taken, pipeOpen,
                   responses, output, clock, env>>

\* Mutant: the end of input ends the process with probes outstanding.
ExitNowEager == ~pipeOpen

ExitNow == ~pipeOpen /\ probes = <<>>

\* Write the responses; a client that is gone ends the process.
Flush ==
    /\ pc = "flush"
    /\ responses' = <<>> /\ now' = 0
    /\ \/ /\ gone /\ responses # <<>>
          /\ pc' = "done" /\ UNCHANGED output
       \/ /\ ~gone \/ responses = <<>>
          /\ output' = output \o responses
          /\ pc' = IF ExitNow THEN "done" ELSE "poll"
    /\ UNCHANGED <<probes, nextSequence, todo, at, lines, taken, pipeOpen, clock, env>>

-----------------------------------------------------------------------------
(* The environment *)

Running == pc \notin {"done", "fatal", "aborted"}
Observing == pc \in {"poll", "receive", "streams"}

ClientWrites ==
    /\ Observing /\ ~eof /\ written < MaxRequest
    /\ written' = written + 1
    /\ lines' = Append(lines, written + 1)
    /\ UNCHANGED <<pc, now, probes, nextSequence, todo, at, taken, pipeOpen, responses,
                   output, clock, eof, gone, net, connect, sentAs, arrivals>>

ClientCloses ==
    /\ Observing /\ ~eof /\ eof' = TRUE
    /\ UNCHANGED <<helper, clock, written, gone, net, connect, sentAs, arrivals>>

ClientDies ==
    /\ Observing /\ ~gone /\ gone' = TRUE /\ eof' = TRUE
    /\ UNCHANGED <<helper, clock, written, net, connect, sentAs, arrivals>>

\* An answer to a probe that left, live or not, arrives at a receive socket.
Arrive(r) ==
    /\ Observing /\ sentAs[r] # NotSent
    /\ Len(arrivals[r]) < MaxCopies
    /\ net' = net \cup {r}
    /\ arrivals' = [arrivals EXCEPT ![r] = Append(@, clock)]
    /\ UNCHANGED <<helper, clock, written, eof, gone, connect, sentAs>>

\* A connect settles.
Settle(r) ==
    /\ Observing /\ connect[r] = "connecting"
    /\ \E i \in DOMAIN probes : probes[i].req = r
    /\ \E outcome \in {"reached", "failed"} : connect' = [connect EXCEPT ![r] = outcome]
    /\ UNCHANGED <<helper, clock, written, eof, gone, net, sentAs, arrivals>>

Advance ==
    /\ Running /\ clock < MaxClock /\ clock' = clock + 1
    /\ UNCHANGED <<helper, env>>

Ended == ~Running /\ UNCHANGED vars

HelperStep ==
    /\ \/ Poll \/ Receive \/ Drained \/ CheckStream \/ Read \/ Expire
       \/ Expired \/ Dispatch \/ Dispatched \/ Flush
    /\ UNCHANGED load

Environment ==
    /\ \/ ClientWrites \/ ClientCloses \/ ClientDies \/ Advance
       \/ \E r \in Requests : Arrive(r) \/ Settle(r)
    /\ UNCHANGED load

Unplanned == (Interrupted \/ ReceiveFails \/ Aborts) /\ UNCHANGED load

Next == HelperStep \/ Unplanned \/ Environment \/ Ended

Spec == Init /\ [][Next]_vars

\* The process is scheduled, poll() returns when what it waits for is there, and time
\* passes.
FairSpec == Spec /\ WF_vars(HelperStep) /\ WF_vars(Advance /\ UNCHANGED load)

-----------------------------------------------------------------------------
(* Properties *)

TypeOK ==
    /\ load \in Loads
    /\ pc \in {"poll", "receive", "streams", "expire", "dispatch", "flush", "done",
               "fatal", "aborted"}
    /\ now \in 0..MaxClock /\ clock \in 0..MaxClock
    /\ probes \in Seq(Probes) /\ Len(probes) <= MaxProbes
    /\ nextSequence \in Ports
    /\ todo \subseteq DOMAIN probes /\ at \in Nat \ {0}
    /\ lines \in Seq(Requests) /\ taken \in Seq(Requests) /\ written \in 0..MaxRequest
    /\ pipeOpen \in BOOLEAN /\ eof \in BOOLEAN /\ gone \in BOOLEAN
    /\ responses \in Seq(Responses) /\ output \in Seq(Responses)
    /\ net \subseteq Requests
    /\ connect \in [Requests -> {"none", "connecting", "reached", "failed"}]
    /\ sentAs \in [Requests -> Sendings]
    /\ arrivals \in [Requests -> Seq(0..MaxClock)]

Answers == output \o responses
AnswersTo(r) == {i \in DOMAIN Answers : Answers[i].req = r}
EntriesOf(r) == {i \in DOMAIN probes : probes[i].req = r}
WaitingLines == {lines[i] : i \in DOMAIN lines} \cup {taken[i] : i \in DOMAIN taken}

\* respond(): "the probe leaves the table exactly once and its token gets exactly one
\* reply".  Every line that was read is outstanding or answered, never both, never
\* twice, however receive, connect checks, expiry and dispatch interleave.
OneResponse ==
    ~gone => \A r \in 1..written :
        Cardinality(AnswersTo(r)) + Cardinality(EntriesOf(r))
            = IF r \in WaitingLines THEN 0 ELSE 1

SequencesDiffer ==
    \A r, s \in Requests : r # s /\ sentAs[r].seq = sentAs[s].seq => sentAs[r] = NotSent

\* While no sequence number has come round to a second probe, an answer is reported
\* for the probe it answers, though entries move when others are removed.
ReplyIsOwn ==
    SequencesDiffer => \A i \in DOMAIN Answers : Answers[i].of \in {0, Answers[i].req}

\* Nor is an answer that arrived by the deadline reported as a timeout, even when the
\* process only gets to look after the deadline: the clock is sampled first and the
\* sockets are drained before deadlines are compared with it.
InTimeIsAnswered ==
    SequencesDiffer => \A i \in DOMAIN Answers :
        LET r == Answers[i].req IN
        Answers[i].kind = "no-reply" =>
            \A k \in DOMAIN arrivals[r] : arrivals[r][k] > sentAs[r].deadline

\* When the process ends on its own, nothing a client still reads is lost: after the
\* end of input every line has its response, and a fatal receive error still writes
\* what had been produced (lib.rs, `a_fatal_receive_error_flushes_pending_responses_first`).
NothingLost ==
    /\ pc = "done" /\ ~gone => \A r \in 1..written : \E i \in DOMAIN output : output[i].req = r
    /\ pc = "fatal" /\ ~gone => \A r \in Requests : sentAs[r] # NotSent =>
          \/ EntriesOf(r) # {}
          \/ \E i \in DOMAIN output : output[i].req = r

\* After the end of input the process answers what is outstanding and exits.
Exits == eof ~> ~Running
=============================================================================
