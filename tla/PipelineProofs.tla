---------------------------- MODULE PipelineProofs ----------------------------
(***************************************************************************)
(* What blocks the path of probes, and the order of its last words, for      *)
(* every capacity of its channels and pipes and however many probes are      *)
(* sent: what the stages hold together is owed (Balance), and an exit is     *)
(* behind everything else (ExitBehind).                                     *)
(***************************************************************************)
EXTENDS Pipeline, Integers, TLAPS

Deliveries == {"reply", "fatal", "exited"}

\* The reader is at a delivery exactly while it holds one.
ReaderHolds == reader = "delivering" <=> delivery # <<>>

\* Behind the exit of the helper comes nothing, on any stage after the pipe.
Silence == helper = "dead" /\ replies = <<>>
ExitBehind ==
    /\ delivery = <<"exited">> => Silence
    /\ \A i \in 1..Len(events) :
          events[i] = "exited" => i = Len(events) /\ reader = "gone" /\ Silence
    /\ outcome = "helper_exit" =>
          driver = "ended" /\ events = <<>> /\ reader = "gone" /\ Silence

ExitSeen == delivery = <<"exited">> \/ \E i \in 1..Len(events) : events[i] = "exited"

\* Probes on their way to the helper, in it, and on their way back.
Sending   == IF driver = "send" THEN 1 ELSE 0
InHand    == IF writer = "writing" THEN 1 ELSE 0
Outbound  == Sending + requests + InHand + commands
Inbound   == Held(writing) + Len(replies) + Held(delivery) + Len(events)
ExitLine  == IF ExitSeen THEN 1 ELSE 0

\* Each of them is owed; the exit is no probe.
Balance == Outbound + working + Inbound <= owed + ExitLine

IInv == TypeOK /\ ReaderHolds /\ ExitBehind /\ Balance /\ DeadlineFollowsEngine

-----------------------------------------------------------------------------
(* Queues *)

\* Appending one line.
LEMMA Appending ==
    ASSUME NEW S, NEW q \in Seq(S), NEW line \in S
    PROVE  /\ q \o <<line>> \in Seq(S)
           /\ Len(q \o <<line>>) = Len(q) + 1
           /\ \A i \in 1..Len(q) : (q \o <<line>>)[i] = q[i]
           /\ (q \o <<line>>)[Len(q) + 1] = line
BY SMT

\* Taking the first line.
LEMMA Taking ==
    ASSUME NEW S, NEW q \in Seq(S), q # <<>>
    PROVE  /\ Head(q) \in S /\ Head(q) = q[1]
           /\ Tail(q) \in Seq(S)
           /\ Len(q) \in Nat /\ Len(q) >= 1 /\ Len(Tail(q)) = Len(q) - 1
           /\ \A i \in 1..Len(Tail(q)) : Tail(q)[i] = q[i + 1]
BY SMT

-----------------------------------------------------------------------------
(* Counting *)

\* What the stages hold are numbers.
LEMMA Counts ==
    ASSUME TypeOK
    PROVE  /\ Sending \in {0, 1} /\ InHand \in {0, 1} /\ ExitLine \in {0, 1}
           /\ Held(writing) \in {0, 1} /\ Held(delivery) \in {0, 1}
           /\ Len(replies) \in Nat /\ Len(events) \in Nat
           /\ requests \in Nat /\ commands \in Nat /\ working \in Nat /\ owed \in Nat
           /\ Outbound \in Nat /\ Inbound \in Nat
<1>1. RequestCap \in Nat /\ CommandCap \in Nat
  BY PipelineAssumption
<1>2. /\ requests \in Nat /\ commands \in Nat /\ working \in Nat /\ owed \in Nat
      /\ Len(replies) \in Nat /\ Len(events) \in Nat
  BY <1>1 DEF TypeOK
<1>3. /\ Sending \in {0, 1} /\ InHand \in {0, 1} /\ ExitLine \in {0, 1}
      /\ Held(writing) \in {0, 1} /\ Held(delivery) \in {0, 1}
  BY DEF Sending, InHand, ExitLine, Held
<1>. QED BY <1>2, <1>3 DEF Outbound, Inbound

\* A line of a probe on the client's side is owed: the exit counts for itself only.
LEMMA EventIsOwed ==
    ASSUME IInv, events # <<>>, Head(events) # "exited"
    PROVE  owed >= 1
<1>1. Outbound + working + Inbound <= owed + ExitLine
  BY DEF IInv, Balance
<1>2. Inbound = Held(writing) + Len(replies) + Held(delivery) + Len(events)
  BY DEF Inbound
<1>3. Head(events) = events[1] /\ Len(events) >= 1
  BY Taking DEF IInv, TypeOK
<1>4. CASE delivery = <<"exited">>
  <2>1. Held(delivery) = 1
    BY <1>4 DEF Held
  <2>. QED BY <1>1, <1>2, <1>3, <2>1, Counts DEF IInv
<1>5. CASE \E i \in 1..Len(events) : events[i] = "exited"
  <2>1. Len(events) >= 2
    BY <1>3, <1>5, Counts DEF IInv, ExitBehind
  <2>. QED BY <1>1, <1>2, <2>1, Counts DEF IInv
<1>6. CASE ~ExitSeen
  <2>1. Outbound + working + Inbound <= owed
    BY <1>1, <1>6, Counts DEF ExitLine, IInv
  <2>. QED BY <1>2, <1>3, <2>1, Counts DEF IInv
<1>. QED BY <1>4, <1>5, <1>6 DEF ExitSeen

\* So is a line in the pipe, which no exit can have overtaken.
LEMMA ReplyIsOwed ==
    ASSUME IInv, replies # <<>>
    PROVE  owed >= 1 /\ ExitLine = 0
<1>1. ExitLine = 0
  BY DEF IInv, ExitBehind, Silence, ExitLine, ExitSeen
<1>2. Len(replies) >= 1
  BY Taking DEF IInv, TypeOK
<1>3. Outbound + working + Inbound <= owed
  BY <1>1, Counts DEF IInv, Balance
<1>4. Inbound = Held(writing) + Len(replies) + Held(delivery) + Len(events)
  BY DEF Inbound
<1>. QED BY <1>1, <1>2, <1>3, <1>4, Counts DEF IInv

-----------------------------------------------------------------------------
(* The types, and where the reader is *)

\* Every step keeps the types and the capacities.
LEMMA Types == ASSUME IInv, [Next]_vars PROVE TypeOK'
<1>. USE PipelineAssumption DEF TypeOK, Lines, Outcomes
<1>1. TypeOK
  BY DEF IInv
<1>2. CASE TickProbe
  BY <1>1, <1>2 DEF TickProbe, Selecting, NextDeadline, helperVars, readerVars
<1>3. CASE TickFinish
  BY <1>1, <1>3 DEF TickFinish, End, NextDeadline, readerVars
<1>4. CASE SendProbe
  BY <1>1, <1>4 DEF SendProbe, helperVars, readerVars
<1>5. CASE SendFails
  BY <1>1, <1>5 DEF SendFails, End, readerVars
<1>6. CASE OnReply
  <2>1. events' \in Seq(Deliveries) /\ Len(events') <= EventCap
    BY <1>1, <1>6, Taking DEF OnReply, TakeEvent, Deliveries
  <2>2. owed' \in Nat
    BY <1>1, <1>6, EventIsOwed DEF OnReply, TakeEvent
  <2>. QED BY <1>1, <1>6, <2>1, <2>2
         DEF OnReply, NextDeadline, helperVars, readerVars, Deliveries
<1>7. CASE OnFatal
  <2>1. events' \in Seq(Deliveries) /\ Len(events') <= EventCap
    BY <1>1, <1>7, Taking DEF OnFatal, TakeEvent, Deliveries
  <2>2. owed' \in Nat
    BY <1>1, <1>7, EventIsOwed DEF OnFatal, TakeEvent
  <2>. QED BY <1>1, <1>7, <2>1, <2>2 DEF OnFatal, End, readerVars, Deliveries
<1>8. CASE OnExited
  BY <1>1, <1>8, Taking DEF OnExited, TakeEvent, End, readerVars
<1>9. CASE LookupSent
  BY <1>1, <1>9 DEF LookupSent, helperVars, readerVars
<1>10. CASE OnLookup
  <2>1. deadline' \in BOOLEAN
    BY <1>1, <1>10, Zenon DEF OnLookup, NextDeadline
  <2>2. looking' \in BOOLEAN
    BY <1>10, Zenon DEF OnLookup
  <2>3. UNCHANGED <<driver, outcome, engine, signal, requests, writer, commands, helper, working,
                    writing, replies, reader, delivery, events, owed>>
    BY <1>10 DEF OnLookup, helperVars, readerVars
  <2>. QED BY <1>1, <2>1, <2>2, <2>3
<1>11. CASE OnAction
  BY <1>1, <1>11 DEF OnAction, NextDeadline, helperVars, readerVars
<1>12. CASE Signal
  BY <1>1, <1>12 DEF Signal, helperVars, readerVars
<1>13. CASE OnSignal
  BY <1>1, <1>13 DEF OnSignal, End, readerVars
<1>14. CASE WriterTakes \/ WriterWrites \/ WriterStops
  BY <1>1, <1>14 DEF WriterTakes, WriterWrites, WriterStops, driverVars, helperVars, readerVars
<1>15. CASE Read
  <2>1. CASE replies = <<>>
    BY <1>1, <1>15, <2>1 DEF Read, driverVars, helperVars
  <2>2. CASE replies # <<>>
    <3>1. replies' = Tail(replies)
      BY <1>15, <2>2 DEF Read
    <3>2. Head(replies) \in Lines /\ replies' \in Seq(Lines) /\ Len(replies') <= ReplyCap
      BY <1>1, <2>2, <3>1, Taking
    <3>3. owed' \in Nat
      BY <1>1, <1>15, <2>2, ReplyIsOwed DEF Read
    <3>4. /\ reader' \in {"reading", "delivering", "gone"}
          /\ delivery' \in {<<>>} \cup {<<e>> : e \in Deliveries}
      BY <1>1, <1>15, <2>2, <3>2 DEF Read, readerVars, Deliveries
    <3>. QED BY <1>1, <1>15, <3>2, <3>3, <3>4 DEF Read, driverVars, helperVars, Deliveries
  <2>. QED BY <2>1, <2>2
<1>16. CASE Deliver
  <2>1. PICK e \in Deliveries : delivery = <<e>>
    BY <1>1, <1>16 DEF Deliver, IInv, ReaderHolds, Deliveries
  <2>2. events' \in Seq(Deliveries) /\ Len(events') <= EventCap
    BY <1>1, <1>16, <2>1, Appending DEF Deliver, Deliveries
  <2>. QED BY <1>1, <1>16, <2>2 DEF Deliver, driverVars, helperVars, Deliveries
<1>17. CASE DeliverFails
  BY <1>1, <1>17 DEF DeliverFails, driverVars, helperVars
<1>18. CASE HelperTakes \/ HelperAnswers \/ HelperDies
  BY <1>1, <1>18, SMTT(60)
     DEF HelperTakes, HelperAnswers, HelperDies, HelperIdle, driverVars, readerVars
<1>19. CASE HelperWrites
  <2>1. PICK line \in Lines : writing = <<line>>
    BY <1>1, <1>19 DEF HelperWrites
  <2>2. replies' \in Seq(Lines) /\ Len(replies') <= ReplyCap
    BY <1>1, <1>19, <2>1, Appending DEF HelperWrites
  <2>. QED BY <1>1, <1>19, <2>2 DEF HelperWrites, driverVars, readerVars
<1>20. CASE UNCHANGED vars
  BY <1>1, <1>20 DEF vars, driverVars, helperVars, readerVars
<1>. QED BY <1>2, <1>3, <1>4, <1>5, <1>6, <1>7, <1>8, <1>9, <1>10, <1>11, <1>12, <1>13,
            <1>14, <1>15, <1>16, <1>17, <1>18, <1>19, <1>20 DEF Next, Terminated

\* Every step leaves the reader at a delivery exactly while it holds one.
LEMMA ReaderPlace == ASSUME IInv, [Next]_vars PROVE ReaderHolds'
<1>. USE DEF ReaderHolds
<1>1. TypeOK /\ ReaderHolds
  BY DEF IInv
<1>2. CASE Read
  BY <1>1, <1>2 DEF Read, readerVars
<1>3. CASE Deliver \/ DeliverFails
  BY <1>1, <1>3 DEF Deliver, DeliverFails
<1>4. CASE UNCHANGED readerVars
  BY <1>1, <1>4 DEF readerVars
<1>5. Next => Read \/ Deliver \/ DeliverFails \/ UNCHANGED readerVars
  BY DEF Next, TickProbe, TickFinish, SendProbe, SendFails, OnReply, OnFatal, OnExited, LookupSent,
         OnLookup, OnAction, Signal, OnSignal, WriterTakes, WriterWrites, WriterStops, HelperTakes,
         HelperAnswers, HelperWrites, HelperDies, Terminated, vars
<1>. QED BY <1>2, <1>3, <1>4, <1>5 DEF vars

-----------------------------------------------------------------------------
(* The exit is last *)

\* No step puts a line behind the exit of the helper.
LEMMA ExitStaysBehind == ASSUME IInv, [Next]_vars PROVE ExitBehind'
<1>. USE DEF ExitBehind, Silence
<1>1. TypeOK /\ ReaderHolds /\ ExitBehind
  BY DEF IInv
<1>2. CASE OnReply \/ OnFatal
  <2>0. events # <<>> /\ events' = Tail(events)
    BY <1>2 DEF OnReply, OnFatal, TakeEvent
  <2>1. /\ Len(events') = Len(events) - 1 /\ Len(events) \in Nat
        /\ \A i \in 1..Len(events') : events'[i] = events[i + 1]
    BY <1>1, <2>0, Taking DEF TypeOK
  <2>2. driver # "ended" /\ outcome' # "helper_exit"
    BY <1>1, <1>2 DEF OnReply, OnFatal, End, TakeEvent, Selecting
  <2>3. UNCHANGED <<replies, reader, delivery>> /\ (helper = "dead" => helper' = "dead")
    BY <1>2 DEF OnReply, OnFatal, End, helperVars, readerVars
  <2>. QED BY <1>1, <2>1, <2>2, <2>3
<1>3. CASE OnExited
  <2>1. /\ events' = Tail(events) /\ events' \in Seq(Deliveries) /\ Len(events') = Len(events) - 1
        /\ Len(events) \in Nat /\ Len(events) >= 1 /\ events[1] = "exited"
    BY <1>1, <1>3, Taking DEF TypeOK, OnExited, TakeEvent, Deliveries
  <2>2. Len(events) = 1 /\ reader = "gone" /\ Silence
    <3>1. 1 \in 1..Len(events)
      BY <2>1
    <3>. QED BY <1>1, <2>1, <3>1
  <2>3. events' = <<>>
    BY <2>1, <2>2
  <2>4. delivery = <<>>
    BY <1>1, <2>2 DEF ReaderHolds
  <2>. QED BY <1>3, <2>2, <2>3, <2>4 DEF OnExited, End, readerVars
<1>4. CASE Read
  <2>1. reader = "reading" /\ UNCHANGED <<events, driver, outcome, helper>>
    BY <1>4 DEF Read, driverVars, helperVars
  <2>2. \A i \in 1..Len(events) : events[i] # "exited"
    BY <1>1, <2>1
  <2>3. outcome # "helper_exit"
    BY <1>1, <2>1
  <2>4. delivery' = <<"exited">> => helper = "dead" /\ replies' = <<>>
    <3>1. CASE replies = <<>>
      BY <1>4, <3>1 DEF Read
    <3>2. CASE replies # <<>>
      <4>1. Head(replies) # "exited"
        BY <1>1, <3>2, Taking DEF TypeOK, Lines
      <4>2. delivery = <<>>
        BY <1>1, <2>1 DEF ReaderHolds
      <4>. QED BY <1>4, <3>2, <4>1, <4>2 DEF Read, readerVars
    <3>. QED BY <3>1, <3>2
  <2>. QED BY <2>1, <2>2, <2>3, <2>4
<1>5. CASE Deliver
  <2>1. PICK e \in Deliveries : delivery = <<e>>
    BY <1>1, <1>5 DEF Deliver, TypeOK, ReaderHolds, Deliveries
  <2>2. /\ Len(events) \in Nat /\ Len(events') = Len(events) + 1
        /\ \A i \in 1..Len(events) : events'[i] = events[i]
        /\ events'[Len(events) + 1] = e
    BY <1>1, <1>5, <2>1, Appending DEF Deliver, TypeOK, Deliveries
  <2>3. /\ reader = "delivering" /\ driver # "ended" /\ delivery' = <<>>
        /\ e = "exited" => reader' = "gone"
        /\ UNCHANGED <<outcome, helper, replies>>
    BY <1>5, <2>1 DEF Deliver, driverVars, helperVars
  <2>4. \A i \in 1..Len(events) : events[i] # "exited"
    BY <1>1, <2>3
  <2>5. ASSUME NEW i \in 1..Len(events'), events'[i] = "exited"
        PROVE  i = Len(events') /\ reader' = "gone" /\ Silence'
    <3>1. i = Len(events) + 1
      BY <2>2, <2>4, <2>5
    <3>2. e = "exited"
      BY <2>2, <2>5, <3>1
    <3>. QED BY <1>1, <2>1, <2>2, <2>3, <3>1, <3>2
  <2>. QED BY <1>1, <2>3, <2>5
<1>6. CASE \/ TickProbe \/ TickFinish \/ SendProbe \/ SendFails \/ LookupSent \/ OnLookup \/ OnAction
           \/ Signal \/ OnSignal \/ WriterTakes \/ WriterWrites \/ WriterStops \/ DeliverFails
           \/ HelperTakes \/ HelperAnswers \/ HelperWrites \/ HelperDies \/ UNCHANGED vars
  <2>1. events' = events /\ (helper = "dead" => helper' = "dead" /\ replies' = replies)
    BY <1>6 DEF TickProbe, TickFinish, SendProbe, SendFails, LookupSent, OnLookup, OnAction, Signal,
                OnSignal, WriterTakes, WriterWrites, WriterStops, DeliverFails, HelperTakes,
                HelperAnswers, HelperWrites, HelperDies, HelperIdle, End, driverVars, helperVars,
                readerVars, vars
  <2>2. \/ UNCHANGED readerVars
        \/ delivery' = <<>> /\ reader' = "gone"
    BY <1>6 DEF TickProbe, TickFinish, SendProbe, SendFails, LookupSent, OnLookup, OnAction, Signal,
                OnSignal, WriterTakes, WriterWrites, WriterStops, DeliverFails, HelperTakes,
                HelperAnswers, HelperWrites, HelperDies, vars
  <2>3. \/ UNCHANGED <<driver, outcome>>
        \/ driver # "ended" /\ outcome' = outcome
        \/ driver # "ended" /\ outcome' # "helper_exit"
    BY <1>6 DEF TickProbe, TickFinish, SendProbe, SendFails, LookupSent, OnLookup, OnAction, Signal,
                OnSignal, WriterTakes, WriterWrites, WriterStops, DeliverFails, HelperTakes,
                HelperAnswers, HelperWrites, HelperDies, Selecting, End, driverVars, vars
  <2>. QED BY <1>1, <2>1, <2>2, <2>3 DEF readerVars
<1>. QED BY <1>2, <1>3, <1>4, <1>5, <1>6 DEF Next, Terminated

-----------------------------------------------------------------------------
(* What is on its way is owed *)

\* No stage has more and none is owed less.
LEMMA Drains ==
    ASSUME IInv, Outbound' \in Int, working' \in Int, Inbound' \in Int, owed' \in Int,
           ExitLine' \in Int,
           Outbound' + working' + Inbound' + (owed - owed') + (ExitLine - ExitLine')
               <= Outbound + working + Inbound
    PROVE  Balance'
<1>1. Outbound + working + Inbound <= owed + ExitLine
  BY DEF IInv, Balance
<1>2. /\ Outbound \in Int /\ working \in Int /\ Inbound \in Int /\ owed \in Int
      /\ ExitLine \in Int
  BY Counts, SMTT(60) DEF IInv
<1>3. PICK o \in Int, w \in Int, i \in Int, d \in Int, x \in Int :
         o = Outbound' /\ w = working' /\ i = Inbound' /\ d = owed' /\ x = ExitLine'
  OBVIOUS
<1>4. o + w + i + (owed - d) + (ExitLine - x) <= Outbound + working + Inbound
  BY <1>3
<1>5. o + w + i <= d + x
  BY <1>1, <1>2, <1>4
<1>. QED BY <1>3, <1>5 DEF Balance

\* Outbound changes only with the stages it counts.
LEMMA OutboundStays == ASSUME UNCHANGED <<driver, requests, writer, commands>>
                       PROVE  Outbound' = Outbound
BY DEF Outbound, Sending, InHand

\* Inbound changes only with the stages it counts.
LEMMA InboundStays == ASSUME UNCHANGED <<writing, replies, delivery, events>>
                      PROVE  Inbound' = Inbound /\ ExitLine' = ExitLine
BY DEF Inbound, Held, ExitLine, ExitSeen

\* A driver that ends may leave a probe unsent.
LEMMA EndKeeps ==
    ASSUME IInv, (driver' = "ended"),
           UNCHANGED <<requests, writer, commands, working, writing, replies, delivery, events, owed>>
    PROVE  Balance'
<1>1. Outbound' \in Int /\ Outbound' <= Outbound
  <2>1. Sending' = 0 /\ InHand' = InHand
    BY DEF Sending, InHand
  <2>2. /\ Outbound = Sending + requests + InHand + commands
        /\ Outbound' = requests + InHand + commands
    BY <2>1, Counts DEF Outbound, IInv
  <2>. QED BY <2>2, Counts DEF IInv
<1>2. Inbound' = Inbound /\ ExitLine' = ExitLine
  BY InboundStays
<1>. QED BY <1>1, <1>2, Counts, Drains, SMTT(60) DEF IInv

\* Every step leaves the stages with no more than is owed.
LEMMA BalanceKept == ASSUME IInv, [Next]_vars PROVE Balance'
<1>. USE DEF IInv
<1>0. /\ Sending \in Int /\ InHand \in Int /\ ExitLine \in Int /\ Outbound \in Int
      /\ Inbound \in Int /\ requests \in Int /\ commands \in Int /\ working \in Int
      /\ owed \in Int
  BY Counts
<1>1. TypeOK /\ ReaderHolds /\ ExitBehind
  OBVIOUS
<1>2. CASE TickProbe
  <2>1. /\ driver = "select" /\ driver' = "send" /\ owed' = owed + 1
        /\ UNCHANGED <<requests, writer, commands, working, writing, replies, delivery, events>>
    BY <1>2, Counts DEF TickProbe, Selecting, helperVars, readerVars
  <2>2. PICK o \in Int : o = Outbound' /\ o = Outbound + 1
    BY <2>1, Counts DEF Outbound, Sending, InHand
  <2>3. Inbound' = Inbound /\ ExitLine' = ExitLine
    BY <2>1, InboundStays
  <2>4. PICK d \in Int : d = owed' /\ d = owed + 1
    BY <2>1, Counts
  <2>. QED BY <2>1, <2>2, <2>3, <2>4, Counts, Drains, SMTT(60)
<1>3. CASE SendProbe
  <2>1. /\ driver = "send" /\ driver' = "select" /\ requests' = requests + 1
        /\ UNCHANGED <<writer, commands, working, writing, replies, delivery, events, owed>>
    BY <1>3 DEF SendProbe, helperVars, readerVars
  <2>2. Outbound' = Outbound
    BY <2>1, Counts DEF Outbound, Sending, InHand
  <2>3. Inbound' = Inbound /\ ExitLine' = ExitLine
    BY <2>1, InboundStays
  <2>. QED BY <2>1, <2>2, <2>3, Counts, Drains, SMTT(60)
<1>4. CASE WriterTakes
  <2>1. /\ writer = "idle" /\ writer' = "writing" /\ requests' = requests - 1
        /\ UNCHANGED <<driver, commands, working, writing, replies, delivery, events, owed>>
    BY <1>4 DEF WriterTakes, driverVars, helperVars, readerVars
  <2>2. Outbound' = Outbound
    BY <2>1, Counts DEF Outbound, Sending, InHand
  <2>3. Inbound' = Inbound /\ ExitLine' = ExitLine
    BY <2>1, InboundStays
  <2>. QED BY <2>1, <2>2, <2>3, Counts, Drains, SMTT(60)
<1>5. CASE WriterWrites
  <2>1. /\ writer = "writing" /\ writer' = "idle" /\ commands' = commands + 1
        /\ UNCHANGED <<driver, requests, working, writing, replies, delivery, events, owed>>
    BY <1>5 DEF WriterWrites, driverVars, helperVars, readerVars
  <2>2. Outbound' = Outbound
    BY <2>1, Counts, SMTT(60) DEF Outbound, Sending, InHand
  <2>3. Inbound' = Inbound /\ ExitLine' = ExitLine
    BY <2>1, InboundStays
  <2>. QED BY <2>1, <2>2, <2>3, Counts, Drains, SMTT(60)
<1>6. CASE WriterStops
  <2>1. /\ writer' = "gone"
        /\ UNCHANGED <<driver, requests, commands, working, writing, replies, delivery, events, owed>>
    BY <1>6 DEF WriterStops, driverVars, helperVars, readerVars
  <2>2. Outbound' \in Int /\ Outbound' <= Outbound
    <3>1. InHand' = 0 /\ Sending' = Sending
      BY <2>1 DEF InHand, Sending
    <3>2. /\ Outbound = Sending + requests + InHand + commands
          /\ Outbound' = Sending + requests + commands
      BY <2>1, <3>1, Counts DEF Outbound
    <3>. QED BY <3>2, Counts, SMTT(60)
  <2>3. Inbound' = Inbound /\ ExitLine' = ExitLine
    BY <2>1, InboundStays
  <2>. QED BY <2>1, <2>2, <2>3, Counts, Drains, SMTT(60)
<1>7. CASE HelperTakes
  <2>1. /\ commands' = commands - 1 /\ writing = <<>>
        /\ \/ working' = working + 1 /\ writing' = <<>>
           \/ working' = working /\ writing' = <<"fatal">>
        /\ UNCHANGED <<driver, requests, writer, replies, delivery, events, owed>>
    BY <1>7 DEF HelperTakes, HelperIdle, driverVars, readerVars
  <2>2. Outbound' = Outbound - 1
    <3>1. Sending' = Sending /\ InHand' = InHand
      BY <2>1 DEF Sending, InHand
    <3>2. Outbound' = Sending + requests + InHand + (commands - 1)
      BY <2>1, <3>1 DEF Outbound
    <3>3. Outbound = Sending + requests + InHand + commands
      BY DEF Outbound
    <3>4. Sending + requests + InHand + (commands - 1)
             = (Sending + requests + InHand + commands) - 1
      BY <1>0
    <3>. QED BY <3>2, <3>3, <3>4
  <2>3. ExitLine' = ExitLine
    BY <2>1 DEF ExitLine, ExitSeen
  <2>4. CASE working' = working + 1 /\ writing' = <<>>
    <3>1. Inbound' = Inbound
      BY <2>1, <2>4, InboundStays
    <3>. QED BY <2>1, <2>2, <2>3, <2>4, <3>1, Counts, Drains, SMTT(60)
  <2>5. CASE working' = working /\ writing' = <<"fatal">>
    <3>1. Inbound' = Inbound + 1
      BY <2>1, <2>5, Counts DEF Inbound, Held
    <3>. QED BY <2>1, <2>2, <2>3, <2>5, <3>1, Counts, Drains, SMTT(60)
  <2>. QED BY <2>1, <2>4, <2>5
<1>8. CASE HelperAnswers
  <2>1. /\ writing = <<>> /\ working' = working - 1 /\ \E line \in Lines : writing' = <<line>>
        /\ UNCHANGED <<driver, requests, writer, commands, replies, delivery, events, owed>>
    BY <1>8 DEF HelperAnswers, HelperIdle, driverVars, readerVars
  <2>2. Outbound' = Outbound
    BY <2>1, OutboundStays
  <2>3. Inbound' = Inbound + 1
    BY <2>1, Counts DEF Inbound, Held
  <2>4. ExitLine' = ExitLine
    BY <2>1 DEF ExitLine, ExitSeen
  <2>. QED BY <2>1, <2>2, <2>3, <2>4, Counts, Drains, SMTT(60)
<1>9. CASE HelperWrites
  <2>1. PICK line \in Lines : writing = <<line>>
    BY <1>1, <1>9 DEF HelperWrites, TypeOK
  <2>2. /\ writing' = <<>> /\ Len(replies') = Len(replies) + 1
        /\ UNCHANGED <<driver, requests, writer, commands, working, delivery, events, owed>>
    BY <1>1, <1>9, <2>1, Appending DEF HelperWrites, driverVars, readerVars, TypeOK
  <2>3. Outbound' = Outbound
    BY <2>2, OutboundStays
  <2>4. Inbound' = Inbound
    BY <2>1, <2>2, Counts DEF Inbound, Held
  <2>5. ExitLine' = ExitLine
    BY <2>2 DEF ExitLine, ExitSeen
  <2>. QED BY <2>2, <2>3, <2>4, <2>5, Counts, Drains, SMTT(60)
<1>10. CASE Read
  <2>1. /\ reader = "reading" /\ delivery = <<>>
        /\ UNCHANGED <<driver, requests, writer, commands, working, writing, events>>
    BY <1>1, <1>10 DEF Read, ReaderHolds, driverVars, helperVars
  <2>2. Outbound' = Outbound
    BY <2>1, OutboundStays
  <2>3. \A i \in 1..Len(events) : events[i] # "exited"
    BY <1>1, <2>1 DEF ExitBehind
  <2>4. ExitLine = 0 /\ ExitLine' = IF delivery' = <<"exited">> THEN 1 ELSE 0
    BY <2>1, <2>3 DEF ExitLine, ExitSeen
  <2>5. CASE replies = <<>>
    <3>1. delivery' = <<"exited">> /\ replies' = replies /\ owed' = owed
      BY <1>10, <2>5 DEF Read
    <3>2. Inbound' = Inbound + 1 /\ ExitLine' = 1
      BY <2>1, <2>4, <3>1, Counts DEF Inbound, Held
    <3>. QED BY <2>1, <2>2, <2>4, <3>1, <3>2, Counts, Drains, SMTT(60)
  <2>6. CASE replies # <<>>
    <3>1. Len(replies') = Len(replies) - 1 /\ Head(replies) # "exited"
      BY <1>1, <1>10, <2>6, Taking DEF Read, TypeOK, Lines
    <3>2. \/ owed' = owed - 1 /\ delivery' = <<>>
          \/ owed' = owed /\ delivery' = <<Head(replies)>>
      BY <1>10, <2>1, <2>6 DEF Read, readerVars
    <3>3. ExitLine' = 0
      BY <2>4, <3>1, <3>2
    <3>4. CASE owed' = owed - 1 /\ delivery' = <<>>
      <4>1. Inbound' = Inbound - 1
        BY <2>1, <3>1, <3>4, Counts DEF Inbound, Held
      <4>. QED BY <2>1, <2>2, <2>4, <3>3, <3>4, <4>1, Counts, Drains, SMTT(60)
    <3>5. CASE owed' = owed /\ delivery' = <<Head(replies)>>
      <4>1. Inbound' = Inbound
        BY <2>1, <3>1, <3>5, Counts DEF Inbound, Held
      <4>. QED BY <2>1, <2>2, <2>4, <3>3, <3>5, <4>1, Counts, Drains, SMTT(60)
    <3>. QED BY <3>2, <3>4, <3>5
  <2>. QED BY <2>5, <2>6
<1>11. CASE Deliver
  <2>1. PICK e \in Deliveries : delivery = <<e>>
    BY <1>1, <1>11 DEF Deliver, TypeOK, ReaderHolds, Deliveries
  <2>2. /\ Len(events') = Len(events) + 1 /\ delivery' = <<>>
        /\ \A i \in 1..Len(events) : events'[i] = events[i]
        /\ events'[Len(events) + 1] = e
        /\ UNCHANGED <<driver, requests, writer, commands, working, writing, replies, owed>>
    BY <1>1, <1>11, <2>1, Appending DEF Deliver, driverVars, helperVars, TypeOK, Deliveries
  <2>3. Outbound' = Outbound
    BY <2>2, OutboundStays
  <2>4. Inbound' = Inbound
    <3>1. Held(delivery) = 1 /\ Held(delivery)' = 0 /\ Held(writing)' = Held(writing)
      BY <2>1, <2>2 DEF Held
    <3>2. Inbound' = Held(writing) + Len(replies) + 0 + (Len(events) + 1)
      BY <2>2, <3>1 DEF Inbound
    <3>3. Inbound = Held(writing) + Len(replies) + 1 + Len(events)
      BY <3>1 DEF Inbound
    <3>. QED BY <3>2, <3>3, Counts, SMTT(60)
  <2>5. ExitLine' = ExitLine
    <3>1. Len(events) \in Nat
      BY Counts
    <3>2. ExitSeen => ExitSeen'
      BY <2>1, <2>2, <3>1 DEF ExitSeen
    <3>3. ExitSeen' => ExitSeen
      BY <2>1, <2>2, <3>1 DEF ExitSeen
    <3>. QED BY <3>2, <3>3 DEF ExitLine
  <2>. QED BY <2>2, <2>3, <2>4, <2>5, Counts, Drains, SMTT(60)
<1>12. CASE OnReply \/ OnFatal
  <2>1. /\ events # <<>> /\ events' = Tail(events) /\ Head(events) # "exited" /\ owed' = owed - 1
        /\ driver = "select" /\ driver' # "send"
        /\ UNCHANGED <<requests, writer, commands, working, writing, replies, delivery>>
    BY <1>12 DEF OnReply, OnFatal, TakeEvent, Selecting, End, helperVars, readerVars
  <2>2. /\ Len(events') = Len(events) - 1 /\ events[1] # "exited"
        /\ \A i \in 1..Len(events') : events'[i] = events[i + 1]
    BY <1>1, <2>1, Taking DEF TypeOK
  <2>3. Outbound' = Outbound
    BY <2>1, Counts DEF Outbound, Sending, InHand
  <2>4. PICK n \in Int : n = Inbound' /\ n = Inbound - 1
    <3>1. Inbound' = Held(writing) + Len(replies) + Held(delivery) + (Len(events) - 1)
      BY <2>1, <2>2 DEF Inbound, Held
    <3>2. Inbound = Held(writing) + Len(replies) + Held(delivery) + Len(events)
      BY DEF Inbound
    <3>3. Held(writing) + Len(replies) + Held(delivery) + (Len(events) - 1)
             = (Held(writing) + Len(replies) + Held(delivery) + Len(events)) - 1
      BY Counts, SMTT(60)
    <3>. QED BY <3>1, <3>2, <3>3, Counts
  <2>5. ExitSeen => ExitSeen'
    <3>1. ASSUME NEW i \in 1..Len(events), events[i] = "exited" PROVE ExitSeen'
      <4>1. i - 1 \in 1..Len(events') /\ events'[i - 1] = "exited"
        BY <2>2, <3>1, Counts
      <4>. QED BY <4>1 DEF ExitSeen
    <3>. QED BY <2>1, <3>1 DEF ExitSeen
  <2>6. PICK x \in Int : x = ExitLine' /\ ExitLine <= x
    BY <2>5 DEF ExitLine
  <2>7. PICK d \in Int : d = owed' /\ d = owed - 1
    BY <2>1, Counts
  <2>8. /\ d <= owed
        /\ Outbound + working + n + (owed - d) + (ExitLine - x) <= Outbound + working + Inbound
    <3>1. n = Inbound - 1 /\ d = owed - 1 /\ ExitLine <= x
      BY <2>4, <2>6, <2>7
    <3>. QED BY <1>0, <3>1
  <2>. QED BY <2>1, <2>3, <2>4, <2>6, <2>7, <2>8, Counts, Drains, SMTT(60)
<1>13. CASE OnExited
  <2>1. /\ events # <<>> /\ events' = Tail(events) /\ driver = "select" /\ driver' = "ended"
        /\ UNCHANGED <<requests, writer, commands, working, writing, replies, delivery, owed>>
    BY <1>13 DEF OnExited, TakeEvent, Selecting, End, readerVars
  <2>2. Len(events') = Len(events) - 1
    BY <1>1, <2>1, Taking DEF TypeOK
  <2>3. Outbound' = Outbound
    BY <2>1, Counts DEF Outbound, Sending, InHand
  <2>4. Inbound' = Inbound - 1
    BY <2>1, <2>2, Counts DEF Inbound, Held
  <2>5. ExitLine' \in {0, 1}
    BY DEF ExitLine
  <2>. QED BY <2>1, <2>3, <2>4, <2>5, Counts, Drains, SMTT(60)
<1>14. CASE DeliverFails
  <2>1. /\ reader = "delivering" /\ delivery # <<>> /\ delivery' = <<>>
        /\ UNCHANGED <<driver, requests, writer, commands, working, writing, replies, events, owed>>
    BY <1>1, <1>14 DEF DeliverFails, driverVars, helperVars, ReaderHolds
  <2>2. Outbound' = Outbound
    BY <2>1, OutboundStays
  <2>3. Inbound' = Inbound - 1
    BY <2>1, Counts DEF Inbound, Held
  <2>4. ExitLine' \in {0, 1}
    BY DEF ExitLine
  <2>. QED BY <2>1, <2>2, <2>3, <2>4, Counts, Drains, SMTT(60)
<1>15. CASE TickFinish \/ SendFails \/ OnSignal
  BY <1>15, EndKeeps DEF TickFinish, SendFails, OnSignal, End, readerVars
<1>16. CASE LookupSent \/ OnLookup \/ OnAction \/ Signal \/ HelperDies \/ UNCHANGED vars
  <2>1. UNCHANGED <<requests, writer, commands, working, writing, replies, delivery, events, owed>>
    BY <1>16 DEF LookupSent, OnLookup, OnAction, Signal, HelperDies, vars, driverVars, helperVars,
                 readerVars
  <2>2. Sending' = Sending
    BY <1>16 DEF LookupSent, OnLookup, OnAction, Signal, HelperDies, vars, driverVars, Selecting,
                 Sending
  <2>3. Outbound' = Outbound
    BY <2>1, <2>2 DEF Outbound, InHand
  <2>4. Inbound' = Inbound /\ ExitLine' = ExitLine
    BY <2>1, InboundStays
  <2>. QED BY <2>1, <2>3, <2>4, Counts, Drains, SMTT(60)
<1>. QED BY <1>2, <1>3, <1>4, <1>5, <1>6, <1>7, <1>8, <1>9, <1>10, <1>11, <1>12, <1>13, <1>14,
            <1>15, <1>16 DEF Next, Terminated

-----------------------------------------------------------------------------
(* The deadline *)

\* Every step leaves the driver a deadline exactly while the engine probes.
LEMMA DeadlineKept == ASSUME IInv, [Next]_vars PROVE DeadlineFollowsEngine'
<1>. USE DEF DeadlineFollowsEngine
<1>1. DeadlineFollowsEngine
  BY DEF IInv
<1>2. CASE TickProbe \/ OnReply \/ OnAction
  <2>1. deadline' = (engine' = "probing")
    BY <1>2, Zenon DEF TickProbe, OnReply, OnAction, NextDeadline
  <2>. QED BY <2>1
<1>3. CASE OnLookup
  <2>1. UNCHANGED <<deadline, engine, driver>>
    BY <1>3, Zenon DEF OnLookup, NextDeadline
  <2>. QED BY <1>1, <2>1
<1>4. CASE TickFinish \/ SendFails \/ OnFatal \/ OnExited \/ OnSignal
  BY <1>4 DEF TickFinish, SendFails, OnFatal, OnExited, OnSignal, End
<1>5. CASE SendProbe \/ LookupSent
  <2>1. driver # "ended" /\ UNCHANGED <<deadline, engine>>
    BY <1>5 DEF SendProbe, LookupSent
  <2>. QED BY <1>1, <2>1
<1>6. CASE \/ Signal \/ WriterTakes \/ WriterWrites \/ WriterStops \/ Read \/ Deliver \/ DeliverFails
           \/ HelperTakes \/ HelperAnswers \/ HelperWrites \/ HelperDies \/ UNCHANGED vars
  <2>1. UNCHANGED <<deadline, engine, driver>>
    BY <1>6 DEF Signal, WriterTakes, WriterWrites, WriterStops, Read, Deliver, DeliverFails,
                HelperTakes, HelperAnswers, HelperWrites, HelperDies, vars, driverVars
  <2>. QED BY <1>1, <2>1
<1>. QED BY <1>2, <1>3, <1>4, <1>5, <1>6 DEF Next, Terminated

-----------------------------------------------------------------------------
(* Theorems *)

\* The invariant holds initially.
LEMMA InitInv == Init => IInv
<1>. SUFFICES ASSUME Init PROVE IInv
  OBVIOUS
<1>. USE DEF Init
<1>1. TypeOK
  <2>1. deadline \in BOOLEAN /\ looking \in BOOLEAN /\ signal \in BOOLEAN
    BY Zenon
  <2>2. requests \in 0..RequestCap /\ commands \in 0..CommandCap /\ working \in Nat /\ owed \in Nat
    BY PipelineAssumption
  <2>3. /\ replies \in Seq(Lines) /\ Len(replies) <= ReplyCap
        /\ events \in Seq({"reply", "fatal", "exited"}) /\ Len(events) <= EventCap
    BY PipelineAssumption
  <2>4. /\ driver \in {"select", "send", "lookup", "ended"} /\ outcome \in Outcomes \cup {"none"}
        /\ engine \in {"probing", "paused", "finished"} /\ writer \in {"idle", "writing", "gone"}
        /\ helper \in {"alive", "dead"} /\ reader \in {"reading", "delivering", "gone"}
        /\ writing \in {<<>>} \cup {<<line>> : line \in Lines}
        /\ delivery \in {<<>>} \cup {<<e>> : e \in {"reply", "fatal", "exited"}}
    OBVIOUS
  <2>. QED BY <2>1, <2>2, <2>3, <2>4 DEF TypeOK
<1>2. ReaderHolds /\ ExitBehind /\ DeadlineFollowsEngine
  BY DEF ReaderHolds, ExitBehind, DeadlineFollowsEngine
<1>3. Balance
  <2>1. Outbound = 0 /\ ExitLine = 0
    BY DEF Outbound, Sending, InHand, ExitLine, ExitSeen
  <2>2. Inbound = 0
    BY DEF Inbound, Held
  <2>. QED BY <2>1, <2>2, PipelineAssumption DEF Balance
<1>. QED BY <1>1, <1>2, <1>3 DEF IInv

\* Every step keeps the invariant.
LEMMA StepInv == IInv /\ [Next]_vars => IInv'
BY Types, ReaderPlace, ExitStaysBehind, BalanceKept, DeadlineKept DEF IInv

\* When every stage is full, so much is owed; with less, some stage has room.
LEMMA Room == IInv => FullPathIsOwed
<1>. SUFFICES ASSUME IInv, Gridlock PROVE owed >= Capacity
  BY DEF FullPathIsOwed
<1>1. Sending = 1 /\ InHand = 1 /\ Held(writing) = 1
  BY DEF Gridlock, Sending, InHand, Held
<1>2. Held(delivery) = 1
  BY DEF Gridlock, IInv, ReaderHolds, Held
<1>3. ExitLine = 0
  BY DEF Gridlock, IInv, ExitBehind, Silence, ExitLine, ExitSeen
<1>4. /\ requests = RequestCap /\ commands = CommandCap /\ Len(replies) = ReplyCap
      /\ Len(events) = EventCap
  BY DEF Gridlock
<1>5. Outbound = 1 + RequestCap + 1 + CommandCap /\ Inbound = 1 + ReplyCap + 1 + EventCap
  BY <1>1, <1>2, <1>4 DEF Outbound, Inbound
<1>6. working \in Nat /\ owed \in Nat
  BY DEF IInv, TypeOK
<1>7. Outbound + working + Inbound <= owed
  BY <1>3, <1>6, Counts DEF IInv, Balance
<1>. QED BY <1>5, <1>6, <1>7, PipelineAssumption DEF Capacity

\* The invariant of the path holds in every reachable state.
THEOREM Invariant == Spec => []IInv
BY InitInv, StepInv, PTL DEF Spec

\* The variables keep their types; channels and pipes never hold more than their capacity.
THEOREM TypeCorrect == Spec => []TypeOK
<1>1. IInv => TypeOK
  BY DEF IInv
<1>. QED BY <1>1, Invariant, PTL

\* For every capacity of the channels and pipes, and with no bound on the probes that are
\* sent: driver, writer, helper and reader all wait for each other only when as many probes
\* are owed as the path can hold.
THEOREM GridlockNeedsFullPath == Spec => []FullPathIsOwed
BY Room, Invariant, PTL

\* For every capacity, all the helper has written is taken before its exit is.
THEOREM ExitSafe == Spec => []ExitComesLast
<1>1. IInv => ExitComesLast
  BY DEF IInv, ExitBehind, Silence, ExitComesLast, ReaderHolds
<1>. QED BY <1>1, Invariant, PTL

\* The deadline is set exactly while the engine probes.
THEOREM DeadlineSafe == Spec => []DeadlineFollowsEngine
<1>1. IInv => DeadlineFollowsEngine
  BY DEF IInv
<1>. QED BY <1>1, Invariant, PTL
=============================================================================
