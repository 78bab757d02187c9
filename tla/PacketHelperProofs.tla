-------------------------- MODULE PacketHelperProofs --------------------------
(***************************************************************************)
(* Every request the helper reads gets one response, its own and not a     *)
(* timeout when it was answered in time, for any load: any number of       *)
(* requests, table size, range of sequence numbers, timeouts and packets   *)
(* per probe.  At the end, the same for the command buffer in front of it,  *)
(* whose names begin apart from those of PacketHelper.                     *)
(***************************************************************************)
EXTENDS PacketHelper, CommandBuffer, FiniteSetTheorems, TLAPS

Elements(s) == {s[i] : i \in 1..Len(s)}

\* No request twice, in the table or among the answers.
Once(s) == \A i, j \in 1..Len(s) : s[i].req = s[j].req => i = j

Table == Elements(probes)
Given == Elements(Answers)

\* Requests are read and dispatched in the order of their lines.
Handled == written - Len(lines) - Len(taken)
InOrder ==
    /\ Handled \in Nat
    /\ \A i \in 1..Len(taken) : taken[i] = Handled + i
    /\ \A i \in 1..Len(lines) : lines[i] = Handled + Len(taken) + i

\* What a turn leaves behind.
Phases ==
    /\ todo # {} => pc = "streams"
    /\ taken # <<>> => pc \in {"expire", "dispatch"}
    /\ pc \in {"done", "fatal"} => responses = <<>>
    /\ ~pipeOpen => lines = <<>> /\ eof
    /\ pc = "done" /\ ~gone => ~pipeOpen /\ probes = <<>>
    /\ now <= clock

\* A request that was dispatched is in the table or answered, not both.
Accounted ==
    /\ Once(probes) /\ Once(Answers)
    /\ \A p \in Table : p.req <= Handled
    /\ \A a \in Given : a.req <= Handled
    /\ \A p \in Table, a \in Given : p.req # a.req
    /\ ~gone => \A r \in 1..Handled :
          (\E p \in Table : p.req = r) \/ (\E a \in Given : a.req = r)

\* Two probes were sent with one sequence number.
Collides(r) ==
    /\ sentAs[r] # NotSent
    /\ \E s \in Requests \ {r} : sentAs[s] # NotSent /\ sentAs[s].seq = sentAs[r].seq

\* An entry is what was sent, and only what was sent is answered.
SentOnce ==
    /\ \A r \in Requests : sentAs[r] # NotSent => r <= Handled
    /\ \A r \in Requests : sentAs[r] = NotSent => arrivals[r] = <<>> /\ r \notin net
    /\ \A p \in Table :
          sentAs[p.req] = [seq |-> p.seq, protocol |-> p.protocol, deadline |-> p.deadline]

\* An answer to an outstanding probe waits in a socket; once the sockets are drained, it
\* arrived no earlier than the time deadlines are compared with.
Waiting ==
    \A p \in Table : arrivals[p.req] # <<>> /\ ~Collides(p.req) =>
        /\ p.req \in net
        /\ pc \in {"streams", "expire"} =>
              \A k \in 1..Len(arrivals[p.req]) : arrivals[p.req][k] >= now

\* What an answer reports is what happened to its own probe.
Right(a) ==
    /\ a.of \in {0, a.req} \/ Collides(a.req)
    /\ a.kind = "no-reply" =>
          /\ sentAs[a.req] # NotSent /\ sentAs[a.req].deadline < clock
          /\ Collides(a.req) \/
                \A k \in 1..Len(arrivals[a.req]) : arrivals[a.req][k] > sentAs[a.req].deadline

Truthful == \A a \in Given : Right(a)

IInv == TypeOK /\ InOrder /\ Phases /\ Accounted /\ SentOnce /\ Waiting /\ Truthful

-----------------------------------------------------------------------------
(* Sequences of entries and of answers *)

\* The elements of a sequence, by position.
LEMMA Positions ==
    ASSUME NEW S, NEW s \in Seq(S)
    PROVE  /\ Len(s) \in Nat /\ Elements(s) \subseteq S
           /\ \A x : x \in Elements(s) <=> \E i \in 1..Len(s) : s[i] = x
BY SMT DEF Elements

\* The empty sequence.
LEMMA Nothing == Elements(<<>>) = {} /\ Once(<<>>) /\ Len(<<>>) = 0
BY SMT DEF Elements, Once

\* A sequence that has all of another and one more at the end.
LEMMA OneMore ==
    ASSUME NEW S, NEW s \in Seq(S), NEW t \in Seq(S), NEW x \in S,
           Len(t) = Len(s) + 1, \A i \in 1..Len(s) : t[i] = s[i], t[Len(s) + 1] = x
    PROVE  /\ Elements(t) = Elements(s) \cup {x}
           /\ Once(s) /\ (\A y \in Elements(s) : y.req # x.req) => Once(t)
<1>1. Len(s) \in Nat /\ \A y : y \in Elements(s) <=> \E i \in 1..Len(s) : s[i] = y
  BY Positions
<1>2. \A y : y \in Elements(t) <=> \E i \in 1..(Len(s) + 1) : t[i] = y
  <2>1. \A y : y \in Elements(t) <=> \E i \in 1..Len(t) : t[i] = y
    BY Positions, Zenon
  <2>. QED BY <2>1
<1>3. Elements(t) = Elements(s) \cup {x}
  BY <1>1, <1>2
<1>4. ASSUME Once(s), \A y \in Elements(s) : y.req # x.req PROVE Once(t)
  BY <1>1, <1>4 DEF Once
<1>. QED BY <1>3, <1>4

\* An entry that is made.
LEMMA Entering ==
    ASSUME NEW S, NEW s \in Seq(S), NEW x \in S
    PROVE  /\ Append(s, x) \in Seq(S) /\ Len(s) \in Nat /\ Len(Append(s, x)) = Len(s) + 1
           /\ Elements(Append(s, x)) = Elements(s) \cup {x}
           /\ Once(s) /\ (\A y \in Elements(s) : y.req # x.req) => Once(Append(s, x))
<1>1. /\ Append(s, x) \in Seq(S) /\ Len(s) \in Nat /\ Len(Append(s, x)) = Len(s) + 1
      /\ \A i \in 1..Len(s) : Append(s, x)[i] = s[i]
      /\ Append(s, x)[Len(s) + 1] = x
  BY SMT
<1>. DEFINE u == Append(s, x)
<1>. HIDE DEF u
<1>2. /\ Elements(u) = Elements(s) \cup {x}
      /\ Once(s) /\ (\A y \in Elements(s) : y.req # x.req) => Once(u)
  BY <1>1, OneMore, Zenon DEF u
<1>. QED BY <1>1, <1>2 DEF u

\* A response behind those that were written.
LEMMA Responding ==
    ASSUME NEW S, NEW s \in Seq(S), NEW t \in Seq(S), NEW x \in S
    PROVE  /\ Elements(s \o Append(t, x)) = Elements(s \o t) \cup {x}
           /\ Once(s \o t) /\ (\A y \in Elements(s \o t) : y.req # x.req)
                 => Once(s \o Append(t, x))
<1>1. /\ Append(t, x) \in Seq(S) /\ Len(t) \in Nat /\ Len(Append(t, x)) = Len(t) + 1
      /\ \A i \in 1..Len(t) : Append(t, x)[i] = t[i]
      /\ Append(t, x)[Len(t) + 1] = x
  BY SMT
<1>. DEFINE u == Append(t, x)
<1>. HIDE DEF u
<1>2. /\ s \o t \in Seq(S) /\ s \o u \in Seq(S)
      /\ Len(s \o t) = Len(s) + Len(t) /\ Len(s \o u) = Len(s) + Len(t) + 1
      /\ Len(s) \in Nat /\ Len(t) \in Nat
  BY <1>1 DEF u
<1>3. \A i \in 1..Len(s \o t) : (s \o u)[i] = (s \o t)[i]
  BY <1>1, <1>2 DEF u
<1>4. (s \o u)[Len(s) + Len(t) + 1] = x
  BY <1>1, <1>2 DEF u
<1>. QED BY <1>2, <1>3, <1>4, OneMore, ZenonT(60) DEF u

\* Responses that are written, and those that are lost.
LEMMA Writing ==
    ASSUME NEW S, NEW s \in Seq(S), NEW t \in Seq(S)
    PROVE  /\ (s \o t) \o <<>> = s \o t /\ s \o <<>> = s
           /\ Elements(s) \subseteq Elements(s \o t)
           /\ Once(s \o t) => Once(s)
<1>1. /\ s \o t \in Seq(S) /\ Len(s \o t) = Len(s) + Len(t) /\ Len(s) \in Nat /\ Len(t) \in Nat
      /\ \A i \in 1..Len(s) : (s \o t)[i] = s[i]
  BY SMT
<1>2. s \o <<>> = s /\ (s \o t) \o <<>> = s \o t
  BY <1>1, SMT
<1>3. Elements(s) \subseteq Elements(s \o t)
  <2>. DEFINE u == s \o t
  <2>. HIDE DEF u
  <2>1. /\ u \in Seq(S) /\ Len(u) = Len(s) + Len(t) /\ Len(s) \in Nat /\ Len(t) \in Nat
        /\ \A i \in 1..Len(s) : u[i] = s[i]
    BY <1>1, Zenon DEF u
  <2>2. \A y : y \in Elements(u) <=> \E i \in 1..Len(u) : u[i] = y
    BY <2>1, Positions, Zenon
  <2>3. \A y : y \in Elements(s) <=> \E i \in 1..Len(s) : s[i] = y
    BY Positions
  <2>4. Elements(s) \subseteq Elements(u)
    BY <2>1, <2>2, <2>3
  <2>. QED BY <2>4 DEF u
<1>4. Once(s \o t) => Once(s)
  BY <1>1 DEF Once
<1>. QED BY <1>2, <1>3, <1>4

\* An entry that leaves the table, the last one in its place.
LEMMA Swapping ==
    ASSUME NEW S, NEW s \in Seq(S), NEW i \in 1..Len(s), Once(s)
    PROVE  /\ SwapRemove(s, i) \in Seq(S) /\ Len(s) \in Nat
           /\ Len(SwapRemove(s, i)) = Len(s) - 1
           /\ Once(SwapRemove(s, i))
           /\ Elements(SwapRemove(s, i)) = Elements(s) \ {s[i]}
           /\ \A y \in Elements(SwapRemove(s, i)) : y.req # s[i].req
<1>. DEFINE n == Len(s) - 1
            t == SwapRemove(s, i)
<1>1. Len(s) \in Nat /\ n \in Nat /\ \A j \in 1..Len(s) : s[j] \in S
  BY SMT
<1>2. /\ t \in [1..n -> S]
      /\ \A j \in 1..n : t[j] = IF j = i THEN s[Len(s)] ELSE s[j]
  BY <1>1 DEF SwapRemove
<1>3. t \in Seq(S) /\ Len(t) = n
  BY <1>1, <1>2
<1>. HIDE DEF t
<1>4. Once(t)
  BY <1>1, <1>2, <1>3 DEF Once
<1>5. \A y : y \in Elements(s) <=> \E j \in 1..Len(s) : s[j] = y
  BY Positions
<1>6. \A y : y \in Elements(t) <=> \E j \in 1..n : t[j] = y
  <2>1. \A y : y \in Elements(t) <=> \E j \in 1..Len(t) : t[j] = y
    BY <1>3, Positions, Zenon
  <2>. QED BY <2>1, <1>3
<1>7. ASSUME NEW y, y \in Elements(t) PROVE y \in Elements(s) /\ y.req # s[i].req
  <2>1. PICK j \in 1..n : t[j] = y
    BY <1>6, <1>7
  <2>2. PICK k \in 1..Len(s) : k # i /\ s[k] = y
    BY <1>1, <1>2, <2>1
  <2>. QED BY <2>2, <1>5 DEF Once
<1>8. ASSUME NEW y, y \in Elements(s), y # s[i] PROVE y \in Elements(t)
  <2>1. PICK k \in 1..Len(s) : s[k] = y
    BY <1>5, <1>8
  <2>2. k # i
    BY <2>1, <1>8
  <2>3. CASE k = Len(s)
    <3>1. i \in 1..n /\ t[i] = y
      BY <1>1, <1>2, <2>1, <2>2, <2>3
    <3>. QED BY <3>1, <1>6
  <2>4. CASE k # Len(s)
    <3>1. k \in 1..n /\ t[k] = y
      BY <1>1, <1>2, <2>1, <2>2, <2>4
    <3>. QED BY <3>1, <1>6
  <2>. QED BY <2>3, <2>4
<1>9. Elements(t) = Elements(s) \ {s[i]}
  BY <1>7, <1>8
<1>. QED BY <1>1, <1>3, <1>4, <1>7, <1>9 DEF t

\* A set of positions has a first.
LEMMA First ==
    ASSUME NEW T, T \subseteq Nat, T # {}
    PROVE  \E x \in T : \A y \in T : x <= y
<1>1. OpToRel(<, Nat) = {ss \in Nat \X Nat : ss[1] < ss[2]}
  BY DEF OpToRel
<1>2. \E x \in T : \A y \in T : <<y, x>> \notin OpToRel(<, Nat)
  BY NatLessThanWellFounded, WFMin, Zenon
<1>3. PICK x \in T : \A y \in T : <<y, x>> \notin {ss \in Nat \X Nat : ss[1] < ss[2]}
  BY <1>1, <1>2
<1>4. ASSUME NEW y \in T PROVE x <= y
  <2>1. x \in Nat /\ y \in Nat
    OBVIOUS
  <2>2. <<y, x>> \in Nat \X Nat /\ <<y, x>>[1] = y /\ <<y, x>>[2] = x
    BY <2>1
  <2>3. ~(y < x)
    BY <1>3, <2>2
  <2>. QED BY <2>1, <2>3
<1>. QED BY <1>4

-----------------------------------------------------------------------------
(* Constants, and what the steps do to the table and the answers *)

\* What the load allows does not change while the process runs.
LEMMA LoadStays ==
    ASSUME TypeOK, [Next]_vars
    PROVE  /\ load' = load
           /\ Requests' = Requests /\ Probes' = Probes /\ Responses' = Responses
           /\ Sendings' = Sendings /\ MaxClock' = MaxClock /\ MaxRequest' = MaxRequest
           /\ Ports' = Ports
<1>1. load' = load
  BY DEF Next, HelperStep, Unplanned, Environment, Ended, vars
<1>. QED BY <1>1 DEF Requests, Probes, Responses, Sendings, MaxClock, MaxRequest, Ports, MaxPort,
                     Protocols

\* The numbers of a load.
LEMMA LoadFacts ==
    ASSUME TypeOK
    PROVE  /\ MaxRequest \in Nat /\ MaxClock \in Nat /\ MaxPort \in Nat /\ MinPort \in Nat
           /\ MinPort < MaxPort /\ Protocols \subseteq {"icmp", "udp", "stream"}
           /\ Requests = 1..MaxRequest /\ MaxProbes \in Nat
           /\ now \in Nat /\ clock \in Nat /\ clock <= MaxClock
           /\ Len(lines) \in Nat /\ Len(taken) \in Nat /\ written \in Nat
           /\ Len(probes) \in Nat
<1>1. load \in LoadRecords /\ MinPort < load.maxPort /\ MinPort \in Nat /\ MaxProbes \in Nat
  BY PacketHelperAssumption DEF TypeOK
<1>2. /\ load.requests \in Nat /\ load.clock \in Nat /\ load.maxPort \in Nat
      /\ load.protocols \subseteq {"icmp", "udp", "stream"}
  BY <1>1 DEF LoadRecords
<1>3. MaxRequest \in Nat /\ MaxClock \in Nat /\ MaxPort \in Nat
      /\ Protocols \subseteq {"icmp", "udp", "stream"}
  BY <1>2 DEF MaxRequest, MaxClock, MaxPort, Protocols
<1>. QED BY <1>1, <1>3 DEF TypeOK, Requests, MaxPort

\* Entries are probes, answers are responses.
LEMMA Contents ==
    ASSUME TypeOK
    PROVE  /\ Table \subseteq Probes /\ Given \subseteq Responses /\ Answers \in Seq(Responses)
           /\ \A p \in Table : p.req \in Requests /\ p.req \in Nat
           /\ \A a \in Given : a.req \in Requests /\ a.req \in Nat
           /\ \A p : p \in Table <=> \E i \in 1..Len(probes) : probes[i] = p
           /\ \A a : a \in Given <=> \E i \in 1..Len(Answers) : Answers[i] = a
<1>1. probes \in Seq(Probes) /\ Answers \in Seq(Responses)
  BY DEF TypeOK, Answers
<1>2. /\ Table \subseteq Probes
      /\ \A p : p \in Table <=> \E i \in 1..Len(probes) : probes[i] = p
  BY <1>1, Positions, Zenon DEF Table
<1>3. /\ Given \subseteq Responses
      /\ \A a : a \in Given <=> \E i \in 1..Len(Answers) : Answers[i] = a
  BY <1>1, Positions, Zenon DEF Given
<1>4. \A r \in Requests : r \in Nat
  BY LoadFacts
<1>5. /\ \A p \in Probes : p.req \in Requests
      /\ \A a \in Responses : a.req \in Requests
  BY DEF Probes, Responses
<1>. QED BY <1>1, <1>2, <1>3, <1>4, <1>5, Zenon

\* An entry is removed and its request answered.
LEMMA Removal ==
    ASSUME TypeOK, Accounted, NEW i \in DOMAIN probes, NEW kind \in Kinds,
           NEW of \in 0..MaxRequest, TakeOut(i, kind, of), output' = output
    PROVE  /\ probes[i] \in Table /\ probes[i] \in Probes /\ i \in 1..Len(probes)
           /\ Table' = Table \ {probes[i]}
           /\ \A q \in Table' : q.req # probes[i].req
           /\ Given' = Given \cup {Answer(probes[i].req, kind, of)}
           /\ Once(probes)' /\ Once(Answers)'
           /\ probes' \in Seq(Probes) /\ Len(probes') = Len(probes) - 1
           /\ responses' \in Seq(Responses)
<1>. DEFINE a == Answer(probes[i].req, kind, of)
<1>1. /\ probes \in Seq(Probes) /\ output \in Seq(Responses) /\ responses \in Seq(Responses)
      /\ Once(probes) /\ Once(Answers) /\ \A p \in Table, b \in Given : p.req # b.req
  BY DEF TypeOK, Accounted
<1>2. i \in 1..Len(probes) /\ probes[i] \in Probes
  BY <1>1
<1>3. probes' = SwapRemove(probes, i) /\ responses' = Append(responses, a)
  BY DEF TakeOut
<1>4. probes[i].req \in Requests /\ a \in Responses /\ a.req = probes[i].req
  BY <1>2 DEF Probes, Responses, Answer
<1>. HIDE DEF a
<1>5. probes[i] \in Table
  BY <1>1, <1>2, Positions DEF Table
<1>6. /\ SwapRemove(probes, i) \in Seq(Probes)
      /\ Len(SwapRemove(probes, i)) = Len(probes) - 1
      /\ Once(SwapRemove(probes, i))
      /\ Elements(SwapRemove(probes, i)) = Table \ {probes[i]}
      /\ \A q \in Elements(SwapRemove(probes, i)) : q.req # probes[i].req
  BY <1>1, <1>2, Swapping, Zenon DEF Table
<1>7. /\ probes' \in Seq(Probes) /\ Len(probes') = Len(probes) - 1
      /\ Once(probes)' /\ Table' = Table \ {probes[i]}
      /\ \A q \in Table' : q.req # probes[i].req
  BY <1>3, <1>6 DEF Table, Elements, Once
<1>8. /\ Elements(output \o Append(responses, a)) = Given \cup {a}
      /\ Once(output \o Append(responses, a))
  <2>1. Once(output \o responses) /\ Given = Elements(output \o responses)
    BY <1>1 DEF Given, Answers
  <2>2. \A y \in Elements(output \o responses) : y.req # a.req
    BY <1>1, <1>4, <1>5, <2>1
  <2>3. /\ Elements(output \o Append(responses, a)) = Elements(output \o responses) \cup {a}
        /\ Once(output \o responses) /\ (\A y \in Elements(output \o responses) : y.req # a.req)
              => Once(output \o Append(responses, a))
    BY <1>1, <1>4, Responding, Zenon
  <2>. QED BY <2>1, <2>2, <2>3
<1>9. Given' = Given \cup {a} /\ Once(Answers)'
  BY <1>3, <1>8 DEF Given, Answers, Elements, Once
<1>10. responses' \in Seq(Responses)
  BY <1>1, <1>3, <1>4, Entering
<1>. QED BY <1>2, <1>5, <1>7, <1>9, <1>10 DEF a

\* A line is answered at once.
LEMMA Answering ==
    ASSUME TypeOK, InOrder, Accounted, NEW r \in Requests, r > Handled,
           NEW kind \in Kinds, NEW of \in 0..MaxRequest,
           responses' = Append(responses, Answer(r, kind, of)), output' = output
    PROVE  /\ Given' = Given \cup {Answer(r, kind, of)} /\ Once(Answers)'
           /\ responses' \in Seq(Responses)
<1>. DEFINE a == Answer(r, kind, of)
<1>1. /\ output \in Seq(Responses) /\ responses \in Seq(Responses)
      /\ Once(Answers) /\ Handled \in Nat /\ \A b \in Given : b.req <= Handled
  BY DEF TypeOK, Accounted, InOrder
<1>2. a \in Responses /\ a.req = r
  BY DEF Responses, Answer
<1>3. responses' = Append(responses, a)
  OBVIOUS
<1>. HIDE DEF a
<1>4. ASSUME NEW b \in Given PROVE b.req # a.req
  <2>1. b.req \in Nat
    BY Contents
  <2>2. b.req <= Handled
    BY <1>1
  <2>3. a.req > Handled /\ a.req \in Nat
    BY <1>2, LoadFacts
  <2>. QED BY <1>1, <2>1, <2>2, <2>3
<1>5. /\ Elements(output \o Append(responses, a)) = Given \cup {a}
      /\ Once(output \o Append(responses, a))
  <2>1. Once(output \o responses) /\ Given = Elements(output \o responses)
    BY <1>1 DEF Given, Answers
  <2>2. \A y \in Elements(output \o responses) : y.req # a.req
    BY <1>4, <2>1
  <2>3. /\ Elements(output \o Append(responses, a)) = Elements(output \o responses) \cup {a}
        /\ Once(output \o responses) /\ (\A y \in Elements(output \o responses) : y.req # a.req)
              => Once(output \o Append(responses, a))
    BY <1>1, <1>2, Responding, Zenon
  <2>. QED BY <2>1, <2>2, <2>3
<1>6. Given' = Given \cup {a} /\ Once(Answers)'
  <2>. DEFINE u == output \o Append(responses, a)
  <2>1. Answers' = u
    BY <1>3 DEF Answers
  <2>. HIDE DEF u
  <2>2. Given' = Elements(u) /\ Once(Answers)' = Once(u)
    BY <2>1, Zenon DEF Given, Elements, Once
  <2>. QED BY <1>5, <2>2, Zenon DEF u
<1>7. responses' \in Seq(Responses)
  BY <1>1, <1>2, <1>3, Entering
<1>. QED BY <1>6, <1>7 DEF a

\* Drawing a sequence number.
LEMMA Drawing ==
    ASSUME TypeOK, NEW k \in Nat
    PROVE  SequenceAfter(nextSequence, k) \in Ports
<1>. DEFINE n == MaxPort - MinPort + 1
            m == nextSequence - MinPort + k
<1>1. n \in Nat /\ n > 0 /\ m \in Nat
  <2>1. /\ MaxPort \in Nat /\ MinPort \in Nat /\ MinPort < MaxPort
        /\ nextSequence \in MinPort..MaxPort
    BY LoadFacts DEF TypeOK, Ports
  <2>. HIDE DEF MaxPort
  <2>. QED BY <2>1
<1>. HIDE DEF n, m
<1>2. m % n \in 0..(n - 1)
  BY <1>1
<1>3. SequenceAfter(nextSequence, k) = MinPort + (m % n)
  BY DEF SequenceAfter, n, m
<1>4. \A d \in 0..(n - 1) : MinPort + d \in Ports
  BY LoadFacts DEF Ports, n
<1>. QED BY <1>2, <1>3, <1>4

\* The line at the head is the next request; it is answered, or sent and entered.
LEMMA Dispatching ==
    ASSUME TypeOK, InOrder, Accounted, Dispatch
    PROVE  LET r == Handled + 1 IN
           /\ r \in Requests /\ Handled' = Handled + 1
           /\ \/ /\ UNCHANGED <<probes, sentAs, connect>>
                 /\ nextSequence' \in Ports /\ responses' \in Seq(Responses)
                 /\ Once(Answers)'
                 /\ \E kind \in Kinds \ {"no-reply"}, of \in {0, r} :
                       Given' = Given \cup {Answer(r, kind, of)}
              \/ \E p \in Probes :
                    /\ p.req = r /\ Table' = Table \cup {p} /\ Once(probes)'
                    /\ probes' \in Seq(Probes) /\ Len(probes') <= MaxProbes
                    /\ Len(probes') = Len(probes) + 1
                    /\ nextSequence' \in Ports /\ UNCHANGED responses
                    /\ Given' = Given /\ Once(Answers)'
                    /\ sentAs' = [sentAs EXCEPT ![r] = [seq |-> p.seq,
                                     protocol |-> p.protocol, deadline |-> p.deadline]]
                    /\ \E c \in {"none", "connecting", "reached", "failed"} :
                          connect' = [connect EXCEPT ![r] = c]
<1>. DEFINE r == Handled + 1
<1>1. /\ taken \in Seq(Requests) /\ taken # <<>> /\ taken' = Tail(taken)
      /\ UNCHANGED <<lines, written, output>>
  BY DEF Dispatch, TypeOK
<1>2. /\ Len(taken) \in Nat /\ Len(taken) >= 1 /\ Len(Tail(taken)) = Len(taken) - 1
      /\ Head(taken) = taken[1] /\ taken[1] \in Requests
  BY <1>1
<1>3. Head(taken) = r /\ r \in Requests /\ r > Handled /\ Handled \in Nat
  BY <1>2 DEF InOrder
<1>4. Handled' = Handled + 1
  <2>1. written \in Int /\ Len(lines) \in Int
    BY LoadFacts
  <2>. QED BY <1>1, <1>2, <2>1 DEF Handled
<1>5. /\ AnswerAtOnce(r) \/ Exhausted(r) \/ Sent(r) \/ NotSendable(r)
      /\ \A p \in Table : p.req <= Handled
      /\ Once(probes) /\ Once(Answers) /\ probes \in Seq(Probes) /\ nextSequence \in Ports
      /\ connect \in [Requests -> {"none", "connecting", "reached", "failed"}]
  BY <1>3 DEF Dispatch, Accounted, TypeOK
<1>. HIDE DEF r
<1>. DEFINE AnsweredAtOnce ==
                 /\ UNCHANGED <<probes, sentAs, connect>>
                 /\ nextSequence' \in Ports /\ responses' \in Seq(Responses)
                 /\ Once(Answers)'
                 /\ \E kind \in Kinds \ {"no-reply"}, of \in {0, r} :
                       Given' = Given \cup {Answer(r, kind, of)}
<1>6. 0 \in 0..MaxRequest /\ r \in 0..MaxRequest
  BY <1>3, LoadFacts
<1>7. CASE AnswerAtOnce(r) \/ Exhausted(r)
  <2>1. PICK kind \in {"info", "exhausted"} : responses' = Append(responses, Answer(r, kind, 0))
    BY <1>7 DEF AnswerAtOnce, Exhausted
  <2>2. UNCHANGED <<probes, nextSequence, connect, sentAs>>
    BY <1>7 DEF AnswerAtOnce, Exhausted
  <2>3. kind \in Kinds \ {"no-reply"}
    BY DEF Kinds
  <2>4. /\ Given' = Given \cup {Answer(r, kind, 0)} /\ Once(Answers)'
        /\ responses' \in Seq(Responses)
    BY <1>1, <1>3, <1>6, <2>1, <2>3, Answering
  <2>5. AnsweredAtOnce
    BY <1>5, <2>2, <2>3, <2>4
  <2>. QED BY <1>3, <1>4, <2>5 DEF r
<1>8. CASE NotSendable(r)
  <2>1. PICK kind \in {"error", "reply"} : responses' = Append(responses, Answer(r, kind, r))
    BY <1>8 DEF NotSendable
  <2>2. UNCHANGED <<probes, connect, sentAs>>
    BY <1>8 DEF NotSendable
  <2>3. kind \in Kinds \ {"no-reply"}
    BY DEF Kinds
  <2>4. /\ Given' = Given \cup {Answer(r, kind, r)} /\ Once(Answers)'
        /\ responses' \in Seq(Responses)
    BY <1>1, <1>3, <1>6, <2>1, <2>3, Answering
  <2>5. nextSequence' \in Ports
    <3>1. PICK busy \in 0..Attempts : nextSequence' = SequenceAfter(nextSequence, busy + 1)
      BY <1>8 DEF NotSendable
    <3>2. busy + 1 \in Nat
      BY LoadFacts DEF Attempts
    <3>. QED BY <3>1, <3>2, Drawing
  <2>6. AnsweredAtOnce
    BY <2>2, <2>3, <2>4, <2>5
  <2>. QED BY <1>3, <1>4, <2>6 DEF r
<1>9. CASE Sent(r)
  <2>1. PICK timeout \in Timeouts, protocol \in Protocols, busy \in 0..(Attempts - 1) :
           LET seq == SequenceAfter(nextSequence, busy)
               p   == [req |-> r, seq |-> seq, protocol |-> protocol,
                        deadline |-> now + timeout]
           IN  /\ probes' = Append(probes, p)
               /\ nextSequence' = SequenceAfter(nextSequence, busy + 1)
               /\ sentAs' = [sentAs EXCEPT ![r] =
                      [seq |-> seq, protocol |-> protocol, deadline |-> p.deadline]]
               /\ connect' = [connect EXCEPT ![r] =
                                 IF protocol = "stream" THEN "connecting" ELSE @]
               /\ UNCHANGED responses
    BY <1>9, Zenon DEF Sent
  <2>. DEFINE seq == SequenceAfter(nextSequence, busy)
              p == [req |-> r, seq |-> seq, protocol |-> protocol, deadline |-> now + timeout]
  <2>2. busy \in Nat /\ busy + 1 \in Nat
    BY LoadFacts DEF Attempts
  <2>3. seq \in Ports /\ nextSequence' \in Ports
    BY <2>1, <2>2, Drawing
  <2>4. now + timeout \in Nat
    BY LoadFacts, PacketHelperAssumption
  <2>. HIDE DEF seq
  <2>5. p \in Probes /\ p.req = r /\ p.seq = seq /\ p.protocol = protocol
        /\ p.deadline = now + timeout
    BY <1>3, <2>3, <2>4 DEF Probes
  <2>6. /\ probes' = Append(probes, p)
        /\ sentAs' = [sentAs EXCEPT ![r] = [seq |-> p.seq, protocol |-> p.protocol,
                                            deadline |-> p.deadline]]
    BY <2>1, <2>5 DEF seq
  <2>. HIDE DEF p
  <2>7. /\ Append(probes, p) \in Seq(Probes) /\ Len(probes) \in Nat
        /\ Len(Append(probes, p)) = Len(probes) + 1
        /\ Elements(Append(probes, p)) = Table \cup {p} /\ Once(Append(probes, p))
    <3>1. ASSUME NEW q \in Table PROVE q.req # p.req
      <4>1. q.req \in Nat
        BY Contents
      <4>2. q.req <= Handled /\ p.req = r
        BY <1>5, <2>5
      <4>. QED BY <1>3, <4>1, <4>2, LoadFacts
    <3>. QED BY <1>5, <2>5, <3>1, Entering, Zenon DEF Table
  <2>8. /\ Table' = Table \cup {p} /\ Once(probes)' /\ probes' \in Seq(Probes)
        /\ Len(probes') = Len(probes) + 1
    BY <2>6, <2>7 DEF Table, Elements, Once
  <2>9. Len(probes') <= MaxProbes
    BY <1>9, <2>7, <2>8, LoadFacts DEF Sent
  <2>10. UNCHANGED responses /\ Given' = Given /\ Once(Answers)'
    BY <1>1, <1>5, <2>1 DEF Given, Answers, Elements, Once
  <2>11. \E c \in {"none", "connecting", "reached", "failed"} :
            connect' = [connect EXCEPT ![r] = c]
    <3>1. connect' = [connect EXCEPT ![r] =
                         IF protocol = "stream" THEN "connecting" ELSE connect[r]]
      BY <2>1
    <3>2. connect[r] \in {"none", "connecting", "reached", "failed"}
      BY <1>3, <1>5
    <3>. QED BY <3>1, <3>2
  <2>. QED BY <1>3, <1>4, <2>3, <2>5, <2>6, <2>8, <2>9, <2>10, <2>11 DEF r
<1>. QED BY <1>5, <1>7, <1>8, <1>9

\* Nothing is entered or answered.
LEMMA Unchanged ==
    /\ Answers' = Answers => Given' = Given /\ Once(Answers)' = Once(Answers)
    /\ probes' = probes => Table' = Table /\ Once(probes)' = Once(probes)
<1>1. ASSUME Answers' = Answers PROVE Given' = Given
  BY <1>1, SMT DEF Given, Elements
<1>2. ASSUME Answers' = Answers PROVE Once(Answers)' = Once(Answers)
  BY <1>2, Zenon DEF Once
<1>3. ASSUME probes' = probes PROVE Table' = Table /\ Once(probes)' = Once(probes)
  BY <1>3, Zenon DEF Table, Elements, Once
<1>. QED BY <1>1, <1>2, <1>3

-----------------------------------------------------------------------------
(* What a step can be *)

\* A packet, a settled connect or a deadline ends a probe.
Takes(i, kind, of) ==
    /\ TakeOut(i, kind, of)
    /\ UNCHANGED <<pc, now, nextSequence, lines, taken, pipeOpen, output, clock, written, eof,
                   gone, connect, sentAs, arrivals>>
    /\ \/ /\ pc = "receive" /\ kind = "reply" /\ of \in net /\ i \in Matches(of)
          /\ net' = net \ {of} /\ todo' = todo
       \/ /\ pc = "streams" /\ kind \in {"reply", "error"} /\ of = probes[i].req
          /\ i \in todo /\ (\A j \in todo : j <= i) /\ todo' = todo \ {i} /\ net' = net
       \/ /\ pc = "expire" /\ kind = "no-reply" /\ of = 0 /\ probes[i].deadline < now
          /\ net' = net /\ todo' = todo

\* The responses of a turn leave, or are lost with the client.
Writes ==
    /\ UNCHANGED <<probes, nextSequence, todo, lines, taken, pipeOpen, clock, env>>
    /\ responses' = <<>>
    /\ pc \in {"receive", "flush"} /\ pc' \in {"poll", "done", "fatal"}
    /\ output' = output \o responses \/ (gone /\ output' = output)
    /\ pc' = "done" /\ ~gone => ~pipeOpen /\ probes = <<>>
    /\ now' \in {now, 0}

\* A packet that belongs to no probe.
Ignores(r) ==
    /\ r \in net /\ net' = net \ {r} /\ Matches(r) = {}
    /\ pc = "receive" /\ UNCHANGED <<pc, todo, now, lines, taken, pipeOpen>>
    /\ UNCHANGED <<clock, written, eof, gone, connect, sentAs, arrivals>>

\* A step within the turn that ends no probe.
Turns ==
    /\ UNCHANGED <<clock, env>>
    /\ \/ pc' = "receive" /\ pc = "poll" /\ now' = clock
             /\ UNCHANGED <<todo, lines, taken, pipeOpen>>
       \/ Drained \/ Read \/ Expired \/ Dispatched \/ Aborts
       \/ pc = "streams" /\ todo' \subseteq todo /\ UNCHANGED <<pc, now, lines, taken, pipeOpen>>
       \/ pc = "expire" /\ UNCHANGED <<pc, now, todo, lines, taken, pipeOpen>>

\* A step of the environment.
Surroundings ==
    /\ UNCHANGED <<pc, now, todo, taken, pipeOpen, sentAs>>
    /\ \/ ClientWrites
       \/ UNCHANGED <<lines, written>> /\ gone \in {gone', FALSE} /\ eof' \in {eof, TRUE}
          /\ UNCHANGED <<clock, net, connect, arrivals>>
       \/ Advance
       \/ \E r \in Requests : Arrive(r) \/ Settle(r)
       \/ UNCHANGED vars

\* Every step is one of these.
LEMMA Steps ==
    ASSUME TypeOK, [Next]_vars
    PROVE  \/ Dispatch
           \/ \E i \in DOMAIN probes, kind \in Kinds, of \in 0..MaxRequest : Takes(i, kind, of)
           \/ Writes
           \/ /\ UNCHANGED <<probes, nextSequence, responses, output>>
              /\ (\E r \in Requests : Ignores(r)) \/ Turns \/ Surroundings
<1>. DEFINE Taking == \E i \in DOMAIN probes, kind \in Kinds, of \in 0..MaxRequest :
                          Takes(i, kind, of)
            Still == UNCHANGED <<probes, nextSequence, responses, output>>
<1>1. "reply" \in Kinds /\ "error" \in Kinds /\ "no-reply" \in Kinds
  BY DEF Kinds
<1>2. /\ probes \in Seq(Probes) /\ todo \subseteq DOMAIN probes /\ at \in Nat \ {0}
      /\ net \subseteq Requests
      /\ connect \in [Requests -> {"none", "connecting", "reached", "failed"}]
  BY DEF TypeOK
<1>3. 0 \in 0..MaxRequest /\ \A r \in Requests : r \in 0..MaxRequest
  BY LoadFacts
<1>4. ASSUME Receive PROVE Taking \/ (Still /\ \E r \in Requests : Ignores(r))
  <2>1. PICK r \in net : /\ net' = net \ {r}
                         /\ \/ \E i \in Matches(r) : TakeOut(i, "reply", r)
                            \/ Matches(r) = {} /\ UNCHANGED <<probes, responses>>
    BY <1>4, Zenon DEF Receive
  <2>2. r \in Requests /\ r \in 0..MaxRequest
    BY <1>2, <1>3
  <2>3. CASE \E i \in Matches(r) : TakeOut(i, "reply", r)
    <3>1. PICK i \in Matches(r) : TakeOut(i, "reply", r)
      BY <2>3
    <3>2. i \in DOMAIN probes
      BY DEF Matches, FindBySequence
    <3>3. Takes(i, "reply", r)
      BY <1>4, <2>1, <3>1 DEF Receive, Takes
    <3>. QED BY <1>1, <2>2, <3>2, <3>3, Zenon
  <2>4. CASE Matches(r) = {} /\ UNCHANGED <<probes, responses>>
    BY <1>4, <2>1, <2>2, <2>4, Zenon DEF Receive, Ignores
  <2>. QED BY <2>1, <2>3, <2>4
<1>5. ASSUME CheckStream PROVE Taking \/ (Still /\ Turns)
  <2>1. PICK i \in todo :
            /\ \A j \in todo : j <= i
            /\ todo' = todo \ {i}
            /\ LET r == probes[i].req IN
                \/ connect[r] = "connecting" /\ UNCHANGED <<probes, responses>>
                \/ connect[r] = "reached" /\ TakeOut(i, "reply", r)
                \/ connect[r] = "failed" /\ TakeOut(i, "error", r)
    BY <1>5, Zenon DEF CheckStream
  <2>2. i \in DOMAIN probes /\ probes[i].req \in 0..MaxRequest
    <3>1. i \in DOMAIN probes /\ probes[i] \in Probes
      BY <1>2
    <3>2. probes[i].req \in Requests
      BY <3>1 DEF Probes
    <3>. QED BY <1>3, <3>1, <3>2, Zenon
  <2>3. CASE TakeOut(i, "reply", probes[i].req)
    <3>1. Takes(i, "reply", probes[i].req)
      BY <1>5, <2>1, <2>3 DEF CheckStream, Takes, env
    <3>. QED BY <1>1, <2>2, <3>1, Zenon
  <2>4. CASE TakeOut(i, "error", probes[i].req)
    <3>1. Takes(i, "error", probes[i].req)
      BY <1>5, <2>1, <2>4 DEF CheckStream, Takes, env
    <3>. QED BY <1>1, <2>2, <3>1, Zenon
  <2>5. CASE UNCHANGED <<probes, responses>>
    <3>1. todo' \subseteq todo
      BY <2>1
    <3>. QED BY <1>5, <2>5, <3>1, Zenon DEF CheckStream, Turns
  <2>. QED BY <2>1, <2>3, <2>4, <2>5
<1>6. ASSUME Expire PROVE Taking \/ (Still /\ Turns)
  <2>1. at \in DOMAIN probes
    BY <1>2, <1>6 DEF Expire
  <2>2. CASE probes[at].deadline < now /\ TakeOut(at, "no-reply", 0)
    <3>1. Takes(at, "no-reply", 0)
      BY <1>6, <2>2 DEF Expire, Takes, env
    <3>. QED BY <1>1, <1>3, <2>1, <3>1, Zenon
  <2>3. CASE UNCHANGED <<probes, responses>>
    BY <1>6, <2>3, Zenon DEF Expire, Turns
  <2>. QED BY <1>6, <2>2, <2>3 DEF Expire
<1>7. ASSUME Flush \/ ReceiveFails PROVE Writes
  <2>1. CASE Flush
    <3>1. pc = "flush" /\ pc' \in {"done", "poll"}
      BY <2>1 DEF Flush
    <3>2. output' = output \o responses \/ (gone /\ output' = output)
      BY <2>1 DEF Flush
    <3>3. pc' = "done" /\ ~gone => ~pipeOpen /\ probes = <<>>
      BY <2>1 DEF Flush, ExitNow
    <3>. QED BY <2>1, <3>1, <3>2, <3>3 DEF Flush, Writes
  <2>2. CASE ReceiveFails
    <3>1. output' = output \o responses \/ (gone /\ output' = output)
      BY <2>2 DEF ReceiveFails
    <3>. QED BY <2>2, <3>1 DEF ReceiveFails, Writes
  <2>. QED BY <1>7, <2>1, <2>2
<1>8. ASSUME Poll \/ Interrupted PROVE Still /\ Turns
  BY <1>8, Zenon DEF Poll, Interrupted, StartTurn, Turns
<1>9. ASSUME Drained \/ Read \/ Expired \/ Dispatched \/ Aborts PROVE Still /\ Turns
  BY <1>9, Zenon DEF Drained, Read, Expired, Dispatched, Aborts, Turns, env
<1>10. ASSUME Environment PROVE Still /\ Surroundings
  <2>1. CASE ClientWrites
    BY <2>1, Zenon DEF ClientWrites, Surroundings, env
  <2>2. CASE ClientCloses \/ ClientDies
    <3>1. gone \in {gone', FALSE} /\ eof' \in {eof, TRUE}
      BY <2>2 DEF ClientCloses, ClientDies, TypeOK
    <3>. QED BY <2>2, <3>1, Zenon DEF ClientCloses, ClientDies, Surroundings, helper
  <2>3. CASE Advance
    BY <2>3, Zenon DEF Advance, Surroundings, env, helper
  <2>4. CASE \E r \in Requests : Arrive(r) \/ Settle(r)
    BY <2>4, Zenon DEF Arrive, Settle, Surroundings, helper
  <2>. QED BY <1>10, <2>1, <2>2, <2>3, <2>4 DEF Environment
<1>11. ASSUME UNCHANGED vars PROVE Still /\ Surroundings
  BY <1>11, Zenon DEF Surroundings, vars, helper, env
<1>12. [Next]_vars
  OBVIOUS
<1>. QED BY <1>4, <1>5, <1>6, <1>7, <1>8, <1>9, <1>10, <1>11, <1>12, Zenon
          DEF Next, HelperStep, Unplanned, Ended

-----------------------------------------------------------------------------
(* Lines are read and dispatched in their order *)

\* The lines of a read, and those left in the pipe.
LEMMA Splitting ==
    ASSUME NEW S, NEW s \in Seq(S), NEW k \in 1..Len(s)
    PROVE  /\ SubSeq(s, 1, k) \in Seq(S) /\ Len(SubSeq(s, 1, k)) = k
           /\ \A i \in 1..k : SubSeq(s, 1, k)[i] = s[i]
           /\ SubSeq(s, k + 1, Len(s)) \in Seq(S)
           /\ Len(SubSeq(s, k + 1, Len(s))) = Len(s) - k
           /\ \A i \in 1..(Len(s) - k) : SubSeq(s, k + 1, Len(s))[i] = s[k + i]
<1>1. Len(s) \in Nat /\ k \in Nat /\ 1 <= k /\ k <= Len(s)
  BY SMT
<1>2. \A i \in 1..Len(s) : s[i] \in S
  BY SMT
<1>. QED BY <1>1, <1>2, SMT

\* What a read does to the lines, and that nothing else does it.
LEMMA Reading ==
    ASSUME TypeOK, Phases, Read
    PROVE  /\ taken = <<>>
           /\ \/ \E k \in 1..Len(lines) :
                    /\ pipeOpen /\ UNCHANGED pipeOpen
                    /\ taken' = SubSeq(lines, 1, k) /\ lines' = SubSeq(lines, k + 1, Len(lines))
              \/ /\ UNCHANGED <<lines, taken>>
                 /\ UNCHANGED pipeOpen \/ (lines = <<>> /\ pipeOpen' = ~eof)
<1>1. taken = <<>>
  BY DEF Phases, Read
<1>. QED BY <1>1, Zenon DEF Read

\* The three parts of InOrder from what a step does.
LEMMA InOrderStep ==
    ASSUME TypeOK, InOrder, Phases, Accounted, [Next]_vars
    PROVE  InOrder' /\ (Handled' = Handled \/ (Dispatch /\ Handled' = Handled + 1))
<1>1. /\ lines \in Seq(Requests) /\ taken \in Seq(Requests)
      /\ Len(lines) \in Nat /\ Len(taken) \in Nat /\ written \in Nat /\ Handled \in Nat
      /\ Handled = written - Len(lines) - Len(taken)
      /\ \A i \in 1..Len(taken) : taken[i] = Handled + i
      /\ \A i \in 1..Len(lines) : lines[i] = Handled + Len(taken) + i
  BY LoadFacts, Zenon DEF InOrder, TypeOK, Handled
<1>2. ASSUME UNCHANGED <<lines, taken, written>> PROVE InOrder' /\ Handled' = Handled
  <2>1. Handled' = Handled
    BY <1>2 DEF Handled
  <2>. QED BY <1>1, <1>2, <2>1 DEF InOrder
<1>3. ASSUME Dispatch PROVE InOrder' /\ Handled' = Handled + 1
  <2>1. Handled' = Handled + 1
    BY <1>3, Dispatching
  <2>2. taken # <<>> /\ taken' = Tail(taken) /\ UNCHANGED <<lines, written>>
    BY <1>3 DEF Dispatch
  <2>3. /\ Len(taken') = Len(taken) - 1 /\ Len(taken) >= 1
        /\ \A i \in 1..(Len(taken) - 1) : taken'[i] = taken[i + 1]
    BY <1>1, <2>2
  <2>. DEFINE h == Handled
              n == Len(taken)
              g == Handled'
              m == Len(taken')
  <2>4. /\ h \in Nat /\ n \in Nat /\ g = h + 1 /\ m = n - 1 /\ n >= 1
        /\ \A i \in 1..n : taken[i] = h + i
        /\ \A i \in 1..Len(lines) : lines[i] = h + n + i
        /\ \A i \in 1..(n - 1) : taken'[i] = taken[i + 1]
    BY <1>1, <2>1, <2>3
  <2>. HIDE DEF h, n, g, m
  <2>5. g \in Nat /\ \A i \in 1..m : taken'[i] = g + i
    BY <2>4
  <2>6. \A i \in 1..Len(lines) : lines[i] = g + m + i
    BY <1>1, <2>4
  <2>. QED BY <2>1, <2>2, <2>5, <2>6, Zenon DEF InOrder, h, n, g, m
<1>4. ASSUME Read PROVE InOrder' /\ Handled' = Handled
  <2>1. taken = <<>> /\ Len(taken) = 0 /\ written' = written
    BY <1>4, Reading, Zenon DEF Read
  <2>2. ASSUME NEW k \in 1..Len(lines), taken' = SubSeq(lines, 1, k),
               lines' = SubSeq(lines, k + 1, Len(lines))
        PROVE  InOrder' /\ Handled' = Handled
    <3>1. /\ Len(taken') = k /\ \A i \in 1..k : taken'[i] = lines[i]
          /\ Len(lines') = Len(lines) - k /\ \A i \in 1..(Len(lines) - k) : lines'[i] = lines[k + i]
      BY <1>1, <2>2, Splitting
    <3>2. Handled' = Handled
      BY <1>1, <2>1, <3>1 DEF Handled
    <3>3. \A i \in 1..Len(taken') : taken'[i] = Handled + i
      <4>1. ASSUME NEW i \in 1..k PROVE taken'[i] = Handled + i
        <5>1. i \in 1..Len(lines) /\ i \in Nat
          BY <1>1
        <5>2. taken'[i] = lines[i] /\ lines[i] = Handled + Len(taken) + i
          BY <1>1, <3>1, <5>1
        <5>. QED BY <1>1, <2>1, <5>1, <5>2
      <4>. QED BY <3>1, <4>1
    <3>4. \A i \in 1..Len(lines') : lines'[i] = Handled + Len(taken') + i
      BY <1>1, <2>1, <3>1
    <3>. QED BY <1>1, <3>2, <3>3, <3>4 DEF InOrder
  <2>. QED BY <1>2, <1>4, <2>1, <2>2, Reading
<1>5. ASSUME ClientWrites PROVE InOrder' /\ Handled' = Handled
  <2>1. /\ lines' = Append(lines, written + 1) /\ written' = written + 1 /\ taken' = taken
        /\ written + 1 \in Requests
    BY <1>5, LoadFacts DEF ClientWrites, TypeOK
  <2>2. /\ Len(lines') = Len(lines) + 1
        /\ \A i \in 1..Len(lines) : lines'[i] = lines[i]
        /\ lines'[Len(lines) + 1] = written + 1
    BY <1>1, <2>1
  <2>3. Handled' = Handled
    BY <1>1, <2>1, <2>2 DEF Handled
  <2>4. \A i \in 1..Len(lines') : lines'[i] = Handled + Len(taken) + i
    <3>1. ASSUME NEW i \in 1..(Len(lines) + 1) PROVE lines'[i] = Handled + Len(taken) + i
      <4>1. CASE i \in 1..Len(lines)
        BY <1>1, <2>2, <4>1
      <4>2. CASE i = Len(lines) + 1
        <5>1. lines'[i] = written + 1
          BY <2>2, <4>2
        <5>2. written + 1 = Handled + Len(taken) + i
          BY <1>1, <4>2
        <5>. QED BY <5>1, <5>2
      <4>. QED BY <1>1, <4>1, <4>2
    <3>. QED BY <2>2, <3>1
  <2>. QED BY <1>1, <2>1, <2>3, <2>4 DEF InOrder
<1>6. ASSUME NEW i, NEW kind, NEW of, Takes(i, kind, of) PROVE UNCHANGED <<lines, taken, written>>
  BY <1>6 DEF Takes
<1>7. ASSUME Writes \/ \E r \in Requests : Ignores(r) PROVE UNCHANGED <<lines, taken, written>>
  BY <1>7, Zenon DEF Writes, Ignores, env
<1>8. ASSUME Turns PROVE UNCHANGED <<lines, taken, written>> \/ Read
  BY <1>8, Zenon DEF Turns, Drained, Expired, Dispatched, Aborts, env
<1>9. ASSUME Surroundings PROVE UNCHANGED <<lines, taken, written>> \/ ClientWrites
  <2>1. ASSUME NEW r, Arrive(r) \/ Settle(r) PROVE UNCHANGED <<lines, taken, written>>
    BY <2>1, Zenon DEF Arrive, Settle, helper
  <2>. QED BY <1>9, <2>1, Zenon DEF Surroundings, Advance, vars, helper, env
<1>. QED BY <1>2, <1>3, <1>4, <1>5, <1>6, <1>7, <1>8, <1>9, Steps, Zenon

\* A turn goes through its phases in order.
LEMMA PhasesStep ==
    ASSUME TypeOK, Phases, [Next]_vars
    PROVE  Phases'
<1>1. /\ now \in Nat /\ clock \in Nat /\ now <= clock
      /\ taken \in Seq(Requests) /\ lines \in Seq(Requests)
      /\ pipeOpen \in BOOLEAN /\ eof \in BOOLEAN /\ gone \in BOOLEAN
  BY LoadFacts DEF Phases, TypeOK
<1>2. CASE Dispatch
  <2>1. UNCHANGED <<pc, now, todo, lines, pipeOpen, clock, eof, gone>> /\ pc = "dispatch"
    BY <1>2 DEF Dispatch
  <2>. QED BY <2>1 DEF Phases
<1>3. CASE \E i \in DOMAIN probes, kind \in Kinds, of \in 0..MaxRequest : Takes(i, kind, of)
  <2>1. /\ UNCHANGED <<pc, now, lines, taken, pipeOpen, clock, eof, gone>>
        /\ pc \in {"receive", "streams", "expire"} /\ (pc # "streams" => todo' = todo)
    BY <1>3, Zenon DEF Takes
  <2>. QED BY <2>1 DEF Phases
<1>4. CASE Writes
  <2>1. PICK n \in {now, 0} : now' = n
    BY <1>4 DEF Writes
  <2>2. now' <= clock'
    BY <1>1, <1>4, <2>1 DEF Writes
  <2>3. todo' = {} /\ taken' = <<>>
    BY <1>4 DEF Writes, Phases
  <2>4. (~pipeOpen)' => lines' = <<>> /\ eof'
    BY <1>4 DEF Writes, Phases, env
  <2>. QED BY <1>4, <2>2, <2>3, <2>4 DEF Writes, Phases, env
<1>5. CASE \E r \in Requests : Ignores(r)
  BY <1>5 DEF Ignores, Phases
<1>6. CASE Turns
  <2>1. UNCHANGED <<clock, eof, gone>> /\ now' <= clock
    BY <1>1, <1>6 DEF Turns, env, Drained, Read, Expired, Dispatched, Aborts
  <2>2. CASE Read
    <3>1. pc' = "expire" /\ UNCHANGED todo /\ todo = {}
      BY <2>2 DEF Read
    <3>2. (~pipeOpen)' => lines' = <<>> /\ eof'
      BY <2>1, <2>2, <1>1, Reading DEF Phases
    <3>. QED BY <2>1, <3>1, <3>2 DEF Phases
  <2>3. UNCHANGED <<lines, taken, pipeOpen>> \/ Read
    BY <1>6, Zenon DEF Turns, Drained, Expired, Dispatched, Aborts
  <2>4. CASE Drained \/ Expired \/ Dispatched \/ Aborts
    <3>1. \/ pc' = "streams" /\ taken = <<>>
          \/ pc' = "dispatch" /\ todo' = {}
          \/ pc' \in {"flush", "aborted"} /\ todo' = {} /\ taken = <<>>
      BY <2>4 DEF Drained, Expired, Dispatched, Aborts, Phases
    <3>2. UNCHANGED <<lines, taken, pipeOpen>>
      BY <2>4 DEF Drained, Expired, Dispatched, Aborts
    <3>. QED BY <2>1, <3>1, <3>2 DEF Phases
  <2>5. CASE /\ pc' = "receive" /\ pc = "poll" /\ UNCHANGED todo
             /\ UNCHANGED <<lines, taken, pipeOpen>>
    BY <2>1, <2>5 DEF Phases
  <2>6. CASE /\ pc \in {"streams", "expire"} /\ todo' \subseteq todo /\ UNCHANGED pc
             /\ UNCHANGED <<lines, taken, pipeOpen>>
    BY <2>1, <2>6 DEF Phases
  <2>. QED BY <1>6, <2>2, <2>4, <2>5, <2>6, Zenon DEF Turns
<1>7. CASE Surroundings /\ UNCHANGED <<probes, responses>>
  <2>1. UNCHANGED <<pc, now, todo, taken, pipeOpen, probes, responses>>
    BY <1>7 DEF Surroundings
  <2>2. now' <= clock'
    <3>1. clock' \in {clock, clock + 1}
      BY <1>7 DEF Surroundings, ClientWrites, Advance, Arrive, Settle, vars
    <3>2. PICK c \in Int : clock' = c /\ now <= c
      BY <1>1, <3>1
    <3>. QED BY <2>1, <3>2
  <2>3. (~pipeOpen)' => lines' = <<>> /\ eof'
    <3>1. lines' = lines \/ (ClientWrites /\ ~eof)
      BY <1>7 DEF Surroundings, ClientWrites, Advance, Arrive, Settle, vars, helper
    <3>2. eof => eof'
      BY <1>7 DEF Surroundings, ClientWrites, Advance, Arrive, Settle, vars, env
    <3>. QED BY <2>1, <3>1, <3>2 DEF Phases
  <2>4. ~gone' => ~gone
    BY <1>7, <1>1 DEF Surroundings, ClientWrites, Advance, Arrive, Settle, vars, env
  <2>. QED BY <2>1, <2>2, <2>3, <2>4 DEF Phases
<1>. QED BY <1>2, <1>3, <1>4, <1>5, <1>6, <1>7, Steps, Zenon

-----------------------------------------------------------------------------
(* Every request that was dispatched is in the table or answered *)

\* Answers are lost only with the client, and never made twice.
LEMMA AccountedStep ==
    ASSUME TypeOK, InOrder, Phases, Accounted, [Next]_vars
    PROVE  Accounted'
<1>1. /\ Once(probes) /\ Once(Answers) /\ Handled \in Nat
      /\ \A p \in Table : p.req <= Handled /\ p.req \in Nat
      /\ \A a \in Given : a.req <= Handled /\ a.req \in Nat
      /\ \A p \in Table, a \in Given : p.req # a.req
      /\ ~gone => \A r \in 1..Handled :
            (\E p \in Table : p.req = r) \/ (\E a \in Given : a.req = r)
  BY Contents DEF Accounted, InOrder
<1>2. ASSUME NEW i \in DOMAIN probes, NEW kind \in Kinds, NEW of \in 0..MaxRequest,
             Takes(i, kind, of)
      PROVE  Accounted'
  <2>. DEFINE p == probes[i]
              a == Answer(p.req, kind, of)
  <2>1. Handled' = Handled /\ gone' = gone
    BY <1>2 DEF Takes, Handled
  <2>2. /\ p \in Table /\ Table' = Table \ {p} /\ (\A q \in Table' : q.req # p.req)
        /\ Given' = Given \cup {a} /\ Once(probes)' /\ Once(Answers)'
    <3>1. TakeOut(i, kind, of) /\ output' = output
      BY <1>2 DEF Takes
    <3>. QED BY <3>1, Removal, Zenon
  <2>3. a.req = p.req
    BY DEF Answer
  <2>. HIDE DEF p, a
  <2>4. /\ \A q \in Table' : q.req <= Handled
        /\ \A b \in Given' : b.req <= Handled
        /\ \A q \in Table', b \in Given' : q.req # b.req
    BY <1>1, <2>2, <2>3
  <2>5. ~gone => \A r \in 1..Handled :
            (\E q \in Table' : q.req = r) \/ (\E b \in Given' : b.req = r)
    <3>1. SUFFICES ASSUME ~gone, NEW r \in 1..Handled
                   PROVE  (\E q \in Table' : q.req = r) \/ (\E b \in Given' : b.req = r)
      OBVIOUS
    <3>2. CASE r = p.req
      BY <2>2, <2>3, <3>2, Zenon
    <3>3. CASE r # p.req
      BY <1>1, <2>2, <3>1, <3>3
    <3>. QED BY <3>2, <3>3
  <2>. QED BY <2>1, <2>2, <2>4, <2>5, Zenon DEF Accounted
<1>3. CASE Dispatch
  <2>. DEFINE r == Handled + 1
  <2>1. r \in Nat /\ Handled' = r /\ gone' = gone /\ r > Handled
    BY <1>1, <1>3, Dispatching DEF Dispatch
  <2>2. CASE /\ UNCHANGED probes /\ Once(Answers)'
             /\ \E kind \in Kinds, of \in {0, r} : Given' = Given \cup {Answer(r, kind, of)}
    <3>1. PICK kind \in Kinds, of \in {0, r} : Given' = Given \cup {Answer(r, kind, of)}
      BY <2>2
    <3>. DEFINE a == Answer(r, kind, of)
    <3>2. a.req = r /\ Given' = Given \cup {a}
      BY <3>1 DEF Answer
    <3>3. Table' = Table /\ Once(probes)'
      BY <1>1, <2>2 DEF Table, Elements, Once
    <3>. HIDE DEF a, r
    <3>4. /\ \A q \in Table : q.req <= r /\ q.req # r
          /\ \A b \in Given : b.req <= r
      BY <1>1, <2>1
    <3>5. /\ \A q \in Table' : q.req <= r
          /\ \A b \in Given' : b.req <= r
          /\ \A q \in Table', b \in Given' : q.req # b.req
      BY <1>1, <2>1, <3>2, <3>3, <3>4
    <3>6. ~gone => \A s \in 1..r :
              (\E q \in Table' : q.req = s) \/ (\E b \in Given' : b.req = s)
      <4>1. SUFFICES ASSUME ~gone, NEW s \in 1..r
                     PROVE  (\E q \in Table' : q.req = s) \/ (\E b \in Given' : b.req = s)
        OBVIOUS
      <4>2. s = r \/ s \in 1..Handled
        BY <1>1, <2>1 DEF r
      <4>. QED BY <1>1, <3>2, <3>3, <4>1, <4>2, Zenon
    <3>. QED BY <2>1, <2>2, <3>3, <3>5, <3>6, Zenon DEF Accounted
  <2>3. CASE \E p \in Probes : /\ p.req = r /\ Table' = Table \cup {p} /\ Once(probes)'
                               /\ Given' = Given /\ Once(Answers)'
    <3>1. PICK p \in Probes : /\ p.req = r /\ Table' = Table \cup {p} /\ Once(probes)'
                              /\ Given' = Given /\ Once(Answers)'
      BY <2>3
    <3>. HIDE DEF r
    <3>4. /\ \A q \in Table : q.req <= r
          /\ \A b \in Given : b.req <= r /\ b.req # r
      BY <1>1, <2>1
    <3>5. /\ \A q \in Table' : q.req <= r
          /\ \A b \in Given' : b.req <= r
          /\ \A q \in Table', b \in Given' : q.req # b.req
      BY <1>1, <2>1, <3>1, <3>4
    <3>6. ~gone => \A s \in 1..r :
              (\E q \in Table' : q.req = s) \/ (\E b \in Given' : b.req = s)
      <4>1. SUFFICES ASSUME ~gone, NEW s \in 1..r
                     PROVE  (\E q \in Table' : q.req = s) \/ (\E b \in Given' : b.req = s)
        OBVIOUS
      <4>2. s = r \/ s \in 1..Handled
        BY <1>1, <2>1 DEF r
      <4>. QED BY <1>1, <3>1, <4>1, <4>2, Zenon
    <3>. QED BY <2>1, <3>1, <3>5, <3>6, Zenon DEF Accounted
  <2>. QED BY <1>3, <2>2, <2>3, Dispatching
<1>4. CASE Writes
  <2>1. Handled' = Handled /\ gone' = gone /\ probes' = probes /\ responses' = <<>>
    BY <1>4 DEF Writes, Handled, env
  <2>2. Table' = Table /\ Once(probes)'
    BY <1>1, <2>1, Unchanged
  <2>3. output \in Seq(Responses) /\ responses \in Seq(Responses)
    BY DEF TypeOK
  <2>4. /\ (output \o responses) \o <<>> = output \o responses /\ output \o <<>> = output
        /\ Elements(output) \subseteq Elements(output \o responses)
        /\ Once(output \o responses) => Once(output)
    BY <2>3, Writing, Zenon
  <2>5. CASE output' = output \o responses
    <3>1. Answers' = Answers
      BY <2>1, <2>4, <2>5 DEF Answers
    <3>2. Given' = Given /\ Once(Answers)'
      BY <1>1, <3>1, Unchanged
    <3>. QED BY <1>1, <2>1, <2>2, <3>2, Zenon DEF Accounted
  <2>6. CASE gone /\ output' = output
    <3>1. Answers' = output
      BY <2>1, <2>4, <2>6 DEF Answers
    <3>2. Given' = Elements(output) /\ Once(Answers)' = Once(output)
      BY <3>1, Zenon DEF Given, Elements, Once
    <3>3. Given' \subseteq Given /\ Once(Answers)'
      BY <1>1, <2>4, <3>2, Zenon DEF Given, Answers
    <3>. QED BY <1>1, <2>1, <2>2, <2>6, <3>3, Zenon DEF Accounted
  <2>. QED BY <1>4, <2>5, <2>6 DEF Writes
<1>5. CASE /\ UNCHANGED <<probes, nextSequence, responses, output>> /\ ~Dispatch
           /\ (\E r \in Requests : Ignores(r)) \/ Turns \/ Surroundings
  <2>1. Handled' = Handled
    BY <1>5, InOrderStep
  <2>2. ~gone' => ~gone
    BY <1>5 DEF Surroundings, Turns, Ignores, ClientWrites, Advance, Arrive, Settle, vars, env,
       TypeOK
  <2>3. Answers' = Answers /\ probes' = probes
    BY <1>5 DEF Answers
  <2>4. Table' = Table /\ Given' = Given /\ Once(probes)' /\ Once(Answers)'
    BY <1>1, <2>3, Unchanged
  <2>. QED BY <1>1, <2>1, <2>2, <2>4, Zenon DEF Accounted
<1>. QED BY <1>2, <1>3, <1>4, <1>5, Steps, Zenon

-----------------------------------------------------------------------------
(* What was sent stays, and entries are what was sent *)

\* A request is sent once, when it is dispatched.
LEMMA SentStays ==
    ASSUME TypeOK, InOrder, Phases, Accounted, SentOnce, [Next]_vars
    PROVE  /\ \A s \in Requests : sentAs[s] # NotSent => sentAs'[s] = sentAs[s]
           /\ \A s \in Requests :
                 sentAs'[s] = sentAs[s] \/ (s = Handled + 1 /\ Handled' = Handled + 1)
           /\ \A s \in Requests : Collides(s) => Collides(s)'
<1>1. /\ sentAs \in [Requests -> Sendings] /\ Requests' = Requests
      /\ Handled \in Nat /\ \A s \in Requests : s \in Nat
      /\ \A s \in Requests : sentAs[s] # NotSent => s <= Handled
  BY LoadStays, LoadFacts, SMTT(60) DEF TypeOK, InOrder, SentOnce
<1>2. \/ sentAs' = sentAs
      \/ /\ Handled' = Handled + 1
         /\ \E x : sentAs' = [sentAs EXCEPT ![Handled + 1] = x]
  <2>1. CASE Dispatch
    BY <2>1, Dispatching, Zenon
  <2>2. CASE \/ Writes
             \/ \E i \in DOMAIN probes, kind \in Kinds, of \in 0..MaxRequest : Takes(i, kind, of)
    BY <2>2, Zenon DEF Writes, Takes, env
  <2>3. CASE (\E r \in Requests : Ignores(r)) \/ Turns \/ Surroundings
    BY <2>3, Zenon DEF Ignores, Turns, Surroundings, env
  <2>. QED BY <2>1, <2>2, <2>3, Steps, Zenon
<1>3. \A s \in Requests : sentAs'[s] = sentAs[s] \/ (s = Handled + 1 /\ Handled' = Handled + 1)
  BY <1>1, <1>2
<1>4. \A s \in Requests : sentAs[s] # NotSent => sentAs'[s] = sentAs[s]
  BY <1>1, <1>3
<1>5. ASSUME NEW s \in Requests, Collides(s) PROVE Collides(s)'
  <2>1. PICK t \in Requests \ {s} : sentAs[t] # NotSent /\ sentAs[t].seq = sentAs[s].seq
    BY <1>5 DEF Collides
  <2>2. sentAs'[s] = sentAs[s] /\ sentAs'[t] = sentAs[t] /\ sentAs[s] # NotSent
    BY <1>4, <1>5, <2>1 DEF Collides
  <2>. QED BY <1>1, <2>1, <2>2, Zenon DEF Collides, NotSent
<1>. QED BY <1>3, <1>4, <1>5

\* An entry with the number of another request shares it.
LEMMA Sharing ==
    ASSUME TypeOK, SentOnce, NEW p \in Table, NEW r \in Requests, sentAs[r] # NotSent,
           p.seq = sentAs[r].seq, p.req # r
    PROVE  Collides(r) /\ Collides(p.req)
<1>1. p.req \in Requests /\ p.protocol \in Protocols
  BY Contents DEF Probes
<1>2. /\ sentAs[p.req] = [seq |-> p.seq, protocol |-> p.protocol, deadline |-> p.deadline]
  BY DEF SentOnce
<1>3. p.protocol # "none"
  BY <1>1, LoadFacts
<1>4. sentAs[p.req].seq = p.seq /\ sentAs[p.req] # NotSent
  BY <1>2, <1>3 DEF NotSent
<1>. QED BY <1>1, <1>4 DEF Collides

\* Only what was sent is outstanding, or has an answer on its way.
LEMMA SentOnceStep ==
    ASSUME TypeOK, InOrder, Phases, Accounted, SentOnce, [Next]_vars
    PROVE  SentOnce'
<1>1. /\ \A r \in Requests : sentAs[r] # NotSent => r <= Handled
      /\ \A r \in Requests : sentAs[r] = NotSent => arrivals[r] = <<>> /\ r \notin net
      /\ \A p \in Table : sentAs[p.req] = [seq |-> p.seq, protocol |-> p.protocol,
                                           deadline |-> p.deadline]
      /\ Requests' = Requests /\ NotSent' = NotSent /\ Handled \in Nat
      /\ \A r \in Requests : r \in Nat
      /\ sentAs \in [Requests -> Sendings] /\ arrivals \in [Requests -> Seq(0..MaxClock)]
      /\ \A p \in Table : p.req \in Requests /\ p.req <= Handled
  <2>1. Requests' = Requests /\ NotSent' = NotSent
    BY LoadStays DEF NotSent
  <2>2. \A r \in Requests : r \in Nat
    BY LoadFacts
  <2>3. \A p \in Table : p.req \in Requests /\ p.req <= Handled
    BY Contents DEF Accounted
  <2>. QED BY <2>1, <2>2, <2>3, Zenon DEF SentOnce, InOrder, TypeOK
<1>2. \A r \in Requests : sentAs'[r] # NotSent => r <= Handled'
  <2>1. Handled' = Handled \/ Handled' = Handled + 1
    BY InOrderStep
  <2>. QED BY <1>1, <2>1, SentStays
<1>3. ASSUME arrivals' = arrivals, net' \subseteq net
      PROVE  \A r \in Requests : sentAs'[r] = NotSent => arrivals'[r] = <<>> /\ r \notin net'
  BY <1>1, <1>3, SentStays
<1>4. ASSUME \A p \in Table' : p \in Table
      PROVE  \A p \in Table' : sentAs'[p.req] = [seq |-> p.seq, protocol |-> p.protocol,
                                                 deadline |-> p.deadline]
  <2>1. SUFFICES ASSUME NEW p \in Table
                 PROVE  sentAs'[p.req] = [seq |-> p.seq, protocol |-> p.protocol,
                                          deadline |-> p.deadline]
    BY <1>4
  <2>2. p.req \in Requests /\ p.req # Handled + 1
    BY <1>1
  <2>. QED BY <1>1, <2>2, SentStays
<1>5. CASE Dispatch
  <2>1. arrivals' = arrivals /\ net' = net
    BY <1>5 DEF Dispatch
  <2>2. ASSUME NEW p \in Probes, p.req = Handled + 1, Table' = Table \cup {p}, p.req \in Requests,
               sentAs' = [sentAs EXCEPT ![p.req] = [seq |-> p.seq, protocol |-> p.protocol,
                                                    deadline |-> p.deadline]]
        PROVE  \A q \in Table' : sentAs'[q.req] = [seq |-> q.seq, protocol |-> q.protocol,
                                                   deadline |-> q.deadline]
    <3>1. ASSUME NEW q \in Table PROVE q.req \in Requests /\ q.req # p.req
      BY <1>1, <2>2
    <3>2. ASSUME NEW q \in Table PROVE sentAs'[q.req] = sentAs[q.req]
      BY <1>1, <2>2, <3>1
    <3>3. sentAs'[p.req] = [seq |-> p.seq, protocol |-> p.protocol, deadline |-> p.deadline]
      BY <1>1, <2>2
    <3>. QED BY <1>1, <2>2, <3>2, <3>3, Zenon
  <2>3. \A q \in Table' : sentAs'[q.req] = [seq |-> q.seq, protocol |-> q.protocol,
                                            deadline |-> q.deadline]
    <3>1. CASE probes' = probes
      BY <1>4, <3>1, Unchanged
    <3>2. CASE \E p \in Probes :
                 /\ p.req = Handled + 1 /\ Table' = Table \cup {p} /\ Handled + 1 \in Requests
                 /\ sentAs' = [sentAs EXCEPT ![Handled + 1] =
                         [seq |-> p.seq, protocol |-> p.protocol, deadline |-> p.deadline]]
      BY <2>2, <3>2
    <3>. QED BY <1>5, <3>1, <3>2, Dispatching, Zenon
  <2>. QED BY <1>1, <1>2, <1>3, <2>1, <2>3 DEF SentOnce
<1>6. ASSUME NEW i \in DOMAIN probes, NEW kind \in Kinds, NEW of \in 0..MaxRequest,
             Takes(i, kind, of)
      PROVE  SentOnce'
  <2>1. arrivals' = arrivals /\ net' \subseteq net /\ TakeOut(i, kind, of) /\ output' = output
    BY <1>6 DEF Takes
  <2>2. Table' = Table \ {probes[i]}
    BY <2>1, Removal, Zenon
  <2>. QED BY <1>1, <1>2, <1>3, <1>4, <2>1, <2>2, Zenon DEF SentOnce
<1>7. CASE probes' = probes /\ arrivals' = arrivals /\ net' \subseteq net
  <2>1. Table' = Table
    BY <1>7, Unchanged
  <2>. QED BY <1>1, <1>2, <1>3, <1>4, <1>7, <2>1, Zenon DEF SentOnce
<1>8. ASSUME NEW s \in Requests, Arrive(s), probes' = probes PROVE SentOnce'
  <2>1. Table' = Table
    BY <1>8, Unchanged
  <2>2. /\ sentAs[s] # NotSent /\ net' = net \cup {s} /\ sentAs' = sentAs
        /\ arrivals' = [arrivals EXCEPT ![s] = Append(arrivals[s], clock)]
    BY <1>8 DEF Arrive
  <2>3. \A r \in Requests : sentAs'[r] = NotSent => arrivals'[r] = <<>> /\ r \notin net'
    BY <1>1, <2>2
  <2>. QED BY <1>1, <1>2, <1>4, <2>1, <2>3, Zenon DEF SentOnce
<1>9. ASSUME Writes \/ (\E r \in Requests : Ignores(r)) \/ Turns
      PROVE  arrivals' = arrivals /\ net' \subseteq net
  BY <1>9 DEF Writes, Ignores, Turns, env
<1>10. ASSUME Surroundings
       PROVE  (arrivals' = arrivals /\ net' \subseteq net) \/ \E s \in Requests : Arrive(s)
  BY <1>10 DEF Surroundings, ClientWrites, Advance, Settle, vars, env
<1>. QED BY <1>5, <1>6, <1>7, <1>8, <1>9, <1>10, Steps, Zenon DEF Writes

-----------------------------------------------------------------------------
(* An answer reaches its own probe, and in time *)

\* An answer to an outstanding probe with a number of its own matches that probe.
LEMMA MatchesOwn ==
    ASSUME TypeOK, Accounted, SentOnce, NEW p \in Table, ~Collides(p.req)
    PROVE  \E i \in Matches(p.req) : probes[i] = p
<1>1. /\ p.req \in Requests /\ p.protocol \in Protocols /\ Once(probes)
      /\ sentAs[p.req] = [seq |-> p.seq, protocol |-> p.protocol, deadline |-> p.deadline]
      /\ probes \in Seq(Probes)
  BY Contents DEF Probes, SentOnce, Accounted, TypeOK
<1>2. sentAs[p.req].seq = p.seq /\ sentAs[p.req].protocol = p.protocol
  BY <1>1
<1>3. sentAs[p.req] # NotSent
  BY <1>1, <1>2, LoadFacts DEF NotSent
<1>4. PICK k \in 1..Len(probes) : probes[k] = p
  BY Contents
<1>. DEFINE T == {i \in 1..Len(probes) : probes[i].seq = p.seq}
<1>5. T \subseteq Nat /\ T # {}
  BY <1>4, LoadFacts, SMTT(60)
<1>6. PICK j \in T : \A i \in T : j <= i
  BY <1>5, First, Zenon
<1>7. \A i \in 1..(j - 1) : probes[i].seq # p.seq
  <2>1. j \in Nat /\ j <= Len(probes) /\ Len(probes) \in Nat
    BY <1>6, LoadFacts
  <2>2. SUFFICES ASSUME NEW i \in 1..(j - 1), probes[i].seq = p.seq PROVE FALSE
    OBVIOUS
  <2>3. i \in T
    BY <2>1, <2>2
  <2>. QED BY <1>6, <2>1, <2>3
<1>8. j \in FindBySequence(sentAs[p.req].seq)
  BY <1>1, <1>2, <1>6, <1>7 DEF FindBySequence
<1>9. probes[j] \in Table
  BY <1>6, Contents
<1>10. probes[j].req = p.req
  BY <1>1, <1>2, <1>3, <1>6, <1>9, Sharing
<1>11. j = k
  BY <1>1, <1>4, <1>6, <1>10 DEF Once
<1>. QED BY <1>2, <1>4, <1>8, <1>11 DEF Matches

\* A packet taken for a probe answers it, unless two probes share the number.
LEMMA MatchesTruly ==
    ASSUME TypeOK, SentOnce, NEW of \in Requests, of \in net, NEW i \in Matches(of)
    PROVE  /\ i \in DOMAIN probes /\ probes[i] \in Table
           /\ probes[i].req = of \/ (Collides(of) /\ Collides(probes[i].req))
<1>1. i \in DOMAIN probes /\ probes[i].seq = sentAs[of].seq
  BY DEF Matches, FindBySequence
<1>2. probes[i] \in Table
  <2>1. i \in 1..Len(probes)
    BY <1>1 DEF TypeOK
  <2>. QED BY <2>1, Contents
<1>3. sentAs[of] # NotSent
  BY DEF SentOnce
<1>. QED BY <1>1, <1>2, <1>3, Sharing

\* The answers of a probe stay in a socket until the probe has one of them.
LEMMA WaitingStep ==
    ASSUME TypeOK, InOrder, Phases, Accounted, SentOnce, Waiting, [Next]_vars
    PROVE  Waiting'
<1>1. /\ \A p \in Table : p.req \in Requests
      /\ \A p \in Table : arrivals[p.req] # <<>> /\ ~Collides(p.req) =>
            /\ p.req \in net
            /\ pc \in {"streams", "expire"} =>
                  \A k \in 1..Len(arrivals[p.req]) : arrivals[p.req][k] >= now
      /\ arrivals \in [Requests -> Seq(0..MaxClock)]
  BY Contents DEF Waiting, TypeOK
<1>2. ASSUME \A p \in Table' : p \in Table, arrivals' = arrivals, UNCHANGED now,
             \A p \in Table' : p.req \in net /\ ~Collides(p.req) => p.req \in net',
             pc' \in {"streams", "expire"} => pc \in {"streams", "expire"}
      PROVE  Waiting'
  <2>1. SUFFICES ASSUME NEW p \in Table', arrivals[p.req] # <<>>, ~Collides(p.req)'
                 PROVE  /\ p.req \in net'
                        /\ pc' \in {"streams", "expire"} =>
                              \A k \in 1..Len(arrivals[p.req]) : arrivals[p.req][k] >= now
    BY <1>2, Zenon DEF Waiting
  <2>2. p \in Table /\ p.req \in Requests /\ ~Collides(p.req)
    BY <1>1, <1>2, <2>1, SentStays
  <2>. QED BY <1>1, <1>2, <2>1, <2>2
<1>3. ASSUME NEW i \in DOMAIN probes, NEW kind \in Kinds, NEW of \in 0..MaxRequest,
             Takes(i, kind, of)
      PROVE  Waiting'
  <2>1. /\ arrivals' = arrivals /\ now' = now /\ pc' = pc
        /\ TakeOut(i, kind, of) /\ output' = output
    BY <1>3 DEF Takes
  <2>2. Table' = Table \ {probes[i]} /\ \A q \in Table' : q.req # probes[i].req
    BY <2>1, Removal, Zenon
  <2>3. ASSUME NEW p \in Table', p.req \in net, ~Collides(p.req) PROVE p.req \in net'
    <3>1. CASE net' = net
      BY <2>3, <3>1
    <3>2. CASE of \in net /\ i \in Matches(of) /\ net' = net \ {of}
      <4>1. of \in Requests
        BY <3>2 DEF TypeOK
      <4>2. probes[i].req = of \/ Collides(of)
        BY <3>2, <4>1, MatchesTruly
      <4>3. p.req # of
        BY <2>2, <2>3, <4>2
      <4>. QED BY <2>3, <3>2, <4>3
    <3>. QED BY <1>3, <3>1, <3>2, Zenon DEF Takes
  <2>. QED BY <1>2, <2>1, <2>2, <2>3, Zenon
<1>4. CASE Dispatch
  <2>1. UNCHANGED <<arrivals, net, now, pc>> /\ pc = "dispatch"
    BY <1>4 DEF Dispatch
  <2>2. CASE probes' = probes
    <3>1. Table' = Table
      BY <2>2, Unchanged
    <3>. QED BY <1>2, <2>1, <3>1
  <2>3. CASE \E q \in Probes : /\ q.req = Handled + 1 /\ Table' = Table \cup {q}
                              /\ Handled + 1 \in Requests
    <3>1. PICK q \in Probes : /\ q.req = Handled + 1 /\ Table' = Table \cup {q}
                              /\ Handled + 1 \in Requests
      BY <2>3
    <3>2. sentAs[q.req] = NotSent /\ arrivals[q.req] = <<>>
      BY <3>1 DEF SentOnce, InOrder
    <3>3. SUFFICES ASSUME NEW p \in Table', arrivals[p.req] # <<>>, ~Collides(p.req)'
                   PROVE  p.req \in net
      BY <2>1, Zenon DEF Waiting
    <3>4. p \in Table
      BY <3>1, <3>2, <3>3
    <3>5. ~Collides(p.req)
      BY <1>1, <3>3, <3>4, SentStays
    <3>. QED BY <1>1, <3>3, <3>4, <3>5
  <2>. QED BY <1>4, <2>2, <2>3, Dispatching, Zenon
<1>5. CASE Writes
  <2>1. UNCHANGED <<arrivals, net, probes>> /\ pc' \in {"poll", "done", "fatal"}
    BY <1>5 DEF Writes, env
  <2>2. Table' = Table
    BY <2>1, Unchanged
  <2>3. SUFFICES ASSUME NEW p \in Table, arrivals[p.req] # <<>>, ~Collides(p.req)'
                 PROVE  p.req \in net
    BY <2>1, <2>2, Zenon DEF Waiting
  <2>4. ~Collides(p.req)
    BY <1>1, <2>3, SentStays
  <2>. QED BY <1>1, <2>3, <2>4
<1>6. ASSUME NEW r \in Requests, Ignores(r), probes' = probes PROVE Waiting'
  <2>1. /\ UNCHANGED <<pc, now, arrivals>> /\ Table' = Table
        /\ Matches(r) = {} /\ net' = net \ {r}
    BY <1>6, Unchanged DEF Ignores
  <2>2. ASSUME NEW p \in Table', p.req \in net, ~Collides(p.req) PROVE p.req \in net'
    <3>1. p.req # r
      BY <2>1, <2>2, MatchesOwn
    <3>. QED BY <2>1, <2>2, <3>1
  <2>. QED BY <1>2, <2>1, <2>2, Zenon
<1>7. CASE Turns /\ probes' = probes
  <2>1. Table' = Table /\ arrivals' = arrivals /\ net' = net
    BY <1>7, Unchanged DEF Turns, env
  <2>2. CASE now' = now /\ (pc' \in {"streams", "expire"} => pc \in {"streams", "expire"})
    BY <1>2, <2>1, <2>2
  <2>3. CASE pc' \notin {"streams", "expire"} \/ net = {}
    <3>1. SUFFICES ASSUME NEW p \in Table, arrivals[p.req] # <<>>, ~Collides(p.req)'
                   PROVE  p.req \in net /\ pc' \notin {"streams", "expire"}
      BY <2>1, Zenon DEF Waiting
    <3>2. ~Collides(p.req)
      BY <1>1, <3>1, SentStays
    <3>. QED BY <1>1, <2>3, <3>1, <3>2
  <2>4. \/ now' = now /\ (pc' \in {"streams", "expire"} => pc \in {"streams", "expire"})
        \/ pc' \notin {"streams", "expire"} \/ net = {}
    BY <1>7 DEF Turns, Drained, Read, Expired, Dispatched, Aborts
  <2>. QED BY <2>2, <2>3, <2>4
<1>8. CASE Surroundings /\ probes' = probes
  <2>1. Table' = Table /\ pc' = pc /\ now' = now
    BY <1>8, Unchanged DEF Surroundings
  <2>2. CASE arrivals' = arrivals /\ net' = net
    BY <1>2, <2>1, <2>2
  <2>3. ASSUME NEW r \in Requests, Arrive(r) PROVE Waiting'
    <3>1. /\ net' = net \cup {r} /\ UNCHANGED <<sentAs, clock>>
          /\ arrivals' = [arrivals EXCEPT ![r] = Append(arrivals[r], clock)]
      BY <2>3 DEF Arrive
    <3>2. now \in Nat /\ clock \in Nat /\ now <= clock
      BY LoadFacts DEF Phases
    <3>3. SUFFICES ASSUME NEW p \in Table, arrivals'[p.req] # <<>>, ~Collides(p.req)'
                   PROVE  /\ p.req \in net'
                          /\ pc \in {"streams", "expire"} =>
                                \A k \in 1..Len(arrivals'[p.req]) : arrivals'[p.req][k] >= now
      BY <2>1, Zenon DEF Waiting
    <3>4. p.req \in Requests /\ ~Collides(p.req)
      BY <1>1, <3>3, SentStays
    <3>5. CASE p.req # r
      <4>1. arrivals'[p.req] = arrivals[p.req]
        BY <1>1, <3>1, <3>4, <3>5
      <4>. QED BY <1>1, <3>1, <3>3, <3>4, <4>1
    <3>6. CASE p.req = r
      <4>. DEFINE s == arrivals[r]
                  t == Append(s, clock)
      <4>1. arrivals'[r] = t /\ s \in Seq(0..MaxClock)
        BY <1>1, <3>1
      <4>2. /\ Len(s) \in Nat /\ Len(t) = Len(s) + 1 /\ t[Len(s) + 1] = clock
            /\ \A k \in 1..Len(s) : t[k] = s[k]
        BY <4>1
      <4>3. ASSUME pc \in {"streams", "expire"} PROVE \A k \in 1..Len(s) : s[k] >= now
        <5>1. CASE s = <<>>
          BY <5>1
        <5>2. CASE s # <<>>
          BY <1>1, <3>4, <3>6, <4>3, <5>2
        <5>. QED BY <5>1, <5>2
      <4>. HIDE DEF s, t
      <4>4. ASSUME pc \in {"streams", "expire"} PROVE \A k \in 1..Len(t) : t[k] >= now
        BY <3>2, <4>2, <4>3, <4>4
      <4>. QED BY <3>1, <3>6, <4>1, <4>4
    <3>. QED BY <3>5, <3>6
  <2>4. (arrivals' = arrivals /\ net' = net) \/ \E r \in Requests : Arrive(r)
    BY <1>8 DEF Surroundings, ClientWrites, Advance, Settle, vars, env
  <2>. QED BY <2>2, <2>3, <2>4
<1>. QED BY <1>3, <1>4, <1>5, <1>6, <1>7, <1>8, Steps, Zenon

\* An answer that is new, and those there were.
LEMMA TruthfulStep ==
    ASSUME TypeOK, InOrder, Phases, Accounted, SentOnce, Waiting, Truthful, [Next]_vars
    PROVE  Truthful'
<1>1. /\ \A a \in Given : a.req \in Requests /\ Right(a)
      /\ \A r \in Requests : sentAs[r] \in Sendings /\ arrivals[r] \in Seq(0..MaxClock)
      /\ clock \in Nat
  BY Contents, LoadFacts DEF Truthful, TypeOK
<1>2. ASSUME \A a \in Given' : Right(a)' PROVE Truthful'
  BY <1>2, Zenon DEF Truthful
<1>3. clock' \in {clock, clock + 1}
  BY Steps DEF Dispatch, Takes, Writes, Ignores, Turns, Surroundings, ClientWrites, Advance, Arrive,
     Settle, env, vars
<1>4. arrivals' = arrivals \/ \E s \in Requests : Arrive(s)
  BY Steps, Zenon DEF Dispatch, Takes, Writes, Ignores, Turns, Surroundings, ClientWrites, Advance,
     Settle, env, vars
<1>5. ASSUME NEW a \in Given PROVE Right(a)'
  <2>1. PICK r \in Requests : r = a.req
    BY <1>1
  <2>2. Collides(r) => Collides(r)'
    BY SentStays
  <2>3. a.of \in {0, r} \/ Collides(r)'
    BY <1>1, <2>1, <2>2 DEF Right
  <2>4. ASSUME a.kind = "no-reply"
        PROVE  /\ sentAs'[r] # NotSent /\ sentAs'[r].deadline < clock'
               /\ \/ Collides(r)'
                  \/ \A k \in 1..Len(arrivals'[r]) : arrivals'[r][k] > sentAs'[r].deadline
    <3>1. PICK d \in Nat : d = sentAs[r].deadline
      BY <1>1 DEF Sendings
    <3>2. /\ sentAs[r] # NotSent /\ d < clock
          /\ Collides(r) \/ \A k \in 1..Len(arrivals[r]) : arrivals[r][k] > d
      BY <1>1, <2>1, <2>4, <3>1 DEF Right
    <3>3. sentAs'[r] = sentAs[r]
      BY <3>2, SentStays
    <3>4. PICK c \in Nat : clock' = c /\ clock <= c
      BY <1>1, <1>3
    <3>5. d < c
      BY <1>1, <3>2, <3>4
    <3>6. Collides(r)' \/ \A k \in 1..Len(arrivals'[r]) : arrivals'[r][k] > d
      <4>1. CASE Collides(r)
        BY <2>2, <4>1
      <4>2. CASE \A k \in 1..Len(arrivals[r]) : arrivals[r][k] > d
        <5>1. CASE arrivals'[r] = arrivals[r]
          BY <4>2, <5>1
        <5>2. CASE arrivals'[r] = Append(arrivals[r], clock)
          <6>1. PICK s \in Seq(0..MaxClock) : s = arrivals[r]
            BY <1>1
          <6>2. PICK t : t = Append(s, clock)
            OBVIOUS
          <6>3. /\ Len(s) \in Nat /\ Len(t) = Len(s) + 1 /\ t[Len(s) + 1] = clock
                /\ \A k \in 1..Len(s) : t[k] = s[k]
            BY <6>1, <6>2
          <6>4. \A k \in 1..Len(s) : s[k] > d
            BY <4>2, <6>1
          <6>5. \A k \in 1..Len(t) : t[k] > d
            BY <1>1, <3>2, <6>3, <6>4
          <6>. QED BY <5>2, <6>1, <6>2, <6>5
        <5>3. arrivals'[r] = arrivals[r] \/ arrivals'[r] = Append(arrivals[r], clock)
          <6>1. arrivals \in [Requests -> Seq(0..MaxClock)]
            BY DEF TypeOK
          <6>2. ASSUME NEW s \in Requests, Arrive(s)
                PROVE  arrivals'[r] \in {arrivals[r], Append(arrivals[r], clock)}
            BY <6>1, <6>2 DEF Arrive
          <6>. QED BY <1>4, <6>2
        <5>. QED BY <5>1, <5>2, <5>3
      <4>. QED BY <3>2, <4>1, <4>2
    <3>. QED BY <3>1, <3>2, <3>3, <3>4, <3>5, <3>6
  <2>5. NotSent' = NotSent
    BY DEF NotSent
  <2>. QED BY <2>1, <2>3, <2>4, <2>5, Zenon DEF Right
<1>6. ASSUME NEW i \in DOMAIN probes, NEW kind \in Kinds, NEW of \in 0..MaxRequest,
             Takes(i, kind, of)
      PROVE  Truthful'
  <2>1. /\ UNCHANGED <<sentAs, arrivals, clock>> /\ now \in Nat /\ now <= clock
        /\ TakeOut(i, kind, of) /\ output' = output
    BY <1>6, LoadFacts DEF Takes, Phases
  <2>2. PICK p \in Probes : /\ p = probes[i] /\ p \in Table
                            /\ Given' = Given \cup {Answer(p.req, kind, of)}
    BY <2>1, Removal, Zenon
  <2>3. PICK r \in Requests : r = p.req
    BY DEF Probes
  <2>4. PICK a : a = Answer(r, kind, of) /\ a.req = r /\ a.kind = kind /\ a.of = of
    <3>1. LET a == Answer(r, kind, of) IN a.req = r /\ a.kind = kind /\ a.of = of
      BY DEF Answer
    <3>. QED BY <3>1, Zenon
  <2>5. Collides(r) => Collides(r)'
    BY SentStays
  <2>6. of \in {0, r} \/ Collides(r)
    <3>1. ASSUME of \in net, i \in Matches(of) PROVE of \in {0, r} \/ Collides(r)
      <4>1. of \in Requests
        BY <3>1 DEF TypeOK
      <4>. QED BY <2>2, <2>3, <3>1, <4>1, MatchesTruly
    <3>. QED BY <1>6, <2>2, <2>3, <3>1, Zenon DEF Takes
  <2>7. ASSUME kind = "no-reply"
        PROVE  /\ sentAs[r] # NotSent /\ sentAs[r].deadline < clock
               /\ \/ Collides(r)
                  \/ \A k \in 1..Len(arrivals[r]) : arrivals[r][k] > sentAs[r].deadline
    <3>1. pc = "expire" /\ p.deadline < now
      BY <1>6, <2>2, <2>7 DEF Takes
    <3>2. sentAs[r] = [seq |-> p.seq, protocol |-> p.protocol, deadline |-> p.deadline]
      BY <2>2, <2>3 DEF SentOnce
    <3>3. p.deadline \in Nat /\ p.protocol \in Protocols
      BY DEF Probes
    <3>4. sentAs[r].deadline = p.deadline /\ sentAs[r].protocol = p.protocol
      BY <3>2
    <3>5. sentAs[r] # NotSent
      BY <3>3, <3>4, LoadFacts DEF NotSent
    <3>6. sentAs[r].deadline < clock
      BY <1>1, <2>1, <3>1, <3>3, <3>4
    <3>7. ASSUME ~Collides(r), NEW k \in 1..Len(arrivals[r])
          PROVE  arrivals[r][k] > sentAs[r].deadline
      <4>1. arrivals[r] # <<>> /\ arrivals[r][k] \in Nat
        <5>1. arrivals[r] \in Seq(0..MaxClock) /\ MaxClock \in Nat
          BY <1>1, LoadFacts
        <5>. QED BY <3>7, <5>1
      <4>2. arrivals[r][k] >= now
        BY <2>2, <2>3, <3>1, <3>7, <4>1 DEF Waiting
      <4>. QED BY <2>1, <3>1, <3>3, <3>4, <4>1, <4>2
    <3>. QED BY <3>5, <3>6, <3>7
  <2>8. Right(a)'
    <3>1. a.of \in {0, r} \/ Collides(r)'
      BY <2>4, <2>5, <2>6
    <3>2. a.kind = "no-reply" =>
             /\ sentAs'[r] # NotSent /\ sentAs'[r].deadline < clock'
             /\ \/ Collides(r)'
                \/ \A k \in 1..Len(arrivals'[r]) : arrivals'[r][k] > sentAs'[r].deadline
      BY <2>1, <2>4, <2>5, <2>7, Zenon
    <3>3. NotSent' = NotSent
      BY DEF NotSent
    <3>. QED BY <2>4, <3>1, <3>2, <3>3, Zenon DEF Right
  <2>. QED BY <1>2, <1>5, <2>2, <2>3, <2>4, <2>8, Zenon
<1>7. CASE Dispatch
  <2>1. PICK r : r = Handled + 1
    OBVIOUS
  <2>2. ASSUME NEW kind \in Kinds \ {"no-reply"}, NEW of \in {0, r},
               Given' = Given \cup {Answer(r, kind, of)}
        PROVE  Truthful'
    <3>1. PICK a : a = Answer(r, kind, of) /\ a.req = r /\ a.kind # "no-reply" /\ a.of = of
      <4>1. LET a == Answer(r, kind, of) IN a.req = r /\ a.kind = kind /\ a.of = of
        BY DEF Answer
      <4>. QED BY <4>1, Zenon
    <3>2. Right(a)'
      BY <3>1, Zenon DEF Right
    <3>. QED BY <1>2, <1>5, <2>2, <3>1, <3>2, Zenon
  <2>3. CASE Given' = Given
    BY <1>2, <1>5, <2>3
  <2>. QED BY <1>7, <2>1, <2>2, <2>3, Dispatching, Zenon
<1>8. CASE Writes
  <2>1. output \in Seq(Responses) /\ responses \in Seq(Responses) /\ responses' = <<>>
    BY <1>8 DEF TypeOK, Writes
  <2>2. /\ (output \o responses) \o <<>> = output \o responses /\ output \o <<>> = output
        /\ Elements(output) \subseteq Elements(output \o responses)
    BY <2>1, Writing, Zenon
  <2>3. Given' \subseteq Given
    <3>1. CASE output' = output \o responses
      <4>1. Answers' = Answers
        BY <2>1, <2>2, <3>1 DEF Answers
      <4>. QED BY <4>1, Unchanged
    <3>2. CASE output' = output
      <4>1. Answers' = output
        BY <2>1, <2>2, <3>2 DEF Answers
      <4>2. Given' = Elements(output)
        BY <4>1, Zenon DEF Given, Elements
      <4>. QED BY <2>2, <4>2, Zenon DEF Given, Answers
    <3>. QED BY <1>8, <3>1, <3>2 DEF Writes
  <2>. QED BY <1>2, <1>5, <2>3, Zenon
<1>9. CASE UNCHANGED <<probes, nextSequence, responses, output>>
  <2>1. Given' = Given
    <3>1. Answers' = Answers
      BY <1>9 DEF Answers
    <3>. QED BY <3>1, Unchanged
  <2>. QED BY <1>2, <1>5, <2>1
<1>. QED BY <1>6, <1>7, <1>8, <1>9, Steps, Zenon

-----------------------------------------------------------------------------
(* Types *)

\* The step of the turn, the clock and what is known of the client.
LEMMA ScalarsStep ==
    ASSUME TypeOK, [Next]_vars
    PROVE  /\ pc' \in {"poll", "receive", "streams", "expire", "dispatch", "flush", "done",
                       "fatal", "aborted"}
           /\ now' \in 0..MaxClock /\ clock' \in 0..MaxClock
           /\ at' \in Nat \ {0} /\ written' \in 0..MaxRequest
           /\ pipeOpen' \in BOOLEAN /\ eof' \in BOOLEAN /\ gone' \in BOOLEAN
<1>1. /\ pc \in {"poll", "receive", "streams", "expire", "dispatch", "flush", "done",
                 "fatal", "aborted"}
      /\ now \in 0..MaxClock /\ clock \in 0..MaxClock /\ at \in Nat \ {0}
      /\ written \in 0..MaxRequest
      /\ pipeOpen \in BOOLEAN /\ eof \in BOOLEAN /\ gone \in BOOLEAN
      /\ MaxClock \in Nat /\ MaxRequest \in Nat
  BY LoadFacts DEF TypeOK
<1>2. CASE Receive \/ Drained \/ CheckStream \/ Expired \/ Dispatch \/ Dispatched
           \/ ReceiveFails \/ Aborts
  BY <1>1, <1>2 DEF Receive, Drained, CheckStream, Expired, Dispatch, Dispatched, ReceiveFails,
     Aborts, env
<1>3. CASE Read
  <2>1. /\ pc' = "expire" /\ at' = 1 /\ UNCHANGED <<now, clock, written, eof, gone>>
    BY <1>3 DEF Read
  <2>2. pipeOpen' \in {pipeOpen, ~eof}
    BY <1>3, Zenon DEF Read
  <2>3. pipeOpen' \in BOOLEAN
    BY <1>1, <2>2, Zenon
  <2>. QED BY <1>1, <2>1, <2>3
<1>4. CASE Expire
  BY <1>1, <1>4 DEF Expire, env
<1>5. CASE Flush
  BY <1>1, <1>5 DEF Flush, env
<1>6. CASE StartTurn
  BY <1>1, <1>6 DEF StartTurn, env
<1>7. CASE ClientWrites
  BY <1>1, <1>7 DEF ClientWrites
<1>8. CASE ClientCloses \/ ClientDies
  BY <1>1, <1>8 DEF ClientCloses, ClientDies, helper
<1>9. CASE Advance
  BY <1>1, <1>9 DEF Advance, helper, env
<1>10. CASE \E r \in Requests : Arrive(r) \/ Settle(r)
  BY <1>1, <1>10 DEF Arrive, Settle, helper
<1>11. CASE UNCHANGED vars
  BY <1>1, <1>11 DEF vars, helper, env
<1>. QED BY <1>2, <1>3, <1>4, <1>5, <1>6, <1>7, <1>8, <1>9, <1>10, <1>11, Zenon
          DEF Next, HelperStep, Unplanned, Environment, Ended, Poll, Interrupted

\* The table, and the positions still to be checked.
LEMMA TableStep ==
    ASSUME TypeOK, InOrder, Phases, Accounted, [Next]_vars
    PROVE  /\ probes' \in Seq(Probes) /\ Len(probes') <= MaxProbes /\ nextSequence' \in Ports
           /\ todo' \subseteq DOMAIN probes'
<1>1. /\ probes \in Seq(Probes) /\ Len(probes) <= MaxProbes /\ nextSequence \in Ports
      /\ todo \subseteq DOMAIN probes /\ Len(probes) \in Nat /\ MaxProbes \in Nat
      /\ todo # {} => pc = "streams"
  BY LoadFacts DEF TypeOK, Phases
<1>2. ASSUME NEW i \in DOMAIN probes, NEW kind \in Kinds, NEW of \in 0..MaxRequest,
             Takes(i, kind, of)
      PROVE  /\ probes' \in Seq(Probes) /\ Len(probes') <= MaxProbes /\ nextSequence' \in Ports
             /\ todo' \subseteq DOMAIN probes'
  <2>1. TakeOut(i, kind, of) /\ output' = output /\ nextSequence' = nextSequence
    BY <1>2 DEF Takes
  <2>2. probes' \in Seq(Probes) /\ Len(probes') = Len(probes) - 1
    BY <2>1, Removal, Zenon
  <2>3. todo' = {} \/ (i \in todo /\ (\A j \in todo : j <= i) /\ todo' = todo \ {i})
    BY <1>1, <1>2 DEF Takes
  <2>4. ASSUME NEW j \in todo' PROVE j \in 1..(Len(probes) - 1)
    BY <1>1, <2>3, <2>4
  <2>. QED BY <1>1, <2>1, <2>2, <2>4
<1>3. CASE Dispatch
  <2>1. todo' = {}
    BY <1>1, <1>3 DEF Dispatch
  <2>2. CASE probes' = probes /\ nextSequence' \in Ports
    BY <1>1, <2>1, <2>2
  <2>3. CASE probes' \in Seq(Probes) /\ Len(probes') <= MaxProbes /\ nextSequence' \in Ports
    BY <2>1, <2>3
  <2>. QED BY <1>3, <2>2, <2>3, Dispatching, Zenon
<1>4. CASE probes' = probes /\ nextSequence' = nextSequence /\ ~Dispatch
  <2>1. ASSUME NEW i \in DOMAIN probes, NEW kind, NEW of, Takes(i, kind, of)
        PROVE  todo' \subseteq todo
    BY <2>1 DEF Takes
  <2>2. ASSUME Turns PROVE todo' \subseteq DOMAIN probes
    <3>1. CASE Drained
      BY <3>1 DEF Drained, StreamPositions
    <3>2. CASE ~Drained
      BY <1>1, <2>2, <3>2 DEF Turns, Read, Expired, Dispatched, Aborts
    <3>. QED BY <3>1, <3>2
  <2>3. ASSUME Writes \/ (\E r \in Requests : Ignores(r)) \/ Surroundings PROVE todo' = todo
    BY <2>3 DEF Writes, Ignores, Surroundings
  <2>4. todo' \subseteq DOMAIN probes
    BY <1>1, <1>4, <2>1, <2>2, <2>3, Steps, Zenon
  <2>. QED BY <1>1, <1>4, <2>4
<1>. QED BY <1>2, <1>3, <1>4, Steps, Zenon DEF Writes

\* The lines and the responses.
LEMMA QueuesStep ==
    ASSUME TypeOK, InOrder, Phases, Accounted, [Next]_vars
    PROVE  /\ lines' \in Seq(Requests) /\ taken' \in Seq(Requests)
           /\ responses' \in Seq(Responses) /\ output' \in Seq(Responses)
<1>1. /\ lines \in Seq(Requests) /\ taken \in Seq(Requests)
      /\ responses \in Seq(Responses) /\ output \in Seq(Responses)
  BY DEF TypeOK
<1>2. ASSUME NEW i \in DOMAIN probes, NEW kind \in Kinds, NEW of \in 0..MaxRequest,
             Takes(i, kind, of)
      PROVE  UNCHANGED <<lines, taken, output>> /\ responses' \in Seq(Responses)
  <2>1. TakeOut(i, kind, of) /\ UNCHANGED <<lines, taken, output>>
    BY <1>2 DEF Takes
  <2>. QED BY <2>1, Removal, Zenon
<1>3. CASE Dispatch
  <2>1. taken # <<>> /\ taken' = Tail(taken) /\ UNCHANGED <<lines, output>>
    BY <1>3 DEF Dispatch
  <2>2. taken' \in Seq(Requests)
    BY <1>1, <2>1
  <2>3. responses' \in Seq(Responses)
    BY <1>1, <1>3, Dispatching
  <2>. QED BY <1>1, <2>1, <2>2, <2>3
<1>4. CASE Writes
  <2>1. output \o responses \in Seq(Responses) /\ <<>> \in Seq(Responses)
    BY <1>1
  <2>. QED BY <1>1, <1>4, <2>1 DEF Writes
<1>5. CASE UNCHANGED <<responses, output>> /\ Turns
  <2>1. CASE Read
    <3>1. ASSUME NEW k \in 1..Len(lines)
          PROVE  /\ SubSeq(lines, 1, k) \in Seq(Requests)
                 /\ SubSeq(lines, k + 1, Len(lines)) \in Seq(Requests)
      BY <1>1, Splitting
    <3>. QED BY <1>1, <1>5, <2>1, <3>1, Reading
  <2>2. CASE ~Read
    BY <1>1, <1>5, <2>2 DEF Turns, Drained, Expired, Dispatched, Aborts
  <2>. QED BY <2>1, <2>2
<1>6. CASE UNCHANGED <<responses, output>> /\ Surroundings
  <2>1. CASE ClientWrites
    <3>1. written + 1 \in Requests /\ lines' = Append(lines, written + 1) /\ taken' = taken
      BY <2>1, LoadFacts DEF ClientWrites
    <3>. QED BY <1>1, <1>6, <3>1
  <2>2. CASE ~ClientWrites
    <3>1. lines' = lines /\ taken' = taken
      BY <1>6, <2>2 DEF Surroundings, Advance, Arrive, Settle, vars, helper
    <3>. QED BY <1>1, <1>6, <3>1
  <2>. QED BY <2>1, <2>2
<1>7. ASSUME NEW r \in Requests, Ignores(r) PROVE UNCHANGED <<lines, taken>>
  BY <1>7 DEF Ignores
<1>. QED BY <1>1, <1>2, <1>3, <1>4, <1>5, <1>6, <1>7, Steps, Zenon

\* What the network holds for each request.
LEMMA NetworkStep ==
    ASSUME TypeOK, InOrder, Phases, Accounted, [Next]_vars
    PROVE  /\ net' \subseteq Requests
           /\ connect' \in [Requests -> {"none", "connecting", "reached", "failed"}]
           /\ sentAs' \in [Requests -> Sendings]
           /\ arrivals' \in [Requests -> Seq(0..MaxClock)]
<1>1. /\ net \subseteq Requests
      /\ connect \in [Requests -> {"none", "connecting", "reached", "failed"}]
      /\ sentAs \in [Requests -> Sendings]
      /\ arrivals \in [Requests -> Seq(0..MaxClock)]
      /\ clock \in 0..MaxClock
  BY DEF TypeOK
<1>2. CASE Dispatch
  <2>1. net' = net /\ arrivals' = arrivals
    BY <1>2 DEF Dispatch
  <2>2. ASSUME NEW p \in Probes
        PROVE  [seq |-> p.seq, protocol |-> p.protocol, deadline |-> p.deadline] \in Sendings
    <3>1. p.seq \in Ports /\ p.protocol \in Protocols /\ p.deadline \in Nat
      BY DEF Probes
    <3>2. p.seq \in Nat
      BY <3>1, LoadFacts DEF Ports
    <3>. QED BY <3>1, <3>2 DEF Sendings
  <2>3. connect' \in [Requests -> {"none", "connecting", "reached", "failed"}]
    <3>1. connect' = connect \/ \E r, c : c \in {"none", "connecting", "reached", "failed"}
                                          /\ connect' = [connect EXCEPT ![r] = c]
      BY <1>2, Dispatching, Zenon
    <3>. QED BY <1>1, <3>1
  <2>4. sentAs' \in [Requests -> Sendings]
    <3>1. sentAs' = sentAs \/ \E r, x : x \in Sendings /\ sentAs' = [sentAs EXCEPT ![r] = x]
      BY <1>2, <2>2, Dispatching, Zenon
    <3>. QED BY <1>1, <3>1
  <2>. QED BY <1>1, <2>1, <2>3, <2>4
<1>3. CASE net' \subseteq net /\ UNCHANGED <<connect, sentAs, arrivals>>
  BY <1>1, <1>3
<1>4. CASE \E r \in Requests : Arrive(r) \/ Settle(r)
  <2>1. PICK r \in Requests : Arrive(r) \/ Settle(r)
    BY <1>4
  <2>2. CASE Arrive(r)
    <3>1. Append(arrivals[r], clock) \in Seq(0..MaxClock)
      BY <1>1
    <3>. QED BY <1>1, <2>2, <3>1 DEF Arrive
  <2>3. CASE Settle(r)
    BY <1>1, <2>3 DEF Settle
  <2>. QED BY <2>1, <2>2, <2>3
<1>5. ASSUME NEW i, NEW kind, NEW of, Takes(i, kind, of)
      PROVE  net' \subseteq net /\ UNCHANGED <<connect, sentAs, arrivals>>
  BY <1>5 DEF Takes
<1>6. ASSUME Writes \/ (\E r \in Requests : Ignores(r)) \/ Turns
      PROVE  net' \subseteq net /\ UNCHANGED <<connect, sentAs, arrivals>>
  BY <1>6 DEF Writes, Ignores, Turns, env
<1>7. ASSUME Surroundings, ~\E r \in Requests : Arrive(r) \/ Settle(r)
      PROVE  net' \subseteq net /\ UNCHANGED <<connect, sentAs, arrivals>>
  BY <1>7 DEF Surroundings, ClientWrites, Advance, vars, env
<1>. QED BY <1>2, <1>3, <1>4, <1>5, <1>6, <1>7, Steps, Zenon

\* The types hold after every step.
LEMMA TypeStep ==
    ASSUME TypeOK, InOrder, Phases, Accounted, [Next]_vars
    PROVE  TypeOK'
<1>1. /\ load' = load /\ load \in Loads
      /\ Requests' = Requests /\ Probes' = Probes /\ Responses' = Responses
      /\ Sendings' = Sendings /\ MaxClock' = MaxClock /\ MaxRequest' = MaxRequest
      /\ Ports' = Ports
  BY LoadStays DEF TypeOK
<1>. QED BY <1>1, ScalarsStep, TableStep, QueuesStep, NetworkStep, Zenon DEF TypeOK

-----------------------------------------------------------------------------
(* The invariant *)

\* At the start nothing was asked.
LEMMA InitInv == Init => IInv
<1>. SUFFICES ASSUME Init PROVE IInv
  OBVIOUS
<1>1. /\ load \in Loads /\ load \in LoadRecords /\ MinPort < load.maxPort
      /\ MinPort \in Nat /\ MaxProbes \in Nat
  BY PacketHelperAssumption DEF Init
<1>2. /\ MaxRequest \in Nat /\ MaxClock \in Nat /\ MaxPort \in Nat /\ MinPort < MaxPort
  BY <1>1 DEF LoadRecords, MaxRequest, MaxClock, MaxPort
<1>3. NotSent \in Sendings
  BY DEF NotSent, Sendings
<1>4. TypeOK
  <2>1. /\ pc \in {"poll", "receive", "streams", "expire", "dispatch", "flush", "done",
                   "fatal", "aborted"}
        /\ now \in 0..MaxClock /\ clock \in 0..MaxClock /\ at \in Nat \ {0}
        /\ written \in 0..MaxRequest
    BY <1>2 DEF Init
  <2>2. pipeOpen \in BOOLEAN /\ eof \in BOOLEAN /\ gone \in BOOLEAN
    BY DEF Init
  <2>3. /\ probes \in Seq(Probes) /\ Len(probes) <= MaxProbes /\ nextSequence \in Ports
        /\ todo \subseteq DOMAIN probes
    BY <1>1, <1>2 DEF Init, Ports
  <2>4. /\ lines \in Seq(Requests) /\ taken \in Seq(Requests)
        /\ responses \in Seq(Responses) /\ output \in Seq(Responses)
    BY DEF Init
  <2>5. /\ net \subseteq Requests
        /\ connect \in [Requests -> {"none", "connecting", "reached", "failed"}]
        /\ sentAs \in [Requests -> Sendings]
        /\ arrivals \in [Requests -> Seq(0..MaxClock)]
    BY <1>3 DEF Init
  <2>. QED BY <1>1, <2>1, <2>2, <2>3, <2>4, <2>5 DEF TypeOK
<1>5. Handled = 0
  <2>1. written = 0 /\ Len(lines) = 0 /\ Len(taken) = 0
    BY DEF Init
  <2>. QED BY <2>1 DEF Handled
<1>8. InOrder
  BY <1>5 DEF Init, InOrder
<1>6. Phases
  BY DEF Init, Phases
<1>7. Table = {} /\ Once(probes) /\ Given = {} /\ Once(Answers)
  <2>1. probes = <<>> /\ Answers = <<>>
    BY DEF Init, Answers
  <2>. QED BY <2>1, Nothing DEF Table, Given
<1>9. Accounted
  BY <1>5, <1>7 DEF Accounted
<1>10. SentOnce /\ Waiting /\ Truthful
  BY <1>7 DEF Init, SentOnce, Waiting, Truthful
<1>. QED BY <1>4, <1>6, <1>8, <1>9, <1>10 DEF IInv

\* Every step keeps it.
LEMMA StepInv == IInv /\ [Next]_vars => IInv'
BY TypeStep, InOrderStep, PhasesStep, AccountedStep, SentOnceStep, WaitingStep, TruthfulStep, Zenon
   DEF IInv

\* The invariant holds in every state the helper reaches.
THEOREM Invariant == Spec => []IInv
BY InitInv, StepInv, PTL DEF Spec

\* Every variable keeps its type: no more probes are outstanding than the table holds, and
\* sequence numbers are source ports.
THEOREM TypeCorrect == Spec => []TypeOK
BY Invariant, PTL DEF IInv

-----------------------------------------------------------------------------
(* What the invariant gives *)

\* The positions of one request in a sequence without repetition.
LEMMA Single ==
    ASSUME NEW S, NEW s \in Seq(S), Once(s), NEW r
    PROVE  LET P == {i \in DOMAIN s : s[i].req = r} IN
           /\ Cardinality(P) \in {0, 1}
           /\ Cardinality(P) = 1 <=> \E x \in Elements(s) : x.req = r
<1>. DEFINE P == {i \in DOMAIN s : s[i].req = r}
<1>1. \A x : x \in Elements(s) <=> \E i \in 1..Len(s) : s[i] = x
  BY Positions
<1>2. DOMAIN s = 1..Len(s)
  OBVIOUS
<1>3. CASE P = {}
  <2>1. Cardinality({}) = 0
    BY FS_EmptySet
  <2>2. ~\E x \in Elements(s) : x.req = r
    BY <1>1, <1>2, <1>3
  <2>3. Cardinality(P) = 0
    BY <1>3, <2>1, Zenon
  <2>. QED BY <2>2, <2>3
<1>4. CASE P # {}
  <2>1. PICK i \in P : TRUE
    BY <1>4
  <2>2. P = {i}
    BY <1>2, <2>1 DEF Once
  <2>3. Cardinality({i}) = 1
    BY FS_Singleton
  <2>4. \E x \in Elements(s) : x.req = r
    BY <1>1, <1>2, <2>1
  <2>5. Cardinality(P) = 1
    BY <2>2, <2>3, Zenon
  <2>. QED BY <2>4, <2>5
<1>. QED BY <1>3, <1>4

\* The lines that wait are those that were not dispatched.
LEMMA NotHandled ==
    ASSUME TypeOK, InOrder, NEW r \in 1..written
    PROVE  r \in WaitingLines <=> r > Handled
<1>1. /\ Handled \in Nat /\ Len(lines) \in Nat /\ Len(taken) \in Nat /\ written \in Nat
      /\ written = Handled + Len(taken) + Len(lines)
      /\ \A i \in 1..Len(taken) : taken[i] = Handled + i
      /\ \A i \in 1..Len(lines) : lines[i] = Handled + Len(taken) + i
  <2>1. Handled = written - Len(lines) - Len(taken)
    BY DEF Handled
  <2>. QED BY <2>1, LoadFacts, SMTT(60) DEF InOrder
<1>2. DOMAIN lines = 1..Len(lines) /\ DOMAIN taken = 1..Len(taken)
  BY DEF TypeOK
<1>3. ASSUME r \in WaitingLines PROVE r > Handled
  <2>1. (\E i \in 1..Len(lines) : lines[i] = r) \/ \E i \in 1..Len(taken) : taken[i] = r
    BY <1>2, <1>3 DEF WaitingLines
  <2>. QED BY <1>1, <2>1
<1>4. ASSUME r > Handled PROVE r \in WaitingLines
  <2>1. CASE r <= Handled + Len(taken)
    <3>1. r - Handled \in 1..Len(taken)
      BY <1>1, <1>4, <2>1
    <3>2. taken[r - Handled] = r
      BY <1>1, <3>1
    <3>. QED BY <1>2, <3>1, <3>2 DEF WaitingLines
  <2>2. CASE r > Handled + Len(taken)
    <3>1. r - Handled - Len(taken) \in 1..Len(lines)
      BY <1>1, <1>4, <2>2
    <3>2. lines[r - Handled - Len(taken)] = r
      BY <1>1, <3>1
    <3>. QED BY <1>2, <3>1, <3>2 DEF WaitingLines
  <2>. QED BY <1>1, <2>1, <2>2
<1>. QED BY <1>3, <1>4

\* Every line that was read is outstanding or answered, never both and never twice, however
\* receive, connect checks, expiry and dispatch interleave.
THEOREM OneResponseSafe == Spec => []OneResponse
<1>1. ASSUME IInv PROVE OneResponse
  <2>1. SUFFICES ASSUME ~gone, NEW r \in 1..written
                 PROVE  Cardinality(AnswersTo(r)) + Cardinality(EntriesOf(r))
                            = IF r \in WaitingLines THEN 0 ELSE 1
    BY DEF OneResponse
  <2>2. /\ TypeOK /\ InOrder /\ Once(probes) /\ Once(Answers) /\ Handled \in Nat
        /\ probes \in Seq(Probes)
        /\ \A p \in Table : p.req <= Handled
        /\ \A a \in Given : a.req <= Handled
        /\ \A p \in Table, a \in Given : p.req # a.req
        /\ \A q \in 1..Handled : (\E p \in Table : p.req = q) \/ (\E a \in Given : a.req = q)
    BY <1>1, <2>1 DEF IInv, TypeOK, InOrder, Accounted
  <2>3. r \in WaitingLines <=> r > Handled
    BY <2>2, NotHandled
  <2>4. /\ Cardinality(EntriesOf(r)) \in {0, 1}
        /\ Cardinality(EntriesOf(r)) = 1 <=> \E p \in Table : p.req = r
    BY <2>2, Single, ZenonT(60) DEF EntriesOf, Table
  <2>5. /\ Cardinality(AnswersTo(r)) \in {0, 1}
        /\ Cardinality(AnswersTo(r)) = 1 <=> \E a \in Given : a.req = r
    BY <2>2, Contents, Single, ZenonT(60) DEF AnswersTo, Given
  <2>6. CASE r > Handled
    <3>1. (~\E p \in Table : p.req = r) /\ ~\E a \in Given : a.req = r
      BY <2>2, <2>6, Contents, LoadFacts
    <3>. QED BY <2>3, <2>4, <2>5, <2>6, <3>1
  <2>7. CASE ~(r > Handled)
    <3>1. r \in 1..Handled
      BY <2>2, <2>7, LoadFacts
    <3>2. (\E p \in Table : p.req = r) \/ (\E a \in Given : a.req = r)
      BY <2>2, <3>1
    <3>3. ~((\E p \in Table : p.req = r) /\ (\E a \in Given : a.req = r))
      BY <2>2
    <3>. QED BY <2>3, <2>4, <2>5, <2>7, <3>2, <3>3
  <2>. QED BY <2>6, <2>7
<1>. QED BY <1>1, Invariant, PTL

\* Requests that share no sequence number do not collide.
LEMMA Differing ==
    ASSUME SequencesDiffer, NEW r \in Requests
    PROVE  ~Collides(r)
BY DEF SequencesDiffer, Collides

\* While no sequence number has come round, an answer is reported for its own probe.
THEOREM ReplyIsOwnSafe == Spec => []ReplyIsOwn
<1>1. ASSUME IInv PROVE ReplyIsOwn
  <2>1. SUFFICES ASSUME SequencesDiffer, NEW i \in DOMAIN Answers
                 PROVE  Answers[i].of \in {0, Answers[i].req}
    BY DEF ReplyIsOwn
  <2>2. Answers[i] \in Given /\ Answers[i].req \in Requests
    BY <1>1, <2>1, Contents DEF IInv
  <2>. QED BY <1>1, <2>1, <2>2, Differing DEF IInv, Truthful, Right
<1>. QED BY <1>1, Invariant, PTL

\* Nor is an answer that arrived by the deadline reported as a timeout, however late the
\* process gets to look.
THEOREM InTimeSafe == Spec => []InTimeIsAnswered
<1>1. ASSUME IInv PROVE InTimeIsAnswered
  <2>1. SUFFICES ASSUME SequencesDiffer, NEW i \in DOMAIN Answers, Answers[i].kind = "no-reply",
                        NEW k \in DOMAIN arrivals[Answers[i].req]
                 PROVE  arrivals[Answers[i].req][k] > sentAs[Answers[i].req].deadline
    BY DEF InTimeIsAnswered
  <2>2. Answers[i] \in Given /\ Answers[i].req \in Requests
    BY <1>1, <2>1, Contents DEF IInv
  <2>3. k \in 1..Len(arrivals[Answers[i].req])
    BY <1>1, <2>1, <2>2 DEF IInv, TypeOK
  <2>. QED BY <1>1, <2>1, <2>2, <2>3, Differing DEF IInv, Truthful, Right
<1>. QED BY <1>1, Invariant, PTL

\* When the process ends on its own, nothing a client still reads is lost.
THEOREM NothingLostSafe == Spec => []NothingLost
<1>1. ASSUME IInv PROVE NothingLost
  <2>1. /\ TypeOK /\ InOrder /\ Phases /\ Accounted /\ SentOnce
        /\ output \in Seq(Responses) /\ probes \in Seq(Probes)
    BY <1>1 DEF IInv, TypeOK
  <2>2. ASSUME responses = <<>>, NEW r, \E a \in Given : a.req = r
        PROVE  \E i \in DOMAIN output : output[i].req = r
    <3>1. Answers = output
      BY <2>1, <2>2, Writing DEF Answers
    <3>2. PICK a \in Given : a.req = r
      BY <2>2
    <3>3. PICK i \in 1..Len(Answers) : Answers[i] = a
      BY <2>1, Contents
    <3>. QED BY <2>1, <3>1, <3>2, <3>3
  <2>3. ASSUME NEW r, \E p \in Table : p.req = r PROVE EntriesOf(r) # {}
    <3>1. PICK i \in 1..Len(probes) : probes[i].req = r
      BY <2>1, <2>3, Contents
    <3>. QED BY <2>1, <3>1 DEF EntriesOf
  <2>4. ASSUME ~gone, NEW r \in 1..Handled
        PROVE  (\E p \in Table : p.req = r) \/ (\E a \in Given : a.req = r)
    BY <2>1, <2>4 DEF Accounted
  <2>5. ASSUME pc = "done", ~gone, NEW r \in 1..written
        PROVE  \E i \in DOMAIN output : output[i].req = r
    <3>1. responses = <<>> /\ probes = <<>> /\ lines = <<>> /\ taken = <<>>
      BY <2>1, <2>5 DEF Phases
    <3>2. Handled = written
      <4>1. Len(lines) = 0 /\ Len(taken) = 0 /\ written \in Nat
        BY <2>1, <3>1, LoadFacts
      <4>. QED BY <4>1 DEF Handled
    <3>3. Table = {}
      BY <3>1, Nothing DEF Table
    <3>. QED BY <2>2, <2>4, <2>5, <3>1, <3>2, <3>3
  <2>6. ASSUME pc = "fatal", ~gone, NEW r \in Requests, sentAs[r] # NotSent
        PROVE  EntriesOf(r) # {} \/ \E i \in DOMAIN output : output[i].req = r
    <3>1. responses = <<>>
      BY <2>1, <2>6 DEF Phases
    <3>2. r \in 1..Handled
      BY <2>1, <2>6, LoadFacts DEF SentOnce, InOrder
    <3>. QED BY <2>2, <2>3, <2>4, <2>6, <3>1, <3>2
  <2>. QED BY <2>5, <2>6, Zenon DEF NothingLost
<1>. QED BY <1>1, Invariant, PTL

-----------------------------------------------------------------------------
(* The command buffer in front of the helper, for every size and every input *)

\* The window begins after a newline, at the beginning of the input, or inside a line of
\* which more than fits has been discarded.
WindowAligned ==
    \/ start = 0
    \/ start \in newlines
    \/ /\ start \in discarded
       /\ start >= Size - 1
       /\ \A n \in newlines : n <= start - (Size - 1) \/ start < n

\* Between turns no newline is in the window; what was taken or discarded has left it.
WindowDrained ==
    /\ turn = "read" => \A n \in newlines : n <= start \/ read < n
    /\ \A line \in takenLines : line[2] <= start
    /\ \A d \in discarded : d <= start

\* LinesIntact and DiscardsReported for the input that has left the window.
IntactBefore ==
    \A p \in 0..InputLength, n \in InputPositions :
        IsLine(p, n) /\ n - p <= Size - 1 /\ n <= start =>
            /\ <<p, n>> \in takenLines
            /\ \A line \in takenLines : line[2] = n => line[1] = p

DiscardsInside == \A d \in discarded : \A n \in newlines : n <= d - (Size - 1) \/ d < n

ReportedBefore ==
    \A p \in 0..InputLength, n \in InputPositions :
        IsLine(p, n) /\ n - p > Size - 1 /\ n <= start =>
            \E d \in discarded : p < d /\ d < n

BufferInv ==
    /\ BufferType /\ EndIsReal /\ WindowAligned /\ WindowDrained
    /\ IntactBefore /\ DiscardsInside /\ ReportedBefore

\* The invariant gives the properties: between turns the window holds no newline.
LEMMA BufferInvariantImplies ==
    ASSUME BufferInv
    PROVE  /\ BufferType /\ EndIsReal /\ LinesIntact /\ DiscardsReported
<1>1. \A n \in newlines : n <= Seen => n <= start
  BY DEF BufferInv, WindowDrained, Seen, BufferType, InputPositions
<1>2. LinesIntact
  BY <1>1 DEF BufferInv, IntactBefore, LinesIntact, IsLine
<1>3. DiscardsReported
  BY <1>1 DEF BufferInv, DiscardsInside, ReportedBefore, DiscardsReported, IsLine
<1> QED BY <1>2, <1>3 DEF BufferInv

\* The initial window is empty.
LEMMA BufferInitInvariant ==
    ASSUME BufferInit
    PROVE  BufferInv
<1>1. BufferType /\ EndIsReal /\ WindowAligned /\ WindowDrained
  BY CommandBufferAssumption DEF BufferInit, BufferType, EndIsReal, SpaceRemaining,
         WindowAligned, WindowDrained, InputPositions
<1>2. IntactBefore /\ DiscardsInside /\ ReportedBefore
  BY CommandBufferAssumption
     DEF BufferInit, IntactBefore, DiscardsInside, ReportedBefore, InputPositions
<1> QED BY <1>1, <1>2 DEF BufferInv

\* A read moves the end of the window within the space that remains.
LEMMA BufferReadKeeps ==
    ASSUME BufferInv, ReadInput
    PROVE  BufferInv'
<1> USE CommandBufferAssumption
<1>1. UNCHANGED <<newlines, start, takenLines, discarded>> /\ turn' = "take"
  BY DEF ReadInput
<1>2. BufferType' /\ EndIsReal'
  <2>1. SpaceRemaining > 0 /\ start \in 0..InputLength /\ read \in 0..InputLength
        /\ read - start \in 0..(Size - 1)
    BY DEF BufferInv, EndIsReal, BufferType, ReadInput
  <2>2. CASE read' = read /\ inputOpen' = FALSE /\ read = InputLength
    BY <2>1, <2>2, <1>1 DEF BufferInv, EndIsReal, BufferType
  <2>3. ASSUME NEW k \in 1..SpaceRemaining, read + k <= InputLength, read' = read + k,
               UNCHANGED inputOpen
        PROVE  BufferType' /\ EndIsReal'
    <3>1. read' \in 0..InputLength /\ read' - start \in 0..(Size - 1)
      BY <2>1, <2>3 DEF SpaceRemaining
    <3>2. BufferType'
      BY <3>1, <2>3, <1>1 DEF BufferInv, BufferType
    <3>3. inputOpen
      BY DEF ReadInput
    <3> QED BY <3>2, <3>3, <2>3, <1>1 DEF EndIsReal
  <2>4. SpaceRemaining # 0
    BY <2>1 DEF SpaceRemaining
  <2> QED BY <2>2, <2>3, <2>4 DEF ReadInput
<1>3. WindowAligned' /\ WindowDrained'
  BY <1>1 DEF BufferInv, WindowAligned, WindowDrained
<1>4. IntactBefore' /\ DiscardsInside' /\ ReportedBefore'
  BY <1>1 DEF BufferInv, IntactBefore, DiscardsInside, ReportedBefore, IsLine
<1> QED BY <1>2, <1>3, <1>4 DEF BufferInv

\* Taking the lines moves the window behind the last newline in it, or behind everything
\* read when what is left fills the window.
LEMMA BufferTakeLinesKeeps ==
    ASSUME BufferInv, TakeLines
    PROVE  BufferInv'
<1> USE CommandBufferAssumption
<1>1. UNCHANGED <<newlines, read, inputOpen>> /\ turn = "take" /\ turn' = "read"
  BY DEF TakeLines
<1>2. PICK last \in InWindow \cup {start} :
        /\ \A n \in InWindow : n <= last
        /\ \/ read - last >= Size - 1 /\ start' = read /\ discarded' = discarded \cup {read}
           \/ read - last < Size - 1 /\ start' = last /\ UNCHANGED discarded
  BY DEF TakeLines
<1>3. /\ start \in Nat /\ read \in Nat /\ last \in Nat
      /\ start <= last /\ last <= read /\ read <= InputLength
      /\ newlines \subseteq InputPositions
      /\ read - start <= Size - 1
  BY <1>2 DEF BufferInv, BufferType, InWindow, InputPositions
<1>4. \A n \in newlines : n <= read => n <= last
  BY <1>2, <1>3 DEF InWindow, InputPositions
<1>5. PICK next \in Nat :
        /\ start' = next
        /\ start <= next /\ next <= read /\ last <= next
        /\ read - next < Size - 1
  BY <1>2, <1>3
<1>6. \A line \in LinesInWindow :
        /\ line \in (0..InputLength) \X InputPositions
        /\ line[1] \in InWindow \cup {start} /\ line[2] \in InWindow
        /\ line[1] < line[2] /\ start < line[2] /\ line[2] <= last
        /\ \A n \in InWindow : n <= line[1] \/ line[2] <= n
  <2> SUFFICES ASSUME NEW line \in (InWindow \cup {start}) \X InWindow,
                      line[1] < line[2],
                      \A n \in InWindow : n <= line[1] \/ line[2] <= n
               PROVE  /\ line \in (0..InputLength) \X InputPositions
                      /\ start < line[2] /\ line[2] <= last
    BY DEF LinesInWindow
  <2>1. /\ InWindow \subseteq InputPositions
        /\ InWindow \cup {start} \subseteq 0..InputLength
    <3>1. InWindow \subseteq newlines
      BY DEF InWindow
    <3>2. start \in 0..InputLength
      BY <1>3
    <3> QED BY <3>1, <3>2, <1>3 DEF InputPositions
  <2>2. line[1] \in InWindow \cup {start} /\ line[2] \in InWindow
        /\ line = <<line[1], line[2]>>
    OBVIOUS
  <2>3. line \in (0..InputLength) \X InputPositions
    BY <2>1, <2>2
  <2>4. start < line[2] /\ line[2] <= last
    BY <2>2, <1>2 DEF InWindow
  <2> QED BY <2>3, <2>4
<1>7. takenLines' = takenLines \cup LinesInWindow
  BY DEF TakeLines
<1>8. BufferType'
  <2>1. takenLines' \subseteq (0..InputLength) \X InputPositions
    BY <1>6, <1>7 DEF BufferInv, BufferType
  <2>2. start' \in 0..InputLength /\ read - start' \in 0..(Size - 1)
    <3>1. next \in 0..InputLength /\ read - next \in 0..(Size - 1)
      BY <1>3, <1>5
    <3> QED BY <3>1, <1>5
  <2>3. discarded' \subseteq InputPositions
    <3>1. CASE UNCHANGED discarded
      BY <3>1 DEF BufferInv, BufferType
    <3>2. CASE read - last >= Size - 1 /\ discarded' = discarded \cup {read}
      <4>1. read \in InputPositions
        BY <3>2, <1>3 DEF InputPositions
      <4> QED BY <4>1, <3>2 DEF BufferInv, BufferType
    <3> QED BY <3>1, <3>2, <1>2
  <2> QED BY <2>1, <2>2, <2>3, <1>1 DEF BufferInv, BufferType
<1>9. EndIsReal'
  <2>1. Size - 1 - (read - next) > 0
    BY <1>3, <1>5
  <2>2. SpaceRemaining' > 0
    BY <2>1, <1>1, <1>5 DEF SpaceRemaining
  <2> QED BY <2>2, <1>1 DEF BufferInv, EndIsReal
<1>10. start' = read => \A n \in newlines : n <= last \/ read < n
  BY <1>4, <1>3 DEF InputPositions
<1>11. WindowAligned'
  <2>1. CASE start' = last /\ UNCHANGED discarded
    <3>1. CASE last = start
      BY <2>1, <3>1, <1>1 DEF BufferInv, WindowAligned
    <3>2. CASE last # start
      BY <2>1, <3>2, <1>1, <1>2 DEF WindowAligned, InWindow
    <3> QED BY <3>1, <3>2
  <2>2. CASE read - last >= Size - 1 /\ start' = read /\ discarded' = discarded \cup {read}
    <3>1. \A n \in newlines : n <= read - (Size - 1) \/ read < n
      BY <2>2, <1>3, <1>4 DEF InputPositions
    <3>2. read >= Size - 1
      BY <2>2, <1>3
    <3> QED BY <2>2, <3>1, <3>2, <1>1 DEF WindowAligned
  <2> QED BY <1>2, <2>1, <2>2
<1>12. WindowDrained'
  <2>1. \A n \in newlines : n <= start' \/ read < n
    BY <1>3, <1>4, <1>5 DEF InputPositions
  <2>2. \A line \in takenLines' : line[2] <= start'
    BY <1>3, <1>5, <1>6, <1>7 DEF BufferInv, WindowDrained, BufferType, InputPositions
  <2>3. \A d \in discarded' : d <= start'
    <3>1. \A d \in discarded : d \in Nat /\ d <= start
      BY DEF BufferInv, WindowDrained, BufferType, InputPositions
    <3>2. \A d \in discarded : d <= start'
      BY <3>1, <1>3, <1>5
    <3> QED BY <3>2, <1>2, <1>3
  <2> QED BY <2>1, <2>2, <2>3, <1>1 DEF WindowDrained
<1>13. DiscardsInside'
  BY <1>1, <1>2, <1>3, <1>4 DEF BufferInv, DiscardsInside, InputPositions
<1>14. IntactBefore'
  <2> SUFFICES ASSUME NEW p \in 0..InputLength, NEW n \in InputPositions,
                      IsLine(p, n), n - p <= Size - 1, n <= start'
               PROVE  /\ <<p, n>> \in takenLines'
                      /\ \A line \in takenLines' : line[2] = n => line[1] = p
    BY <1>1 DEF IntactBefore, IsLine
  <2>1. CASE n <= start
    <3>1. <<p, n>> \in takenLines /\ \A line \in takenLines : line[2] = n => line[1] = p
      BY <2>1 DEF BufferInv, IntactBefore
    <3>2. \A line \in LinesInWindow : line[2] # n
      BY <2>1, <1>3, <1>6 DEF InWindow, InputPositions
    <3> QED BY <3>1, <3>2, <1>7
  <2>2. CASE start < n
    <3>1. n \in InWindow
      BY <2>2, <1>5, <1>3 DEF InWindow, IsLine, InputPositions
    \* A line that fits cannot have begun before a window that begins inside a line.
    <3>2. start <= p
      <4>1. start \in newlines \cup {0} => start <= p
        BY <2>2, <1>3 DEF IsLine, InputPositions
      <4>2. start \notin newlines \cup {0} => start <= p
        <5> SUFFICES ASSUME start \notin newlines \cup {0} PROVE start <= p
          OBVIOUS
        <5>1. start >= Size - 1 /\ \A m \in newlines : m <= start - (Size - 1) \/ start < m
          BY DEF BufferInv, WindowAligned
        <5>2. p <= start - (Size - 1) \/ start < p
          BY <5>1, <1>3 DEF IsLine
        <5>3. ~(p <= start - (Size - 1))
          BY <2>2, <1>3 DEF InputPositions
        <5> QED BY <5>2, <5>3, <1>3
      <4> QED BY <4>1, <4>2
    <3>3. p \in InWindow \cup {start}
      BY <3>2, <1>3, <1>5 DEF InWindow, IsLine, InputPositions
    <3>4. <<p, n>> \in LinesInWindow
      BY <3>1, <3>3 DEF LinesInWindow, InWindow, IsLine
    <3>5. \A line \in LinesInWindow : line[2] = n => line[1] = p
      <4> SUFFICES ASSUME NEW line \in LinesInWindow, line[2] = n PROVE line[1] = p
        OBVIOUS
      <4>1. p <= line[1]
        BY <1>6, <1>3, <3>2, <3>3 DEF IsLine, InWindow, InputPositions
      <4>2. line[1] <= p
        BY <1>6, <1>3, <3>2, <3>1 DEF IsLine, InWindow, InputPositions
      <4> QED BY <4>1, <4>2, <1>6, <1>3 DEF InputPositions
    <3>6. \A line \in takenLines : line[2] # n
      BY <2>2, <1>3 DEF BufferInv, WindowDrained, BufferType, InputPositions
    <3> QED BY <3>4, <3>5, <3>6, <1>7
  <2> QED BY <2>1, <2>2, <1>3 DEF InputPositions
<1>15. ReportedBefore'
  <2> SUFFICES ASSUME NEW p \in 0..InputLength, NEW n \in InputPositions,
                      IsLine(p, n), n - p > Size - 1, n <= start'
               PROVE  \E d \in discarded' : p < d /\ d < n
    BY <1>1 DEF ReportedBefore, IsLine
  <2>1. CASE n <= start
    BY <2>1, <1>2 DEF BufferInv, ReportedBefore
  \* The line ends in a window too short for it, which therefore begins inside it.
  <2>2. CASE start < n
    <3>1. p < start
      BY <2>2, <1>3, <1>5 DEF InputPositions
    <3>2. start \notin newlines \cup {0}
      BY <3>1, <2>2, <1>3 DEF IsLine, InputPositions
    <3>3. start \in discarded
      BY <3>2 DEF BufferInv, WindowAligned
    <3> QED BY <3>1, <3>3, <2>2, <1>2
  <2> QED BY <2>1, <2>2, <1>3 DEF InputPositions
<1> QED BY <1>8, <1>9, <1>11, <1>12, <1>13, <1>14, <1>15 DEF BufferInv

\* The strengthened invariant holds in every reachable state.
THEOREM BufferInvariant == BufferSpec => []BufferInv
<1>1. BufferInv /\ UNCHANGED bufferVars => BufferInv'
  BY DEF bufferVars, BufferInv, BufferType, EndIsReal, SpaceRemaining,
         WindowAligned, WindowDrained, IntactBefore,
         DiscardsInside, ReportedBefore, IsLine
<1>2. BufferInv /\ [BufferNext]_bufferVars => BufferInv'
  BY <1>1, BufferReadKeeps, BufferTakeLinesKeeps DEF BufferNext
<1> QED BY BufferInitInvariant, <1>2, PTL DEF BufferSpec

\* The buffer never holds more than Size - 1 bytes, whatever is read.
THEOREM BufferTypeCorrect == BufferSpec => []BufferType
<1> QED BY BufferInvariant, BufferInvariantImplies, PTL

\* The loop never takes a full buffer for the end of the input.
THEOREM BufferEndSafe == BufferSpec => []EndIsReal
<1> QED BY BufferInvariant, BufferInvariantImplies, PTL

\* A line that fits the window is taken whole however it is split over reads; discards
\* happen inside lines that do not fit, and each such line is reported.
THEOREM BufferLinesSafe == BufferSpec => []LinesKept
<1>1. BufferInv => LinesKept
  BY BufferInvariantImplies DEF LinesKept
<1> QED BY BufferInvariant, <1>1, PTL
===============================================================================
