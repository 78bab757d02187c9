---------------------------- MODULE LookupsProofs -----------------------------
(***************************************************************************)
(* Every pending lookup is at exactly one place on its way, for any number  *)
(* of addresses, channels of any capacity and any number of permits, and    *)
(* none that is wanted is forgotten.                                        *)
(***************************************************************************)
EXTENDS Lookups, FiniteSetTheorems, TLAPS

Distinct(s) == \A i, j \in 1..Len(s) : s[i] = s[j] => i = j
AtMostOne(S) == S = {} \/ \E l \in Lookups : S = {l}

Queued   == Elements(requests)
Returned == Elements(results)

\* What is on its way, place by place.
OnTheWay ==
    pending = sending \cup Queued \cup held \cup inFlight \cup answered \cup Returned

\* No lookup is at two places, and none twice in a channel.
Apart ==
    /\ Distinct(requests) /\ Distinct(results)
    /\ sending \cap (Queued \cup held \cup inFlight \cup answered \cup Returned) = {}
    /\ Queued \cap (held \cup inFlight \cup answered \cup Returned) = {}
    /\ held \cap (inFlight \cup answered \cup Returned) = {}
    /\ inFlight \cap (answered \cup Returned) = {}
    /\ answered \cap Returned = {}

Journey ==
    /\ OnTheWay /\ Apart
    /\ AtMostOne(sending) /\ AtMostOne(held)
    /\ pending \cap known = {}

\* Lookups are asked for within a step, and only of a resolver; a report that was not cut
\* short waits for them.
Control ==
    /\ driver # "request" => asking = <<>> /\ turn = <<>> /\ sending = {}
    /\ turn # <<>> \/ pending # {} => resolver
    /\ driver = "done" /\ ~expired => pending = {}

\* A discovered address is still to be passed to request_lookups, or its lookups are
\* still to be looked at, or asked for.
Asked ==
    ~failedOnce =>
        \A ip \in discovered, kind \in want :
            \/ [kind |-> kind, addr |-> ip] \in pending \cup known
            \/ [kind |-> kind, addr |-> ip] \in Elements(turn)
            \/ ip \in Elements(asking)

IInv == TypeOK /\ Journey /\ Control /\ Asked

-----------------------------------------------------------------------------
(* Channels and the lists of a step *)

\* The elements of a sequence, by position.
LEMMA Positions ==
    ASSUME NEW S, NEW s \in Seq(S)
    PROVE  /\ Len(s) \in Nat /\ Elements(s) \subseteq S
           /\ \A x : x \in Elements(s) <=> \E i \in 1..Len(s) : s[i] = x
BY SMT DEF Elements

\* The empty sequence.
LEMMA Nothing == Elements(<<>>) = {} /\ Distinct(<<>>) /\ Len(<<>>) = 0
BY SMT DEF Elements, Distinct

\* A lookup that enters a channel it is not in.
LEMMA Entering ==
    ASSUME NEW S, NEW s \in Seq(S), NEW x \in S
    PROVE  /\ Append(s, x) \in Seq(S)
           /\ Len(Append(s, x)) = Len(s) + 1
           /\ Elements(Append(s, x)) = Elements(s) \cup {x}
           /\ Distinct(s) /\ x \notin Elements(s) => Distinct(Append(s, x))
<1>1. /\ Append(s, x) \in Seq(S) /\ Len(s) \in Nat /\ Len(Append(s, x)) = Len(s) + 1
      /\ \A i \in 1..Len(s) : Append(s, x)[i] = s[i]
      /\ Append(s, x)[Len(s) + 1] = x
  BY SMT
<1>2. \A y : y \in Elements(Append(s, x)) <=> \E i \in 1..(Len(s) + 1) : Append(s, x)[i] = y
  <2>1. \A y : y \in Elements(Append(s, x)) <=>
                \E i \in 1..Len(Append(s, x)) : Append(s, x)[i] = y
    BY <1>1, Positions, Zenon
  <2>. QED BY <1>1, <2>1
<1>3. \A y : y \in Elements(s) <=> \E i \in 1..Len(s) : s[i] = y
  BY Positions
<1>4. Elements(Append(s, x)) = Elements(s) \cup {x}
  BY <1>1, <1>2, <1>3
<1>5. Distinct(s) /\ x \notin Elements(s) => Distinct(Append(s, x))
  BY <1>1, <1>3 DEF Distinct
<1>. QED BY <1>1, <1>4, <1>5

\* A lookup that leaves a channel.
LEMMA Leaving ==
    ASSUME NEW S, NEW s \in Seq(S), s # <<>>
    PROVE  /\ Tail(s) \in Seq(S) /\ Head(s) \in S
           /\ Len(s) \in Nat /\ Len(Tail(s)) = Len(s) - 1
           /\ Elements(s) = Elements(Tail(s)) \cup {Head(s)}
           /\ Distinct(s) => Distinct(Tail(s)) /\ Head(s) \notin Elements(Tail(s))
<1>1. /\ Tail(s) \in Seq(S) /\ Head(s) \in S /\ Head(s) = s[1]
      /\ Len(s) \in Nat /\ Len(s) >= 1 /\ Len(Tail(s)) = Len(s) - 1
      /\ \A i \in 1..(Len(s) - 1) : Tail(s)[i] = s[i + 1]
  BY SMT
<1>2. \A y : y \in Elements(Tail(s)) <=> \E i \in 1..(Len(s) - 1) : Tail(s)[i] = y
  <2>1. \A y : y \in Elements(Tail(s)) <=> \E i \in 1..Len(Tail(s)) : Tail(s)[i] = y
    BY <1>1, Positions, Zenon
  <2>. QED BY <1>1, <2>1
<1>3. \A y : y \in Elements(s) <=> \E i \in 1..Len(s) : s[i] = y
  BY Positions
<1>4. Elements(s) = Elements(Tail(s)) \cup {Head(s)}
  <2>1. ASSUME NEW y, y \in Elements(s) PROVE y \in Elements(Tail(s)) \cup {Head(s)}
    <3>1. PICK i \in 1..Len(s) : s[i] = y
      BY <2>1, <1>3
    <3>2. CASE i = 1
      BY <3>1, <3>2, <1>1
    <3>3. CASE i # 1
      <4>1. i - 1 \in 1..(Len(s) - 1) /\ (i - 1) + 1 = i
        BY <3>3, <1>1
      <4>. QED BY <4>1, <3>1, <1>1, <1>2
    <3>. QED BY <3>2, <3>3
  <2>2. ASSUME NEW y, y \in Elements(Tail(s)) PROVE y \in Elements(s)
    <3>1. PICK i \in 1..(Len(s) - 1) : s[i + 1] = y
      BY <2>2, <1>1, <1>2
    <3>2. i + 1 \in 1..Len(s)
      BY <1>1
    <3>. QED BY <3>1, <3>2, <1>3
  <2>3. Head(s) \in Elements(s)
    BY <1>1, <1>3
  <2>. QED BY <2>1, <2>2, <2>3
<1>5. ASSUME Distinct(s) PROVE Distinct(Tail(s)) /\ Head(s) \notin Elements(Tail(s))
  BY <1>1, <1>2, <1>5 DEF Distinct
<1>. QED BY <1>1, <1>4, <1>5

\* A channel without repetitions holds as many lookups as it is long.
LEMMA Counting ==
    ASSUME NEW S, NEW s \in Seq(S), Distinct(s)
    PROVE  IsFiniteSet(Elements(s)) /\ Cardinality(Elements(s)) = Len(s)
<1>1. Len(s) \in Nat /\ \A x : x \in Elements(s) <=> \E i \in 1..Len(s) : s[i] = x
  BY Positions
<1>2. s \in [1..Len(s) -> Elements(s)]
  BY <1>1, SMT
<1>3. s \in Bijection(1..Len(s), Elements(s))
  BY <1>1, <1>2 DEF Bijection, Injection, Surjection, IsInjective, Distinct
<1>4. ExistsBijection(1..Len(s), Elements(s))
  BY <1>3 DEF ExistsBijection
<1>. QED BY <1>1, <1>4, FS_NatBijection, FS_CountingElements

\* There are finitely many lookups.
LEMMA LookupsFinite == IsFiniteSet(Lookups)
<1>. DEFINE Pairs == Kinds \X Addrs
            f == [p \in Pairs |-> [kind |-> p[1], addr |-> p[2]]]
<1>1. IsFiniteSet(Kinds)
  <2>1. IsFiniteSet({"ptr"})
    BY FS_Singleton
  <2>2. Kinds = {"ptr"} \cup {"asn"}
    BY DEF Kinds
  <2>. QED BY <2>1, <2>2, FS_AddElement
<1>2. IsFiniteSet(Pairs)
  BY <1>1, FS_Product, LookupsAssumption
<1>3. f \in [Pairs -> Lookups]
  BY DEF Lookups
<1>4. ASSUME NEW l \in Lookups PROVE \E p \in Pairs : f[p] = l
  <2>1. <<l.kind, l.addr>> \in Pairs /\ f[<<l.kind, l.addr>>] = l
    BY DEF Lookups
  <2>. QED BY <2>1
<1>5. f \in Surjection(Pairs, Lookups)
  BY <1>3, <1>4 DEF Surjection
<1>. HIDE DEF f, Pairs
<1>. QED BY <1>2, <1>5, FS_Surjection

\* A set of lookups has a size, and two that have none in common add theirs.
LEMMA Sizes ==
    /\ \A S \in SUBSET Lookups : IsFiniteSet(S) /\ Cardinality(S) \in Nat
    /\ \A S, T \in SUBSET Lookups :
          S \cap T = {} => Cardinality(S \cup T) = Cardinality(S) + Cardinality(T)
<1>1. ASSUME NEW S \in SUBSET Lookups PROVE IsFiniteSet(S) /\ Cardinality(S) \in Nat
  BY LookupsFinite, FS_Subset, FS_CardinalityType
<1>2. ASSUME NEW S \in SUBSET Lookups, NEW T \in SUBSET Lookups, S \cap T = {}
      PROVE  Cardinality(S \cup T) = Cardinality(S) + Cardinality(T)
  <2>1. Cardinality(S \cup T) = Cardinality(S) + Cardinality(T) - Cardinality(S \cap T)
    BY <1>1, FS_Union
  <2>2. Cardinality(S \cap T) = 0
    BY <1>2, FS_EmptySet
  <2>3. Cardinality(S) \in Nat /\ Cardinality(T) \in Nat
    BY <1>1
  <2>. QED BY <2>1, <2>2, <2>3
<1>. QED BY <1>1, <1>2

-----------------------------------------------------------------------------
(* The driver's lists *)

\* An order of a set of addresses is a list of addresses that names each of them.
LEMMA Orderings ==
    ASSUME NEW S \in SUBSET Addrs, NEW s \in Orders(S)
    PROVE  s \in Seq(Addrs) /\ S \subseteq Elements(s)
<1>1. IsFiniteSet(S)
  BY FS_Subset, LookupsAssumption
<1>2. Cardinality(S) \in Nat
  BY <1>1, FS_CardinalityType
<1>3. s \in [1..Cardinality(S) -> S] /\ \A x \in S : \E i \in DOMAIN s : s[i] = x
  BY DEF Orders
<1>4. s \in Seq(Addrs)
  BY <1>2, <1>3, SMT
<1>. QED BY <1>3, <1>4 DEF Elements

\* A list of two.
LEMMA Pair ==
    ASSUME NEW S, NEW x \in S, NEW y \in S
    PROVE  <<x>> \o <<y>> \in Seq(S) /\ {x, y} \subseteq Elements(<<x>> \o <<y>>)
<1>1. /\ <<x>> \in Seq(S) /\ <<y>> \in Seq(S)
      /\ Len(<<x>>) = 1 /\ <<x>>[1] = x /\ Len(<<y>>) = 1 /\ <<y>>[1] = y
  BY SMT
<1>2. <<x>> \o <<y>> \in Seq(S) /\ Len(<<x>> \o <<y>>) = 2
  BY <1>1, SMT
<1>3. (<<x>> \o <<y>>)[1] = x /\ (<<x>> \o <<y>>)[2] = y
  BY <1>1, SMT
<1>4. \A z : z \in Elements(<<x>> \o <<y>>) <=>
              \E i \in 1..Len(<<x>> \o <<y>>) : (<<x>> \o <<y>>)[i] = z
  BY <1>2, Positions, Zenon
<1>5. x \in Elements(<<x>> \o <<y>>)
  BY <1>2, <1>3, <1>4
<1>6. y \in Elements(<<x>> \o <<y>>)
  BY <1>2, <1>3, <1>4
<1>. QED BY <1>2, <1>5, <1>6

\* The lookups of an address are of the kinds that are wanted, all of them.
LEMMA Wanted ==
    ASSUME want \subseteq Kinds, NEW ip \in Addrs
    PROVE  /\ WantedFor(ip) \in Seq(Lookups)
           /\ \A kind \in want : [kind |-> kind, addr |-> ip] \in Elements(WantedFor(ip))
<1>. DEFINE p == [kind |-> "ptr", addr |-> ip]
            q == [kind |-> "asn", addr |-> ip]
<1>1. p \in Lookups /\ q \in Lookups /\ p.kind = "ptr" /\ q.kind = "asn"
  BY DEF Lookups, Kinds
<1>2. WantedFor(ip) = (IF "ptr" \in want THEN <<p>> ELSE <<>>)
                         \o (IF "asn" \in want THEN <<q>> ELSE <<>>)
  BY <1>1 DEF WantedFor, IfWanted
<1>3. \A kind \in want : kind = "ptr" \/ kind = "asn"
  BY DEF Kinds
<1>. HIDE DEF p, q
<1>4. CASE "ptr" \in want /\ "asn" \in want
  <2>1. WantedFor(ip) = <<p>> \o <<q>>
    BY <1>2, <1>4
  <2>2. <<p>> \o <<q>> \in Seq(Lookups) /\ {p, q} \subseteq Elements(<<p>> \o <<q>>)
    BY <1>1, Pair
  <2>. QED BY <2>1, <2>2, <1>3 DEF p, q
<1>5. CASE "ptr" \in want /\ "asn" \notin want
  <2>1. WantedFor(ip) = <<p>>
    BY <1>2, <1>5
  <2>2. WantedFor(ip) \in Seq(Lookups) /\ Elements(WantedFor(ip)) = {p}
    BY <2>1, <1>1 DEF Elements
  <2>. QED BY <2>2, <1>3, <1>5 DEF p
<1>6. CASE "ptr" \notin want /\ "asn" \in want
  <2>1. WantedFor(ip) = <<q>>
    BY <1>2, <1>6
  <2>2. WantedFor(ip) \in Seq(Lookups) /\ Elements(WantedFor(ip)) = {q}
    BY <2>1, <1>1 DEF Elements
  <2>. QED BY <2>2, <1>3, <1>6 DEF q
<1>7. CASE "ptr" \notin want /\ "asn" \notin want
  <2>1. WantedFor(ip) = <<>>
    BY <1>2, <1>7
  <2>2. WantedFor(ip) \in Seq(Lookups)
    BY <2>1
  <2>. QED BY <2>2, <1>3, <1>7
<1>. QED BY <1>4, <1>5, <1>6, <1>7

-----------------------------------------------------------------------------
(* A lookup is at one place *)

\* What no step of a lookup is, leaves the places as they are.
LEMMA JourneyStays ==
    ASSUME Journey,
           UNCHANGED <<sending, pending, known, requests, held, inFlight, answered, results>>
    PROVE  Journey'
<1>1. Queued' = Queued /\ Returned' = Returned
  BY DEF Queued, Returned, Elements
<1>2. OnTheWay' /\ Apart'
  BY <1>1 DEF Journey, OnTheWay, Apart, Distinct
<1>. QED BY <1>2 DEF Journey, AtMostOne

\* Each step of a lookup takes it from one place to the next.
LEMMA JourneyStep == TypeOK /\ Journey /\ [Next]_vars => Journey'
<1>. SUFFICES ASSUME TypeOK, Journey, [Next]_vars PROVE Journey'
  OBVIOUS
<1>1. /\ requests \in Seq(Lookups) /\ results \in Seq(Lookups)
      /\ OnTheWay /\ Apart /\ AtMostOne(sending) /\ AtMostOne(held) /\ pending \cap known = {}
      /\ Distinct(requests) /\ Distinct(results)
  BY DEF TypeOK, Journey, Apart
<1>2. CASE \/ BeginAddress \/ StepEnds \/ Session \/ Drained \/ DrainTimesOut \/ UNCHANGED vars
  <2>1. UNCHANGED <<sending, pending, known, requests, held, inFlight, answered, results>>
    BY <1>2 DEF BeginAddress, StepEnds, Session, Discover, Toggle, Forget, Finish, Drained,
                DrainTimesOut, Event, vars, driverVars, cacheVars, resolverVars
  <2>. QED BY <2>1, JourneyStays
<1>3. CASE RequestOne
  <2>. DEFINE l == Head(turn)
  <2>1. /\ l \in Lookups /\ sending = {}
        /\ UNCHANGED <<known, requests, held, inFlight, answered, results>>
        /\ \/ UNCHANGED <<pending, sending>>
           \/ l \notin known \cup pending /\ pending' = pending \cup {l} /\ sending' = {l}
    BY <1>3, Leaving DEF RequestOne, resolverVars, TypeOK
  <2>2. Queued' = Queued /\ Returned' = Returned /\ Distinct(requests)' /\ Distinct(results)'
    BY <2>1, <1>1 DEF Queued, Returned, Elements, Distinct
  <2>. HIDE DEF l
  <2>3. CASE UNCHANGED <<pending, sending>>
    BY <2>1, <2>3, JourneyStays
  <2>4. CASE l \notin known \cup pending /\ pending' = pending \cup {l} /\ sending' = {l}
    <3>1. OnTheWay' /\ Apart'
      BY <2>1, <2>2, <2>4, <1>1 DEF OnTheWay, Apart
    <3>2. AtMostOne(sending)' /\ AtMostOne(held)' /\ (pending \cap known = {})'
      BY <2>1, <2>4, <1>1 DEF AtMostOne
    <3>. QED BY <3>1, <3>2 DEF Journey
  <2>. QED BY <2>1, <2>3, <2>4
<1>4. CASE Send
  <2>1. PICK l \in Lookups : sending = {l}
    BY <1>4, <1>1 DEF Send, AtMostOne
  <2>2. /\ sending' = {} /\ requests' = Append(requests, l)
        /\ UNCHANGED <<pending, known, held, inFlight, answered, results>>
    BY <1>4, <2>1 DEF Send, cacheVars, resolverVars
  <2>3. l \notin Queued
    BY <2>1, <1>1 DEF Apart
  <2>4. Elements(Append(requests, l)) = Queued \cup {l} /\ Distinct(Append(requests, l))
    BY <2>3, <1>1, Entering, ZenonT(60) DEF Queued
  <2>5. Queued' = Queued \cup {l} /\ Distinct(requests)'
    BY <2>2, <2>4 DEF Queued, Elements, Distinct
  <2>6. Returned' = Returned /\ Distinct(results)'
    BY <2>2, <1>1 DEF Returned, Elements, Distinct
  <2>7. OnTheWay' /\ Apart'
    BY <2>1, <2>2, <2>5, <2>6, <1>1 DEF OnTheWay, Apart
  <2>8. AtMostOne(sending)' /\ AtMostOne(held)' /\ (pending \cap known = {})'
    BY <2>2, <1>1 DEF AtMostOne
  <2>. QED BY <2>7, <2>8 DEF Journey
<1>5. CASE Take
  <2>. DEFINE l == Head(requests)
  <2>1. /\ requests # <<>> /\ held = {} /\ held' = {l} /\ requests' = Tail(requests)
        /\ UNCHANGED <<sending, pending, known, inFlight, answered, results>>
    BY <1>5 DEF Take, cacheVars
  <2>2. /\ l \in Lookups /\ Queued = Elements(Tail(requests)) \cup {l}
        /\ l \notin Elements(Tail(requests)) /\ Distinct(Tail(requests))
    BY <2>1, <1>1, Leaving, ZenonT(60) DEF Queued
  <2>3. Queued' = Elements(Tail(requests)) /\ Distinct(requests)'
    BY <2>1, <2>2 DEF Queued, Elements, Distinct
  <2>4. Returned' = Returned /\ Distinct(results)'
    BY <2>1, <1>1 DEF Returned, Elements, Distinct
  <2>. HIDE DEF l
  <2>5. OnTheWay' /\ Apart'
    BY <2>1, <2>2, <2>3, <2>4, <1>1 DEF OnTheWay, Apart
  <2>6. AtMostOne(sending)' /\ AtMostOne(held)' /\ (pending \cap known = {})'
    BY <2>1, <2>2, <1>1 DEF AtMostOne
  <2>. QED BY <2>5, <2>6 DEF Journey
<1>6. CASE Acquire
  <2>1. /\ inFlight' = inFlight \cup held /\ held' = {}
        /\ UNCHANGED <<sending, pending, known, requests, answered, results>>
    BY <1>6 DEF Acquire, cacheVars
  <2>2. Queued' = Queued /\ Returned' = Returned /\ Distinct(requests)' /\ Distinct(results)'
    BY <2>1, <1>1 DEF Queued, Returned, Elements, Distinct
  <2>3. OnTheWay' /\ Apart'
    BY <2>1, <2>2, <1>1 DEF OnTheWay, Apart
  <2>4. AtMostOne(sending)' /\ AtMostOne(held)' /\ (pending \cap known = {})'
    BY <2>1, <1>1 DEF AtMostOne
  <2>. QED BY <2>3, <2>4 DEF Journey
<1>7. ASSUME NEW l \in Lookups, Answered(l) PROVE Journey'
  <2>1. /\ l \in inFlight /\ inFlight' = inFlight \ {l} /\ answered' = answered \cup {l}
        /\ UNCHANGED <<sending, pending, known, requests, held, results>>
    BY <1>7 DEF Answered, cacheVars
  <2>2. Queued' = Queued /\ Returned' = Returned /\ Distinct(requests)' /\ Distinct(results)'
    BY <2>1, <1>1 DEF Queued, Returned, Elements, Distinct
  <2>3. OnTheWay' /\ Apart'
    BY <2>1, <2>2, <1>1 DEF OnTheWay, Apart
  <2>4. AtMostOne(sending)' /\ AtMostOne(held)' /\ (pending \cap known = {})'
    BY <2>1, <1>1 DEF AtMostOne
  <2>. QED BY <2>3, <2>4 DEF Journey
<1>8. ASSUME NEW l \in Lookups, Deliver(l) PROVE Journey'
  <2>1. /\ l \in answered /\ answered' = answered \ {l} /\ results' = Append(results, l)
        /\ UNCHANGED <<sending, pending, known, requests, held, inFlight>>
    BY <1>8 DEF Deliver, cacheVars
  <2>2. l \notin Returned
    BY <2>1, <1>1 DEF Apart
  <2>3. Elements(Append(results, l)) = Returned \cup {l} /\ Distinct(Append(results, l))
    BY <2>2, <1>1, Entering, ZenonT(60) DEF Returned
  <2>4. Returned' = Returned \cup {l} /\ Distinct(results)'
    BY <2>1, <2>3 DEF Returned, Elements, Distinct
  <2>5. Queued' = Queued /\ Distinct(requests)'
    BY <2>1, <1>1 DEF Queued, Elements, Distinct
  <2>6. OnTheWay' /\ Apart'
    BY <2>1, <2>4, <2>5, <1>1 DEF OnTheWay, Apart
  <2>7. AtMostOne(sending)' /\ AtMostOne(held)' /\ (pending \cap known = {})'
    BY <2>1, <1>1 DEF AtMostOne
  <2>. QED BY <2>6, <2>7 DEF Journey
<1>9. CASE Apply
  <2>. DEFINE l == Head(results)
  <2>1. /\ results # <<>> /\ results' = Tail(results)
        /\ pending' = pending \ {l} /\ known' = known \cup {l}
        /\ UNCHANGED <<sending, requests, held, inFlight, answered>>
    BY <1>9 DEF Apply, resolverVars
  <2>2. /\ l \in Lookups /\ Returned = Elements(Tail(results)) \cup {l}
        /\ l \notin Elements(Tail(results)) /\ Distinct(Tail(results))
    BY <2>1, <1>1, Leaving, ZenonT(60) DEF Returned
  <2>3. Returned' = Elements(Tail(results)) /\ Distinct(results)'
    BY <2>1, <2>2 DEF Returned, Elements, Distinct
  <2>4. Queued' = Queued /\ Distinct(requests)'
    BY <2>1, <1>1 DEF Queued, Elements, Distinct
  <2>. HIDE DEF l
  <2>5. OnTheWay' /\ Apart'
    BY <2>1, <2>2, <2>3, <2>4, <1>1 DEF OnTheWay, Apart
  <2>6. AtMostOne(sending)' /\ AtMostOne(held)' /\ (pending \cap known = {})'
    BY <2>1, <1>1 DEF AtMostOne
  <2>. QED BY <2>5, <2>6 DEF Journey
<1>. QED BY <1>2, <1>3, <1>4, <1>5, <1>6, <1>7, <1>8, <1>9
         DEF Next, DriverStep, ResolverStep, TaskStep

-----------------------------------------------------------------------------
(* Types and capacities *)

\* Every step keeps the types and the capacities.
LEMMA TypeStep == TypeOK /\ Journey /\ [Next]_vars => TypeOK'
<1>. SUFFICES ASSUME TypeOK, Journey, [Next]_vars PROVE TypeOK'
  OBVIOUS
<1>. DEFINE
      ControlOK == /\ driver \in {"wake", "request", "drain", "done", "quit"}
                   /\ want \subseteq Kinds /\ discovered \subseteq Addrs
                   /\ events \in 0..MaxEvents
                   /\ resolver \in BOOLEAN /\ failedOnce \in BOOLEAN /\ expired \in BOOLEAN
                   /\ asking \in Seq(Addrs) /\ turn \in Seq(Lookups)
      PlacesOK  == /\ pending \subseteq Lookups /\ known \subseteq Lookups
                   /\ requests \in Seq(Lookups) /\ Len(requests) <= RequestCap
                   /\ results \in Seq(Lookups) /\ Len(results) <= ResultCap
                   /\ sending \subseteq Lookups /\ Cardinality(sending) <= 1
                   /\ held \subseteq Lookups /\ Cardinality(held) <= 1
                   /\ inFlight \subseteq Lookups /\ Cardinality(inFlight) <= MaxInFlight
                   /\ answered \subseteq Lookups
<1>1. ControlOK /\ PlacesOK /\ Journey
  BY DEF TypeOK
<1>2. RequestCap \in Nat /\ ResultCap \in Nat /\ MaxInFlight \in Nat /\ MaxEvents \in Nat
  BY LookupsAssumption
<1>3. Cardinality({}) = 0 /\ \A l : Cardinality({l}) = 1
  BY FS_EmptySet, FS_Singleton
<1>. HIDE DEF ControlOK, PlacesOK
<1>. SUFFICES ControlOK' /\ PlacesOK'
  BY DEF ControlOK, PlacesOK, TypeOK
<1>4. CASE UNCHANGED vars
  BY <1>1, <1>4 DEF ControlOK, PlacesOK, vars, driverVars, cacheVars, resolverVars
<1>5. CASE \/ \E ip \in Addrs : Discover(ip)
           \/ \E kind \in Kinds : Toggle(kind)
           \/ Forget
  <2>1. PlacesOK'
    BY <1>1, <1>5 DEF PlacesOK, Discover, Toggle, Forget, cacheVars, resolverVars
  <2>2. events < MaxEvents /\ events' = events + 1 /\ driver' \in {"wake", "request"}
    BY <1>5, Zenon DEF Discover, Toggle, Forget, Event
  <2>3. events' \in 0..MaxEvents
    BY <2>2, <1>1, <1>2 DEF ControlOK
  <2>4. asking' \in Seq(Addrs) /\ discovered' \subseteq Addrs /\ want' \subseteq Kinds
    <3>1. ASSUME NEW ip \in Addrs, Discover(ip)
          PROVE  asking' \in Seq(Addrs) /\ discovered' \subseteq Addrs /\ want' \subseteq Kinds
      BY <3>1, <1>1 DEF Discover, ControlOK
    <3>2. ASSUME NEW kind \in Kinds, Toggle(kind)
          PROVE  asking' \in Seq(Addrs) /\ discovered' \subseteq Addrs /\ want' \subseteq Kinds
      <4>1. want' \subseteq Kinds /\ discovered' \subseteq Addrs
        BY <3>2, <1>1 DEF Toggle, ControlOK
      <4>2. asking' = <<>> \/ asking' \in Orders(discovered)
        BY <3>2 DEF Toggle
      <4>3. <<>> \in Seq(Addrs) /\ discovered \in SUBSET Addrs
        BY <1>1 DEF ControlOK
      <4>4. asking' \in Seq(Addrs)
        BY <4>2, <4>3, Orderings, Zenon
      <4>. QED BY <4>1, <4>4
    <3>3. CASE Forget
      BY <3>3, <1>1 DEF Forget, ControlOK
    <3>. QED BY <1>5, <3>1, <3>2, <3>3
  <2>5. UNCHANGED <<resolver, failedOnce, expired, turn>>
    BY <1>5 DEF Discover, Toggle, Forget
  <2>. QED BY <1>1, <2>1, <2>2, <2>3, <2>4, <2>5 DEF ControlOK
<1>6. CASE BeginAddress
  <2>1. PlacesOK'
    BY <1>1, <1>6 DEF PlacesOK, BeginAddress, cacheVars, resolverVars
  <2>2. Tail(asking) \in Seq(Addrs) /\ Head(asking) \in Addrs
    BY <1>1, <1>6, Leaving DEF ControlOK, BeginAddress
  <2>3. WantedFor(Head(asking)) \in Seq(Lookups)
    BY <2>2, <1>1, Wanted DEF ControlOK
  <2>. QED BY <1>1, <1>6, <2>1, <2>2, <2>3 DEF ControlOK, BeginAddress
<1>7. CASE RequestOne
  <2>1. Tail(turn) \in Seq(Lookups) /\ Head(turn) \in Lookups
    BY <1>1, <1>7, Leaving DEF ControlOK, RequestOne
  <2>2. ControlOK'
    BY <1>1, <1>7, <2>1 DEF ControlOK, RequestOne
  <2>3. /\ UNCHANGED <<known, requests, held, inFlight, answered, results>>
        /\ \/ UNCHANGED <<pending, sending>>
           \/ pending' = pending \cup {Head(turn)} /\ sending' = {Head(turn)}
    BY <1>7 DEF RequestOne, resolverVars
  <2>4. Cardinality({Head(turn)}) = 1
    BY <1>3
  <2>5. pending' \subseteq Lookups /\ sending' \subseteq Lookups /\ Cardinality(sending') <= 1
    <3>1. CASE UNCHANGED <<pending, sending>>
      BY <1>1, <3>1 DEF PlacesOK
    <3>2. CASE pending' = pending \cup {Head(turn)} /\ sending' = {Head(turn)}
      <4>1. Cardinality(sending') = 1
        BY <2>4, <3>2
      <4>. QED BY <1>1, <2>1, <3>2, <4>1 DEF PlacesOK
    <3>. QED BY <2>3, <3>1, <3>2
  <2>. QED BY <1>1, <2>2, <2>3, <2>5 DEF PlacesOK
<1>8. CASE Send
  <2>1. PICK l \in Lookups : sending = {l}
    BY <1>1, <1>8 DEF Send, Journey, AtMostOne
  <2>2. /\ sending' = {} /\ requests' = Append(requests, l) /\ Len(requests) < RequestCap
        /\ UNCHANGED <<pending, known, held, inFlight, answered, results>>
        /\ UNCHANGED driverVars /\ UNCHANGED <<failedOnce, expired>>
    BY <1>8, <2>1 DEF Send, cacheVars, resolverVars
  <2>3. requests \in Seq(Lookups)
    BY <1>1 DEF PlacesOK
  <2>4. /\ Append(requests, l) \in Seq(Lookups) /\ Len(requests) \in Nat
        /\ Len(Append(requests, l)) = Len(requests) + 1
    BY <2>3, Entering, Positions
  <2>5. Len(Append(requests, l)) <= RequestCap
    BY <1>2, <2>2, <2>4
  <2>6. ControlOK'
    BY <1>1, <2>2 DEF ControlOK, driverVars
  <2>. QED BY <1>1, <1>3, <2>2, <2>4, <2>5, <2>6 DEF PlacesOK
<1>9. CASE StepEnds \/ Finish \/ Drained \/ DrainTimesOut
  <2>1. PlacesOK'
    BY <1>1, <1>9 DEF PlacesOK, StepEnds, Finish, Drained, DrainTimesOut, cacheVars,
                      resolverVars
  <2>. QED BY <1>1, <1>9, <2>1 DEF ControlOK, StepEnds, Finish, Drained, DrainTimesOut
<1>10. CASE Take
  <2>1. requests # <<>> /\ requests \in Seq(Lookups) /\ Len(requests) <= RequestCap
    BY <1>1, <1>10 DEF Take, PlacesOK
  <2>2. /\ Tail(requests) \in Seq(Lookups) /\ Head(requests) \in Lookups
        /\ Len(requests) \in Nat /\ Len(Tail(requests)) = Len(requests) - 1
    BY <2>1, Leaving
  <2>3. Len(Tail(requests)) <= RequestCap
    BY <2>1, <2>2, <1>2
  <2>4. ControlOK'
    BY <1>1, <1>10 DEF ControlOK, Take, driverVars
  <2>5. Cardinality({Head(requests)}) = 1
    BY <1>3
  <2>. QED BY <1>1, <1>10, <2>2, <2>3, <2>4, <2>5 DEF PlacesOK, Take, cacheVars
<1>11. CASE Acquire
  <2>1. PICK l \in Lookups : held = {l}
    BY <1>1, <1>11 DEF Acquire, Journey, AtMostOne
  <2>2. inFlight \subseteq Lookups /\ Cardinality(inFlight) < MaxInFlight
    BY <1>1, <1>11 DEF Acquire, PlacesOK
  <2>3. Cardinality(inFlight \cup {l}) <= MaxInFlight
    <3>1. IsFiniteSet(inFlight) /\ Cardinality(inFlight) \in Nat
      BY <2>2, Sizes
    <3>2. Cardinality(inFlight \cup {l}) = Cardinality(inFlight)
             \/ Cardinality(inFlight \cup {l}) = Cardinality(inFlight) + 1
      BY <3>1, FS_AddElement
    <3>. QED BY <3>1, <3>2, <2>2, <1>2
  <2>4. ControlOK'
    BY <1>1, <1>11 DEF ControlOK, Acquire, driverVars
  <2>. QED BY <1>1, <1>3, <1>11, <2>1, <2>2, <2>3, <2>4 DEF PlacesOK, Acquire, cacheVars
<1>12. ASSUME NEW l \in Lookups, Answered(l) PROVE ControlOK' /\ PlacesOK'
  <2>1. inFlight \subseteq Lookups /\ Cardinality(inFlight) <= MaxInFlight
    BY <1>1 DEF PlacesOK
  <2>2. Cardinality(inFlight \ {l}) <= MaxInFlight
    <3>1. Cardinality(inFlight) \in Nat /\ Cardinality(inFlight \ {l}) \in Nat
      BY <2>1, Sizes
    <3>2. Cardinality(inFlight \ {l}) <= Cardinality(inFlight)
      BY <2>1, Sizes, FS_Subset
    <3>. QED BY <3>1, <3>2, <2>1, <1>2
  <2>3. ControlOK'
    BY <1>1, <1>12 DEF ControlOK, Answered, driverVars
  <2>. QED BY <1>1, <1>12, <2>1, <2>2, <2>3 DEF PlacesOK, Answered, cacheVars
<1>13. ASSUME NEW l \in Lookups, Deliver(l) PROVE ControlOK' /\ PlacesOK'
  <2>1. results \in Seq(Lookups) /\ Len(results) < ResultCap
    BY <1>1, <1>13 DEF Deliver, PlacesOK
  <2>2. /\ Append(results, l) \in Seq(Lookups) /\ Len(results) \in Nat
        /\ Len(Append(results, l)) = Len(results) + 1
    BY <2>1, Entering, Positions
  <2>3. Len(Append(results, l)) <= ResultCap
    BY <1>2, <2>1, <2>2
  <2>4. ControlOK'
    BY <1>1, <1>13 DEF ControlOK, Deliver, driverVars
  <2>. QED BY <1>1, <1>13, <2>2, <2>3, <2>4 DEF PlacesOK, Deliver, cacheVars
<1>14. CASE Apply
  <2>1. results # <<>> /\ results \in Seq(Lookups) /\ Len(results) <= ResultCap
    BY <1>1, <1>14 DEF Apply, PlacesOK
  <2>2. /\ Tail(results) \in Seq(Lookups) /\ Head(results) \in Lookups
        /\ Len(results) \in Nat /\ Len(Tail(results)) = Len(results) - 1
    BY <2>1, Leaving
  <2>3. Len(Tail(results)) <= ResultCap
    BY <2>1, <2>2, <1>2
  <2>4. ControlOK'
    BY <1>1, <1>14 DEF ControlOK, Apply, driverVars
  <2>. QED BY <1>1, <1>14, <2>2, <2>3, <2>4 DEF PlacesOK, Apply, resolverVars
<1>. QED BY <1>4, <1>5, <1>6, <1>7, <1>8, <1>9, <1>10, <1>11, <1>12, <1>13, <1>14
         DEF Next, DriverStep, ResolverStep, TaskStep, Session

-----------------------------------------------------------------------------
(* What is wanted is asked for *)

\* Lookups are marked within a step and end before a report does.
LEMMA ControlStep == TypeOK /\ Journey /\ Control /\ [Next]_vars => Control'
<1>. SUFFICES ASSUME TypeOK, Journey, Control, [Next]_vars PROVE Control'
  OBVIOUS
<1>1. CASE UNCHANGED vars
  BY <1>1 DEF Control, vars, driverVars, cacheVars
<1>2. ASSUME \/ \E ip \in Addrs : Discover(ip)
             \/ \E kind \in Kinds : Toggle(kind)
             \/ Forget
      PROVE  Control'
  <2>1. /\ driver = "wake" /\ driver' \in {"wake", "request"}
        /\ UNCHANGED <<turn, sending, pending, resolver, expired>>
        /\ driver' = "request" \/ UNCHANGED asking
    BY <1>2, Zenon DEF Discover, Toggle, Forget, Event, cacheVars
  <2>. QED BY <2>1 DEF Control
<1>3. CASE BeginAddress
  BY <1>3 DEF Control, BeginAddress, cacheVars
<1>4. CASE RequestOne
  BY <1>4 DEF Control, RequestOne
<1>5. CASE Send
  BY <1>5 DEF Control, Send, driverVars, cacheVars
<1>6. CASE StepEnds \/ Finish \/ Drained \/ DrainTimesOut
  BY <1>6 DEF Control, StepEnds, Finish, Drained, DrainTimesOut, cacheVars
<1>7. CASE ResolverStep \/ \E l \in Lookups : TaskStep(l)
  <2>1. UNCHANGED <<driverVars, sending, cacheVars, expired>>
    BY <1>7 DEF ResolverStep, Take, Acquire, TaskStep, Answered, Deliver
  <2>. QED BY <2>1 DEF Control, driverVars, cacheVars
<1>8. CASE Apply
  BY <1>8 DEF Control, Apply, driverVars
<1>. QED BY <1>1, <1>2, <1>3, <1>4, <1>5, <1>6, <1>7, <1>8 DEF Next, DriverStep, Session

\* Nothing that is wanted is passed over.
LEMMA AskedStep == IInv /\ [Next]_vars => Asked'
<1>. SUFFICES ASSUME IInv, [Next]_vars, ~failedOnce',
                     NEW ip \in discovered', NEW kind \in want'
              PROVE  \/ [kind |-> kind, addr |-> ip] \in pending' \cup known'
                     \/ [kind |-> kind, addr |-> ip] \in Elements(turn')
                     \/ ip \in Elements(asking')
  BY DEF Asked, Elements
<1>. DEFINE l == [kind |-> kind, addr |-> ip]
            Due == \/ l \in pending' \cup known'
                   \/ l \in Elements(turn') \/ ip \in Elements(asking')
<1>. SUFFICES Due
  OBVIOUS
<1>1. TypeOK /\ Control /\ Asked
  BY DEF IInv
<1>2. ~failedOnce
  BY DEF Next, DriverStep, ResolverStep, TaskStep, Session, Discover, Toggle, Forget, Finish,
         BeginAddress, RequestOne, Send, StepEnds, Take, Acquire, Answered, Deliver, Apply,
         Drained, DrainTimesOut, vars
<1>3. ip \in discovered /\ kind \in want =>
         \/ l \in pending \cup known \/ l \in Elements(turn) \/ ip \in Elements(asking)
  BY <1>1, <1>2 DEF Asked
<1>4. ASSUME UNCHANGED <<want, discovered, asking, turn>>,
             pending \cup known \subseteq pending' \cup known'
      PROVE  Due
  BY <1>3, <1>4
<1>5. ASSUME NEW a \in Addrs, Discover(a) PROVE Due
  <2>1. /\ discovered' = discovered \cup {a} /\ asking' = <<a>>
        /\ UNCHANGED <<want, turn, pending, known>> /\ asking = <<>>
    BY <1>5, <1>1 DEF Discover, Event, Control, cacheVars
  <2>2. Elements(asking') = {a}
    BY <2>1 DEF Elements
  <2>3. Elements(asking) = {}
    BY <2>1, Nothing
  <2>. QED BY <1>3, <2>1, <2>2, <2>3
<1>6. ASSUME NEW k \in Kinds, Toggle(k) PROVE Due
  <2>1. UNCHANGED <<discovered, turn, pending, known>> /\ asking = <<>>
    BY <1>6, <1>1 DEF Toggle, Event, Control, cacheVars
  <2>2. Elements(asking) = {}
    BY <2>1, Nothing
  <2>3. CASE want' = want \ {k}
    BY <1>3, <2>1, <2>2, <2>3
  <2>4. CASE asking' \in Orders(discovered)
    BY <2>1, <2>4, <1>1, Orderings DEF TypeOK
  <2>. QED BY <1>6, <2>3, <2>4 DEF Toggle
<1>7. CASE Forget
  BY <1>7 DEF Forget
<1>8. CASE BeginAddress
  <2>1. /\ turn = <<>> /\ asking # <<>> /\ asking' = Tail(asking)
        /\ UNCHANGED <<want, discovered, pending, known>>
        /\ want = {} \/ turn' = WantedFor(Head(asking))
    BY <1>8, <1>2 DEF BeginAddress, cacheVars
  <2>2. Elements(turn) = {}
    BY <2>1, Nothing
  <2>3. Head(asking) \in Addrs /\ Elements(asking) = Elements(Tail(asking)) \cup {Head(asking)}
    BY <2>1, <1>1, Leaving, ZenonT(60) DEF TypeOK
  <2>4. turn' = WantedFor(Head(asking))
    BY <2>1
  <2>5. ip = Head(asking) => l \in Elements(turn')
    BY <2>1, <2>3, <2>4, <1>1, Wanted DEF TypeOK
  <2>. QED BY <1>3, <2>1, <2>2, <2>3, <2>5
<1>9. CASE RequestOne
  <2>1. /\ turn # <<>> /\ turn' = Tail(turn)
        /\ UNCHANGED <<want, discovered, asking, known>>
        /\ pending' \cup known' = pending \cup known \cup {Head(turn)}
    BY <1>9 DEF RequestOne
  <2>2. Elements(turn) = Elements(Tail(turn)) \cup {Head(turn)}
    BY <2>1, <1>1, Leaving, ZenonT(60) DEF TypeOK
  <2>. QED BY <1>3, <2>1, <2>2
<1>10. CASE Send \/ StepEnds \/ Finish \/ Drained \/ DrainTimesOut \/ UNCHANGED vars
  <2>1. UNCHANGED <<want, discovered, asking, turn, pending, known>>
    BY <1>10 DEF Send, StepEnds, Finish, Drained, DrainTimesOut, vars, driverVars, cacheVars
  <2>. QED BY <2>1, <1>4
<1>11. CASE ResolverStep \/ \E m \in Lookups : TaskStep(m)
  <2>1. UNCHANGED <<want, discovered, asking, turn, pending, known>>
    BY <1>11 DEF ResolverStep, Take, Acquire, TaskStep, Answered, Deliver, driverVars, cacheVars
  <2>. QED BY <2>1, <1>4
<1>12. CASE Apply
  <2>1. /\ UNCHANGED <<want, discovered, asking, turn>>
        /\ pending \cup known \subseteq pending' \cup known'
    BY <1>12 DEF Apply, driverVars
  <2>. QED BY <2>1, <1>4
<1>. HIDE DEF Due
<1>. QED BY <1>5, <1>6, <1>7, <1>8, <1>9, <1>10, <1>11, <1>12
         DEF Next, DriverStep, Session

-----------------------------------------------------------------------------
(* The theorems *)

\* The invariant holds initially.
LEMMA InitInv == Init => IInv
<1>. SUFFICES ASSUME Init PROVE IInv
  OBVIOUS
<1>1. TypeOK
  <2>1. Cardinality({}) = 0
    BY FS_EmptySet
  <2>2. <<>> \in Seq(Addrs) /\ <<>> \in Seq(Lookups) /\ Len(<<>>) = 0
    OBVIOUS
  <2>3. 0 \in 0..MaxEvents /\ 0 <= RequestCap /\ 0 <= ResultCap /\ 0 <= MaxInFlight
    BY LookupsAssumption
  <2>4. resolver \in BOOLEAN /\ failedOnce \in BOOLEAN /\ expired \in BOOLEAN
    BY Zenon DEF Init
  <2>5. /\ driver = "wake" /\ want \in SUBSET Kinds /\ discovered = {} /\ events = 0
        /\ asking = <<>> /\ turn = <<>> /\ sending = {} /\ pending = {} /\ known = {}
        /\ requests = <<>> /\ results = <<>> /\ held = {} /\ inFlight = {} /\ answered = {}
    BY DEF Init
  <2>6. /\ sending \subseteq Lookups /\ Cardinality(sending) <= 1
        /\ held \subseteq Lookups /\ Cardinality(held) <= 1
        /\ inFlight \subseteq Lookups /\ Cardinality(inFlight) <= MaxInFlight
    BY <2>1, <2>3, <2>5
  <2>7. /\ requests \in Seq(Lookups) /\ Len(requests) <= RequestCap
        /\ results \in Seq(Lookups) /\ Len(results) <= ResultCap
        /\ asking \in Seq(Addrs) /\ turn \in Seq(Lookups)
    BY <2>2, <2>3, <2>5
  <2>. QED BY <2>3, <2>4, <2>5, <2>6, <2>7 DEF TypeOK
<1>2. Journey
  BY Nothing DEF Init, Journey, OnTheWay, Apart, AtMostOne, Queued, Returned
<1>3. Control /\ Asked
  BY DEF Init, Control, Asked
<1>. QED BY <1>1, <1>2, <1>3 DEF IInv

\* Every step keeps the invariant.
LEMMA StepInv == IInv /\ [Next]_vars => IInv'
BY TypeStep, JourneyStep, ControlStep, AskedStep DEF IInv

\* The invariant of the lookups holds in every reachable state.
THEOREM Invariant == Spec => []IInv
BY InitInv, StepInv, PTL DEF Spec

\* The variables keep their types, channels and permits their capacities.
THEOREM TypeCorrect == Spec => []TypeOK
<1>1. IInv => TypeOK
  BY DEF IInv
<1>. QED BY <1>1, Invariant, PTL

\* For any addresses and capacities, a lookup is pending exactly while it is on its way,
\* at one place (NameCache, its channels and the resolver's tasks).
THEOREM OnItsWaySafe == Spec => []OnItsWay
<1>1. ASSUME IInv PROVE OnItsWay
  <2>1. /\ requests \in Seq(Lookups) /\ results \in Seq(Lookups)
        /\ sending \in SUBSET Lookups /\ held \in SUBSET Lookups
        /\ inFlight \in SUBSET Lookups /\ answered \in SUBSET Lookups
        /\ OnTheWay /\ Apart /\ pending \cap known = {}
    BY <1>1 DEF IInv, TypeOK, Journey
  <2>2. /\ Queued \in SUBSET Lookups /\ Cardinality(Queued) = Len(requests)
        /\ Returned \in SUBSET Lookups /\ Cardinality(Returned) = Len(results)
    BY <2>1, Counting, Positions DEF Queued, Returned, Apart
  <2>. DEFINE A == answered \cup Returned
              B == inFlight \cup A
              C == held \cup B
              D == Queued \cup C
  <2>3. A \in SUBSET Lookups /\ B \in SUBSET Lookups /\ C \in SUBSET Lookups
        /\ D \in SUBSET Lookups
    BY <2>1, <2>2
  <2>4. /\ answered \cap Returned = {} /\ inFlight \cap A = {} /\ held \cap B = {}
        /\ Queued \cap C = {} /\ sending \cap D = {}
    BY <2>1 DEF Apart
  <2>5. pending = sending \cup D
    BY <2>1 DEF OnTheWay
  <2>6. Cardinality(A) = Cardinality(answered) + Cardinality(Returned)
    BY <2>1, <2>2, <2>4, Sizes
  <2>. HIDE DEF A
  <2>7. Cardinality(B) = Cardinality(inFlight) + Cardinality(A)
    BY <2>1, <2>3, <2>4, Sizes
  <2>. HIDE DEF B
  <2>8. Cardinality(C) = Cardinality(held) + Cardinality(B)
    BY <2>1, <2>3, <2>4, Sizes
  <2>. HIDE DEF C
  <2>9. Cardinality(D) = Cardinality(Queued) + Cardinality(C)
    BY <2>2, <2>3, <2>4, Sizes
  <2>. HIDE DEF D
  <2>10. Cardinality(pending) = Cardinality(sending) + Cardinality(D)
    BY <2>1, <2>3, <2>4, <2>5, Sizes
  <2>11. /\ Cardinality(answered) \in Nat /\ Cardinality(inFlight) \in Nat
         /\ Cardinality(held) \in Nat /\ Cardinality(sending) \in Nat
         /\ Len(requests) \in Nat /\ Len(results) \in Nat
    BY <2>1, Sizes, Positions
  <2>12. Cardinality(pending) = Cardinality(sending) + Len(requests) + Cardinality(held)
            + Cardinality(inFlight) + Cardinality(answered) + Len(results)
    <3>1. Cardinality(B) = Cardinality(inFlight) + Cardinality(answered) + Len(results)
      BY <2>2, <2>6, <2>7, <2>11
    <3>2. Cardinality(D) = Len(requests) + Cardinality(held) + Cardinality(B)
      <4>1. Cardinality(B) \in Nat
        BY <2>3, Sizes
      <4>. QED BY <4>1, <2>2, <2>8, <2>9, <2>11
    <3>. QED BY <3>1, <3>2, <2>10, <2>11
  <2>. QED BY <2>1, <2>12 DEF OnItsWay, OnTheWay, Queued, Returned
<1>. QED BY <1>1, Invariant, PTL

\* In whatever order addresses appear and kinds are switched on, between steps every
\* discovered address has been asked for in every kind that is enabled.
THEOREM AllAskedSafe == Spec => []AllAsked
<1>1. IInv => AllAsked
  BY Nothing DEF IInv, Control, Asked, AllAsked
<1>. QED BY <1>1, Invariant, PTL

\* A report that did not run out of its budget has every name it asked for.
THEOREM ReportSafe == Spec => []ReportComplete
<1>1. IInv => ReportComplete
  BY Nothing DEF IInv, Control, Asked, ReportComplete
<1>. QED BY <1>1, Invariant, PTL

=============================================================================
