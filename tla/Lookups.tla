------------------------------- MODULE Lookups --------------------------------
(***************************************************************************)
(* Name and AS lookups: the driver that requests them, the cache that       *)
(* remembers them and the resolver task that carries them out, connected    *)
(* by two bounded channels.  The driver awaits room in the request channel  *)
(* inside a step, and takes no result while it waits; the resolver takes a  *)
(* request, waits for a permit, and hands the request to a task of its own, *)
(* which gives the permit back before it awaits room for its result.        *)
(***************************************************************************)
EXTENDS Naturals, Sequences, FiniteSets

CONSTANTS
    Addrs,       \* addresses of hops
    RequestCap,  \* capacity of the request channel
    ResultCap,   \* capacity of the result channel
    MaxInFlight, \* MAX_IN_FLIGHT: permits
    MaxEvents    \* BOUND: replies from new addresses, keys and resets

ASSUME LookupsAssumption ==
    /\ IsFiniteSet(Addrs)
    /\ RequestCap \in Nat \ {0} /\ ResultCap \in Nat \ {0} /\ MaxInFlight \in Nat \ {0}
    /\ MaxEvents \in Nat

Kinds   == {"ptr", "asn"}
Lookups == [kind : Kinds, addr : Addrs]

VARIABLES
    driver,      \* what the driver does: "wake", "request", "drain", "done", "quit"
    want,        \* kinds of lookups that are enabled: dns, ipinfo_fields
    discovered,  \* addresses the hops know
    resolver,    \* Driver::resolver is there
    events,      \* BOUND: events so far
    asking,      \* addresses this step still passes to request_lookups
    turn,        \* lookups request_lookups still has to look at for one address
    sending,     \* the lookup that awaits room in the request channel, if any
    pending,     \* NameCache::ptr_pending, asn_pending
    known,       \* NameCache::ptr, asn
    requests,    \* the request channel
    held,        \* the request the resolver holds while it waits for a permit, if any
    inFlight,    \* lookups of tasks with a permit
    answered,    \* lookups whose task awaits room in the result channel
    results,     \* the result channel
    failedOnce,  \* the resolver could not be built at some time
    expired      \* the budget for the last lookups ran out

driverVars   == <<driver, want, discovered, resolver, events, asking, turn>>
cacheVars    == <<pending, known>>
resolverVars == <<held, inFlight, answered>>
vars == <<driverVars, sending, cacheVars, requests, resolverVars, results, failedOnce,
          expired>>

Init ==
    /\ driver = "wake" /\ want \in SUBSET Kinds
    /\ discovered = {}
    /\ resolver = (want # {})
    /\ events = 0 /\ asking = <<>> /\ turn = <<>> /\ sending = {}
    /\ pending = {} /\ known = {}
    /\ requests = <<>> /\ results = <<>>
    /\ held = {} /\ inFlight = {} /\ answered = {}
    /\ failedOnce = FALSE /\ expired = FALSE

-----------------------------------------------------------------------------
(* The driver *)

Event == /\ driver = "wake" /\ events < MaxEvents /\ events' = events + 1

Orders(S) == {s \in [1..Cardinality(S) -> S] : \A x \in S : \E i \in DOMAIN s : s[i] = x}

\* A reply from an address that is new at its hop: Command::Resolve.
Discover(ip) ==
    /\ Event /\ driver' = "request"
    /\ discovered' = discovered \cup {ip}
    /\ asking' = <<ip>>
    /\ UNCHANGED <<want, resolver, turn, sending, cacheVars, requests, resolverVars,
                   results, failedOnce, expired>>

\* Mutant: enabling a kind of lookup asks for the known addresses only the first time.
ToggleAsksOnce(kind) ==
    /\ Event /\ driver' = "request"
    /\ IF kind \in want THEN want' = want \ {kind} /\ asking' = <<>>
                        ELSE want' = want \cup {kind} /\ asking' \in
                             (IF resolver THEN {<<>>} ELSE Orders(discovered))
    /\ UNCHANGED <<discovered, resolver, turn, sending, cacheVars, requests, resolverVars,
                   results, failedOnce, expired>>

\* ToggleDns, ToggleAsn: enabling a kind asks for every address known by now.
Toggle(kind) ==
    /\ Event /\ driver' = "request"
    /\ \/ /\ kind \in want /\ want' = want \ {kind}
          /\ asking' = <<>>
       \/ /\ kind \notin want /\ want' = want \cup {kind}
          /\ asking' \in Orders(discovered)
    /\ UNCHANGED <<discovered, resolver, turn, sending, cacheVars, requests, resolverVars,
                   results, failedOnce, expired>>

\* Engine::reset empties the hops; the cache keeps what it has.
Forget ==
    /\ Event /\ discovered' = {}
    /\ UNCHANGED <<driver, want, resolver, asking, turn, sending, cacheVars, requests,
                   resolverVars, results, failedOnce, expired>>

IfWanted(l)   == IF l.kind \in want THEN <<l>> ELSE <<>>
WantedFor(ip) == IfWanted([kind |-> "ptr", addr |-> ip]) \o IfWanted([kind |-> "asn", addr |-> ip])

\* request_lookups begins for the next address: the resolver is built when it is needed
\* for the first time, and the address passed over when that fails.
BeginAddress ==
    /\ driver = "request" /\ turn = <<>> /\ sending = {} /\ asking # <<>>
    /\ asking' = Tail(asking)
    /\ \/ want = {} /\ UNCHANGED <<resolver, turn, failedOnce>>
       \/ /\ want # {} /\ resolver' = TRUE
          /\ turn' = WantedFor(Head(asking))
          /\ UNCHANGED failedOnce
       \/ /\ want # {} /\ ~resolver /\ failedOnce' = TRUE
          /\ UNCHANGED <<resolver, turn>>
    /\ UNCHANGED <<driver, want, discovered, events, sending, cacheVars, requests, resolverVars,
                   results, expired>>

\* Mutant: only what has been resolved is not requested again.
RequestUnresolved ==
    /\ driver = "request" /\ sending = {} /\ turn # <<>>
    /\ turn' = Tail(turn)
    /\ LET l == Head(turn) IN
        \/ l \in known /\ UNCHANGED <<pending, sending>>
        \/ l \notin known /\ pending' = pending \cup {l} /\ sending' = {l}
    /\ UNCHANGED <<driver, want, discovered, resolver, events, asking, known, requests,
                   resolverVars, results, failedOnce, expired>>

\* request_ptr, request_asn: mark the lookup and await the channel, at first sight only.
RequestOne ==
    /\ driver = "request" /\ sending = {} /\ turn # <<>>
    /\ turn' = Tail(turn)
    /\ LET l == Head(turn) IN
        \/ l \in known \cup pending /\ UNCHANGED <<pending, sending>>
        \/ l \notin known \cup pending /\ pending' = pending \cup {l} /\ sending' = {l}
    /\ UNCHANGED <<driver, want, discovered, resolver, events, asking, known, requests,
                   resolverVars, results, failedOnce, expired>>

Send ==
    /\ sending # {} /\ sending' = {}
    /\ Len(requests) < RequestCap
    /\ \E l \in sending : requests' = Append(requests, l)
    /\ UNCHANGED <<driverVars, cacheVars, resolverVars, results, failedOnce, expired>>

StepEnds ==
    /\ driver = "request" /\ driver' = "wake"
    /\ asking = <<>> /\ turn = <<>> /\ sending = {}
    /\ UNCHANGED <<want, discovered, resolver, events, asking, turn, sending, cacheVars, requests,
                   resolverVars, results, failedOnce, expired>>

\* Wake::Lookup, and drain_lookups while something is pending.
Apply ==
    /\ driver = "wake" \/ (driver = "drain" /\ pending # {})
    /\ results # <<>> /\ results' = Tail(results)
    /\ pending' = pending \ {Head(results)}
    /\ known' = known \cup {Head(results)}
    /\ UNCHANGED <<driverVars, sending, requests, resolverVars, failedOnce, expired>>

\* The session is over: wait for lookups if something will print them.
Finish ==
    /\ driver = "wake"
    /\ driver' \in {"quit", IF resolver THEN "drain" ELSE "done"}
    /\ UNCHANGED <<want, discovered, resolver, events, asking, turn, sending, cacheVars, requests,
                   resolverVars, results, failedOnce, expired>>

\* Mutant: the drain stops when no result is waiting.
DrainedWhenIdle ==
    /\ driver = "drain" /\ results = <<>> /\ driver' = "done"
    /\ UNCHANGED <<want, discovered, resolver, events, asking, turn, sending, cacheVars, requests,
                   resolverVars, results, failedOnce, expired>>

Drained ==
    /\ driver = "drain" /\ pending = {} /\ driver' = "done"
    /\ UNCHANGED <<want, discovered, resolver, events, asking, turn, sending, cacheVars, requests,
                   resolverVars, results, failedOnce, expired>>

DrainTimesOut ==
    /\ driver = "drain" /\ pending # {} /\ driver' = "done"
    /\ expired' = TRUE
    /\ UNCHANGED <<want, discovered, resolver, events, asking, turn, sending, cacheVars, requests,
                   resolverVars, results, failedOnce>>

-----------------------------------------------------------------------------
(* The resolver and its tasks *)

Take ==
    /\ requests # <<>> /\ held = {}
    /\ held' = {Head(requests)} /\ requests' = Tail(requests)
    /\ UNCHANGED <<driverVars, sending, cacheVars, inFlight, answered, results, failedOnce,
                   expired>>

Acquire ==
    /\ held # {} /\ Cardinality(inFlight) < MaxInFlight
    /\ inFlight' = inFlight \cup held /\ held' = {}
    /\ UNCHANGED <<driverVars, sending, cacheVars, requests, answered, results, failedOnce,
                   expired>>

\* Mutant: the task keeps its permit until its result is in the channel.
AnsweredKeepsPermit(l) ==
    /\ l \in inFlight /\ Len(results) < ResultCap
    /\ inFlight' = inFlight \ {l} /\ results' = Append(results, l)
    /\ UNCHANGED <<driverVars, sending, cacheVars, requests, held, answered, failedOnce,
                   expired>>

\* A lookup ends, with an answer or without: the permit is dropped.
Answered(l) ==
    /\ l \in inFlight
    /\ inFlight' = inFlight \ {l} /\ answered' = answered \cup {l}
    /\ UNCHANGED <<driverVars, sending, cacheVars, requests, held, results, failedOnce,
                   expired>>

Deliver(l) ==
    /\ l \in answered /\ Len(results) < ResultCap
    /\ answered' = answered \ {l} /\ results' = Append(results, l)
    /\ UNCHANGED <<driverVars, sending, cacheVars, requests, held, inFlight, failedOnce,
                   expired>>

DriverStep   == BeginAddress \/ RequestOne \/ Send \/ StepEnds
ResolverStep == Take \/ Acquire
TaskStep(l)  == Answered(l) \/ Deliver(l)
Session ==
    \/ \E ip \in Addrs : Discover(ip)
    \/ \E kind \in Kinds : Toggle(kind)
    \/ Forget \/ Finish

Next ==
    \/ DriverStep \/ ResolverStep \/ Session
    \/ Apply \/ Drained \/ DrainTimesOut
    \/ \E l \in Lookups : TaskStep(l)

Spec == Init /\ [][Next]_vars

\* Tasks of the runtime are polled while they can go on, and the drain's timer fires.
ScheduledSpec ==
    /\ Spec
    /\ WF_vars(DriverStep) /\ WF_vars(ResolverStep)
    /\ \A l \in Lookups : WF_vars(Deliver(l))
    /\ WF_vars(Drained) /\ WF_vars(DrainTimesOut)

-----------------------------------------------------------------------------
(* Properties *)

TypeOK ==
    /\ driver \in {"wake", "request", "drain", "done", "quit"}
    /\ want \subseteq Kinds /\ discovered \subseteq Addrs
    /\ events \in 0..MaxEvents
    /\ resolver \in BOOLEAN /\ failedOnce \in BOOLEAN /\ expired \in BOOLEAN
    /\ asking \in Seq(Addrs) /\ turn \in Seq(Lookups)
    /\ pending \subseteq Lookups /\ known \subseteq Lookups
    /\ requests \in Seq(Lookups) /\ Len(requests) <= RequestCap
    /\ results \in Seq(Lookups) /\ Len(results) <= ResultCap
    /\ sending \subseteq Lookups /\ Cardinality(sending) <= 1
    /\ held \subseteq Lookups /\ Cardinality(held) <= 1
    /\ inFlight \subseteq Lookups /\ Cardinality(inFlight) <= MaxInFlight
    /\ answered \subseteq Lookups

Elements(s) == {s[i] : i \in DOMAIN s}

\* NameCache: a lookup is pending exactly while it is on its way, at one place, and is
\* not asked for again once it is known.
OnItsWay ==
    /\ pending = sending \cup Elements(requests) \cup held \cup inFlight \cup answered
                  \cup Elements(results)
    /\ Cardinality(pending) = Cardinality(sending) + Len(requests) + Cardinality(held)
                  + Cardinality(inFlight) + Cardinality(answered) + Len(results)
    /\ pending \cap known = {}

\* Between steps every discovered address has been asked for in every kind that is
\* enabled, in whatever order addresses appeared and kinds were switched on
\* (driver.rs, `toggling_dns_after_a_nameless_start_enables_lookups`).
AllAsked ==
    driver # "request" /\ ~failedOnce =>
        \A ip \in discovered, kind \in want :
            [kind |-> kind, addr |-> ip] \in pending \cup known

\* A report that did not run out of its budget has every name it asked for.
ReportComplete ==
    driver = "done" /\ ~expired /\ ~failedOnce =>
        \A ip \in discovered, kind \in want : [kind |-> kind, addr |-> ip] \in known

\* A step that waits for room in the request channel gets it although the driver takes no
\* results meanwhile: full channels and used permits never block each other for good, as
\* long as every lookup ends; it has two attempts of two seconds.
EveryLookupEnds == \A l \in Lookups : WF_vars(Answered(l))
StepProceeds == EveryLookupEnds => (driver = "request" ~> driver # "request")

=============================================================================
