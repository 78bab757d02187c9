-------------------------------- MODULE Engine --------------------------------
(***************************************************************************)
(* The probing state machine of crates/mtr-core/src/engine.rs.  One tick   *)
(* probes one hop; a sweep from the first TTL to the batch end is a cycle. *)
(* Probes carry tokens: a slot table maps a token to (hop, send number),   *)
(* and the slot's transit flag decides whether an answer still counts.     *)
(*                                                                         *)
(* The helper is the environment: it may answer any token, at any time, in *)
(* any order, more than once.  The driver calls `handle` until the engine  *)
(* is finished or the user leaves.  Clock values are replaced by timers    *)
(* that expire (SendTimer, GraceTimer, CacheTimer).                        *)
(***************************************************************************)
EXTENDS Hop

CONSTANTS
    Target,        \* the traced address
    NoRouteHost,   \* the error a reply may carry
    MaxHost,       \* MAX_HOST: hop slots
    MinSequence,   \* MIN_SEQUENCE, MAX_SEQUENCE: tokens live in [Min, Max)
    MaxSequence,
    DefaultNumhosts,
    Configs,       \* the option sets the command line accepts
    CycleBound     \* BOUND of the model: no probe is sent after this many cycles

ConfigRecords ==
    [ firstTtl     : 1..(MaxHost - 1),
      maxTtl       : 1..(MaxHost - 1),
      dueTtl       : 0..(MaxHost - 1),  \* 0 when --due-ttl is absent
      maxUnknown   : Nat \ {0},
      maxPing      : Nat,
      interactive  : BOOLEAN,           \* the TUI; false for every report mode
      forceMaxPing : BOOLEAN,           \* -c was given
      cache        : BOOLEAN ]          \* --cache was given

\* What cli.rs has already checked when an engine is made.
ValidConfig(c) ==
    /\ c.firstTtl <= c.maxTtl
    /\ c.dueTtl # 0 => c.firstTtl <= c.dueTtl
    /\ c.dueTtl <= c.maxTtl

ASSUME EngineAssumption ==
    /\ Target \in Addrs
    /\ NoRouteHost \in Errors
    /\ MaxHost \in Nat /\ MaxHost > 1
    /\ MinSequence \in Nat
    /\ MaxSequence \in Nat
    /\ MinSequence < MaxSequence
    /\ DefaultNumhosts \in Nat \ {0}
    /\ CycleBound \in Nat
    /\ Configs \subseteq ConfigRecords
    /\ \A c \in Configs : ValidConfig(c)

VARIABLES
    cfg,        \* the running configuration; the TUI edits it
    hops,       \* one hop record per TTL - 1
    seqs,       \* the slot of each token
    nextSeq,    \* next_sequence: the next token
    batchAt,    \* hop index of the next probe
    numhosts,   \* pacing divisor: probes in the last cycle
    numPing,    \* completed cycles
    sendDue,    \* next_send has passed (or was never set)
    grace,      \* "none", "running", "over": the wait after the last cycle
    paused,
    status      \* "running", "finished" (by itself), "interrupted" (by the user)

vars == <<cfg, hops, seqs, nextSeq, batchAt, numhosts, numPing, sendDue,
          grace, paused, status>>

HopIndex == 0..(MaxHost - 1)
Tokens   == 0..(MaxSequence - 1)
Slots    == [hop : HopIndex, transit : BOOLEAN, saved : Nat]
NewSlot  == [hop |-> 0, transit |-> FALSE, saved |-> 0]

MinHop(c) == IF c.firstTtl < 1 THEN 0 ELSE c.firstTtl - 1

Init ==
    /\ cfg \in Configs
    /\ hops = [h \in HopIndex |-> NewHop]
    /\ seqs = [t \in Tokens |-> NewSlot]
    /\ nextSeq = MinSequence
    /\ batchAt = MinHop(cfg)
    /\ numhosts = DefaultNumhosts
    /\ numPing = 0
    /\ sendDue = TRUE
    /\ grace = "none"
    /\ paused = FALSE
    /\ status = "running"

-----------------------------------------------------------------------------
(* Tick: grace, pacing, and one probe of the current cycle *)

Ticking == status = "running" /\ ~paused

\* Mutant: the number of cycles is only a limit when -c was given.
CyclesDoneIfForced == numPing >= cfg.maxPing /\ cfg.forceMaxPing

CyclesDone == /\ numPing >= cfg.maxPing
              /\ ~cfg.interactive \/ cfg.forceMaxPing

\* --cache: a hop that is up and answered recently is not probed again.
CacheSkip(at) == cfg.cache /\ hops[at].up /\ hops[at].seen = "recent"

NextToken(t) == IF t + 1 >= MaxSequence THEN MinSequence ELSE t + 1

\* Mutant: the slot is filled with the send counter before it is incremented.
SendQueryStaleCount(at) ==
    /\ hops' = [hops EXCEPT ![at] = RecordSend(@)]
    /\ seqs' = [seqs EXCEPT ![nextSeq] =
                   [hop |-> at, transit |-> TRUE, saved |-> hops[at].xmit]]
    /\ nextSeq' = NextToken(nextSeq)

SendQuery(at) ==
    /\ hops' = [hops EXCEPT ![at] = RecordSend(@)]
    /\ seqs' = [seqs EXCEPT ![nextSeq] =
                   [hop |-> at, transit |-> TRUE, saved |-> hops[at].xmit + 1]]
    /\ nextSeq' = NextToken(nextSeq)

IsTarget(i) == hops[i].addr = Target

\* The scan of the hops before this one: it stops at the first that shows the
\* target where --due-ttl allows it, and counts the unknown hops up to there.
EarlierTargets(at) == {i \in MinHop(cfg)..(at - 1) : IsTarget(i) /\ cfg.dueTtl <= i + 1}
Unknowns(at) == {i \in MinHop(cfg)..(at - 1) :
                    /\ hops[i].addr = None
                    /\ \A j \in EarlierTargets(at) : i < j}

CycleEndsHere(at) ==
    \/ /\ Cardinality(Unknowns(at)) > cfg.maxUnknown \/ IsTarget(at)
       /\ cfg.dueTtl <= at + 1
    \/ at + 1 >= cfg.maxTtl

CycleEnds(at) == CycleEndsHere(at) \/ EarlierTargets(at) # {}

\* The hop that bounds the cycle just ended, for the pacing divisor.
LastOfCycle(at, i) ==
    IF CycleEndsHere(at) THEN i = at
    ELSE i \in EarlierTargets(at) /\ \A j \in EarlierTargets(at) : i <= j

\* Mutant: a new cycle starts at TTL 1, not at the first TTL.
AdvanceBatchToTtlOne(at) ==
    \/ /\ CycleEnds(at)
       /\ \E i \in HopIndex : LastOfCycle(at, i) /\ numhosts' = i - MinHop(cfg) + 1
       /\ batchAt' = 0
       /\ numPing' = numPing + 1
    \/ /\ ~CycleEnds(at)
       /\ batchAt' = at + 1
       /\ UNCHANGED <<numhosts, numPing>>

AdvanceBatch(at) ==
    \/ /\ CycleEnds(at)
       /\ \E i \in HopIndex : LastOfCycle(at, i) /\ numhosts' = i - MinHop(cfg) + 1
       /\ batchAt' = MinHop(cfg)
       /\ numPing' = numPing + 1
    \/ /\ ~CycleEnds(at)
       /\ batchAt' = at + 1
       /\ UNCHANGED <<numhosts, numPing>>

SendBatch ==
    /\ Ticking /\ grace = "none" /\ sendDue /\ ~CyclesDone
    /\ numPing < CycleBound
    /\ IF CacheSkip(batchAt) THEN UNCHANGED <<hops, seqs, nextSeq>>
       ELSE SendQuery(batchAt)
    /\ AdvanceBatch(batchAt)
    /\ sendDue' = FALSE
    /\ UNCHANGED <<cfg, grace, paused, status>>

StartGrace ==
    /\ Ticking /\ grace = "none" /\ sendDue /\ CyclesDone
    /\ grace' = "running"
    /\ UNCHANGED <<cfg, hops, seqs, nextSeq, batchAt, numhosts, numPing, sendDue,
                   paused, status>>

Finish ==
    /\ Ticking /\ grace = "over"
    /\ status' = "finished"
    /\ hops' = [h \in HopIndex |-> EndTransit(hops[h])]
    /\ UNCHANGED <<cfg, seqs, nextSeq, batchAt, numhosts, numPing, sendDue, grace,
                   paused>>

Tick == SendBatch \/ StartGrace \/ Finish

-----------------------------------------------------------------------------
(* Helper responses.  A paused engine drops them and leaves the slot live. *)

Live(t) == t \in Tokens /\ seqs[t].transit

MayShow(from, at) == cfg.dueTtl > 0 /\ from = Target => cfg.dueTtl <= at + 1

\* Mutant: the slot stays live after an answer (no mark_sequence_complete).
ReplyFromKeepsSlot(t, from, err) ==
    LET s == seqs[t] IN
    /\ Ticking /\ Live(t)
    /\ hops' = [hops EXCEPT ![s.hop] =
                   RecordReply(@, s.saved, from, err, MayShow(from, s.hop), cfg.cache)]
    /\ UNCHANGED <<cfg, seqs, nextSeq, batchAt, numhosts, numPing, sendDue, grace,
                   paused, status>>

ReplyFrom(t, from, err) ==
    LET s == seqs[t] IN
    /\ Ticking /\ Live(t)
    /\ seqs' = [seqs EXCEPT ![t].transit = FALSE]
    /\ hops' = [hops EXCEPT ![s.hop] =
                   RecordReply(@, s.saved, from, err, MayShow(from, s.hop), cfg.cache)]
    /\ UNCHANGED <<cfg, nextSeq, batchAt, numhosts, numPing, sendDue, grace, paused,
                   status>>

\* Mutant: a no-reply is recorded without looking at the slot's transit flag.
TimedOutUnchecked(t) ==
    LET s == seqs[t] IN
    /\ Ticking /\ t \in Tokens
    /\ hops' = [hops EXCEPT ![s.hop] = RecordNoReply(@, s.saved)]
    /\ UNCHANGED <<cfg, seqs, nextSeq, batchAt, numhosts, numPing, sendDue, grace,
                   paused, status>>

\* no-reply: the slot deliberately stays live, a late answer still counts.
TimedOut(t) ==
    LET s == seqs[t] IN
    /\ Ticking /\ Live(t)
    /\ hops' = [hops EXCEPT ![s.hop] = RecordNoReply(@, s.saved)]
    /\ UNCHANGED <<cfg, seqs, nextSeq, batchAt, numhosts, numPing, sendDue, grace,
                   paused, status>>

\* record_probe_failure: network-down, host-down, no-route without an address.
SendFailed(t, err) ==
    LET s == seqs[t] IN
    /\ Ticking /\ Live(t)
    /\ seqs' = [seqs EXCEPT ![t].transit = FALSE]
    /\ hops' = [hops EXCEPT ![s.hop] = RecordSendError(@, s.saved, err)]
    /\ UNCHANGED <<cfg, nextSeq, batchAt, numhosts, numPing, sendDue, grace, paused,
                   status>>

Response ==
    \E t \in -1..MaxSequence :
        \/ \E from \in Addrs, err \in {None, NoRouteHost} : ReplyFrom(t, from, err)
        \/ TimedOut(t)
        \/ \E err \in Errors : SendFailed(t, err)

-----------------------------------------------------------------------------
(* User actions (the TUI only) and the end of the session by the user *)

UserActs == status = "running" /\ cfg.interactive

Pause == /\ UserActs /\ paused' = TRUE
         /\ UNCHANGED <<cfg, hops, seqs, nextSeq, batchAt, numhosts, numPing,
                        sendDue, grace, status>>

Resume == /\ UserActs /\ paused' = FALSE
          /\ UNCHANGED <<cfg, hops, seqs, nextSeq, batchAt, numhosts, numPing,
                         sendDue, grace, status>>

\* Mutant: a reset leaves the tokens of the old probes live.
ResetKeepsTokens ==
    /\ UserActs
    /\ hops' = [h \in HopIndex |-> NewHop]
    /\ batchAt' = MinHop(cfg)
    /\ numhosts' = DefaultNumhosts
    /\ UNCHANGED <<cfg, seqs, nextSeq, numPing, sendDue, grace, paused, status>>

\* Mutant: a reset also starts the cycles over.
ResetRestartsCycles ==
    /\ UserActs
    /\ hops' = [h \in HopIndex |-> NewHop]
    /\ seqs' = [t \in Tokens |-> [seqs[t] EXCEPT !.transit = FALSE]]
    /\ batchAt' = MinHop(cfg)
    /\ numhosts' = DefaultNumhosts
    /\ numPing' = 0
    /\ UNCHANGED <<cfg, nextSeq, sendDue, grace, paused, status>>

\* Reset, and CycleProtocol after it has changed the protocol.
Reset ==
    /\ UserActs
    /\ hops' = [h \in HopIndex |-> NewHop]
    /\ seqs' = [t \in Tokens |-> [seqs[t] EXCEPT !.transit = FALSE]]
    /\ batchAt' = MinHop(cfg)
    /\ numhosts' = DefaultNumhosts
    /\ UNCHANGED <<cfg, nextSeq, numPing, sendDue, grace, paused, status>>

AtLeast(m, n) == IF n < m THEN m ELSE n
AtMost(m, n)  == IF n > m THEN m ELSE n

\* Mutant: the cursor is not moved along with the first TTL.
SetFirstTtlLeavesCursor(t) ==
    /\ UserActs
    /\ cfg' = [cfg EXCEPT !.firstTtl = AtMost(AtLeast(1, cfg.maxTtl), AtLeast(1, t))]
    /\ UNCHANGED <<hops, seqs, nextSeq, batchAt, numhosts, numPing, sendDue, grace,
                   paused, status>>

\* t is a u8; the prompt narrows it further, the engine clamps it again.
SetFirstTtl(t) ==
    /\ UserActs
    /\ cfg' = [cfg EXCEPT !.firstTtl = AtMost(AtLeast(1, cfg.maxTtl), AtLeast(1, t))]
    /\ batchAt' = AtLeast(MinHop(cfg'), batchAt)
    /\ UNCHANGED <<hops, seqs, nextSeq, numhosts, numPing, sendDue, grace, paused,
                   status>>

SetMaxTtl(t) ==
    /\ UserActs
    /\ cfg' = [cfg EXCEPT !.maxTtl = AtLeast(AtLeast(1, cfg.firstTtl), t)]
    /\ UNCHANGED <<hops, seqs, nextSeq, batchAt, numhosts, numPing, sendDue, grace,
                   paused, status>>

UserAction ==
    \/ Pause \/ Resume \/ Reset
    \/ \E t \in 0..(MaxHost - 1) : SetFirstTtl(t) \/ SetMaxTtl(t)

\* Ctrl-C or `q`: lib.rs ends the transit of what it will print.
Interrupt ==
    /\ status = "running"
    /\ status' = "interrupted"
    /\ hops' = [h \in HopIndex |-> EndTransit(hops[h])]
    /\ UNCHANGED <<cfg, seqs, nextSeq, batchAt, numhosts, numPing, sendDue, grace,
                   paused>>

-----------------------------------------------------------------------------
(* Time *)

SendTimer ==
    /\ status = "running" /\ ~sendDue /\ sendDue' = TRUE
    /\ UNCHANGED <<cfg, hops, seqs, nextSeq, batchAt, numhosts, numPing, grace,
                   paused, status>>

GraceTimer ==
    /\ status = "running" /\ grace = "running" /\ grace' = "over"
    /\ UNCHANGED <<cfg, hops, seqs, nextSeq, batchAt, numhosts, numPing, sendDue,
                   paused, status>>

CacheTimer(h) ==
    /\ status = "running" /\ hops[h].seen = "recent"
    /\ hops' = [hops EXCEPT ![h].seen = "stale"]
    /\ UNCHANGED <<cfg, seqs, nextSeq, batchAt, numhosts, numPing, sendDue, grace,
                   paused, status>>

Elapse == SendTimer \/ GraceTimer \/ \E h \in HopIndex : CacheTimer(h)

Ended == status # "running" /\ UNCHANGED vars

Next == Tick \/ Response \/ UserAction \/ Interrupt \/ Elapse \/ Ended

Spec == Init /\ [][Next]_vars

\* The driver sleeps until NextWake and delivers the tick; clocks advance.
FairSpec == Spec /\ WF_vars(Tick) /\ WF_vars(SendTimer) /\ WF_vars(GraceTimer)

-----------------------------------------------------------------------------
(* Invariants *)

TypeOK ==
    /\ cfg \in ConfigRecords
    /\ hops \in [HopIndex -> HopRecords]
    /\ seqs \in [Tokens -> Slots]
    /\ nextSeq \in MinSequence..(MaxSequence - 1)
    /\ batchAt \in HopIndex
    /\ numhosts \in Nat
    /\ numPing \in Nat
    /\ sendDue \in BOOLEAN
    /\ grace \in {"none", "running", "over"}
    /\ paused \in BOOLEAN
    /\ status \in {"running", "finished", "interrupted"}

\* The cycle cursor never goes below the first TTL nor off the hop table, whatever
\* the user does to the TTL range in the middle of a cycle: `at - first + 1` does not
\* underflow (engine.rs 292, 302), `hops[at]` exists and its TTL fits a u8 (275, 331).
CursorInRange ==
    /\ cfg.firstTtl <= cfg.maxTtl
    /\ MinHop(cfg) <= batchAt
    /\ batchAt + 1 < MaxHost
    /\ numhosts > 0

LiveSlots(h) == {t \in Tokens : seqs[t].transit /\ seqs[t].hop = h}

\* A hop has never more answers than probes: the answers it has, together with the
\* answers its live tokens still allow, fit the probes it sent, and the in-flight
\* probe that loss and drop leave out is not an answered one.  So Drop >= 0 and
\* Loss% stays within 0..100, across Reset, token reuse and late answers.
Accounting ==
    \A h \in HopIndex :
        /\ hops[h].returned + Cardinality(LiveSlots(h)) <= hops[h].xmit
        /\ Dropped(hops[h]) >= 0

\* The ring always ends at the latest send (the debug_assert of push_sent), so a
\* send number finds its own sample, never a neighbour's.
HistoryAligned == \A h \in HopIndex : RingAligned(hops[h])

\* A live token names a probe whose outcome is still open, and no two live tokens
\* name the same probe: an answer can neither count twice nor land on an answered one.
TokensIdentifyProbes ==
    \A t \in Tokens : seqs[t].transit =>
        LET h == hops[seqs[t].hop] IN
        /\ seqs[t].saved \in 1..h.xmit
        /\ InRing(h, seqs[t].saved) => SampleOf(h, seqs[t].saved) # "rtt"
        /\ \A u \in Tokens : (seqs[u].transit /\ u # t) =>
              <<seqs[u].hop, seqs[u].saved>> # <<seqs[t].hop, seqs[t].saved>>

\* The Log tab and the Rcv column tell the same story: as long as nothing was
\* evicted, a hop shows as many RTT samples as it counted replies, never more.
HistoryAgreesWithStats ==
    \A h \in HopIndex :
        LET r == hops[h]
            answered == Cardinality({i \in DOMAIN r.samples : r.samples[i] = "rtt"})
        IN  /\ answered <= r.returned
            /\ r.xmit <= HistoryLen => answered = r.returned

\* Sweeps of a hop: its probes, without the one of the cycle in progress.
FullSweeps(h) == hops[h].xmit - (IF MinHop(cfg) <= h /\ h < batchAt THEN 1 ELSE 0)

\* A report is even: the first hop is probed exactly once per cycle, no hop more often
\* than the hop before it and none below the first TTL, whatever ends the cycles; when
\* the report is finished the first hop has been probed maxPing times.
CoverageEven ==
    ~cfg.interactive /\ ~cfg.cache =>
        /\ FullSweeps(MinHop(cfg)) = numPing
        /\ \A h \in HopIndex : h > MinHop(cfg) => FullSweeps(h) <= FullSweeps(h - 1)
        /\ \A h \in HopIndex : h < MinHop(cfg) => hops[h].xmit = 0
        /\ status = "finished" => hops[MinHop(cfg)].xmit = cfg.maxPing

-----------------------------------------------------------------------------
(* Action properties *)

\* An answer is final: an RTT sample stays what it is until the ring evicts it or
\* the statistics are reset, whatever late, repeated or stale responses arrive.
AnsweredStays ==
    [][\A h \in HopIndex : \A n \in 1..hops[h].xmit :
          InRing(hops[h], n) /\ SampleOf(hops[h], n) = "rtt" =>
              \/ hops'[h].xmit = 0
              \/ InRing(hops'[h], n) => SampleOf(hops'[h], n) = "rtt"]_vars

\* Once the grace period has begun no probe is sent, and it is not cut short by the
\* user's edits.
QuietAfterLastCycle ==
    [][grace # "none" => /\ nextSeq' = nextSeq
                         /\ grace' # "none"
                         /\ numPing' = numPing]_vars

-----------------------------------------------------------------------------
(* Liveness *)

\* A report always ends, whether or not anything answers.
Termination == ~cfg.interactive ~> status # "running"
=============================================================================
