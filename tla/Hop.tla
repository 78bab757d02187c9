--------------------------------- MODULE Hop ---------------------------------
(***************************************************************************)
(* One hop of the traced path: the counters of crates/mtr-core/src/stats.rs *)
(* that loss and drop are computed from, the ring of recent probes of      *)
(* history.rs, and the bookkeeping hop.rs does on a send, a reply, a       *)
(* timeout and a send failure.  Operators only; Engine keeps one hop       *)
(* record per TTL.  The round-trip arithmetic is in module RttStats.       *)
(***************************************************************************)
EXTENDS Integers, Sequences, FiniteSets

CONSTANTS
    Addrs,       \* addresses a reply can come from
    Errors,      \* the terminal errors a hop can show (HopError)
    None,        \* Rust's Option::None, for addr and err
    MaxPath,     \* MAX_PATH: distinct addresses remembered per hop
    HistoryLen   \* HISTORY_LEN: probes remembered per hop

ASSUME HopAssumption ==
    /\ None \notin Addrs
    /\ None \notin Errors
    /\ MaxPath \in Nat \ {0}
    /\ HistoryLen \in Nat \ {0}

\* Sample: what the ring knows of one probe (the RTT value itself is data).
Samples == {"pending", "rtt", "lost"}

\* `seen` only matters through `now - seen <= cache_timeout`: a hop that never
\* answered with --cache, one that answered recently, one that answered earlier.
SeenStates == {"never", "recent", "stale"}

HopRecords ==
    [ addr        : Addrs \cup {None},   \* latest responder
      addrs       : SUBSET Addrs,        \* distinct responders
      err         : Errors \cup {None},
      outstanding : BOOLEAN,             \* a probe is unanswered
      up          : BOOLEAN,
      seen        : SeenStates,
      xmit        : Nat,                 \* probes sent
      returned    : Nat,                 \* replies received
      transit     : {0, 1},              \* the latest probe may be in flight
      base        : Nat,                 \* base_seq: send counter of samples[1]
      samples     : Seq(Samples) ]

NewHop ==
    [ addr |-> None, addrs |-> {}, err |-> None,
      outstanding |-> FALSE, up |-> FALSE, seen |-> "never",
      xmit |-> 0, returned |-> 0, transit |-> 0,
      base |-> 1, samples |-> <<>> ]

-----------------------------------------------------------------------------
(* history.rs *)

\* Append a pending sample for send number savedSeq, evicting the oldest when full.
PushSent(h, savedSeq) ==
    LET base == IF h.samples = <<>> THEN savedSeq ELSE h.base
        full == Len(h.samples) = HistoryLen
    IN  [h EXCEPT !.base    = IF full THEN base + 1 ELSE base,
                  !.samples = Append(IF full THEN Tail(@) ELSE @, "pending")]

\* The position of a send number in the ring; outside 1..Len(samples) when evicted.
Index(h, savedSeq) == savedSeq - h.base + 1

InRing(h, savedSeq) == Index(h, savedSeq) \in 1..Len(h.samples)
SampleOf(h, savedSeq) == h.samples[Index(h, savedSeq)]

RecordOutcome(h, savedSeq, sample) ==
    IF InRing(h, savedSeq)
    THEN [h EXCEPT !.samples[Index(h, savedSeq)] = sample]
    ELSE h

-----------------------------------------------------------------------------
(* hop.rs *)

\* record_send: count the probe, mark the hop down if the last one is still open.
RecordSend(h) ==
    PushSent([h EXCEPT !.xmit        = @ + 1,
                       !.transit     = 1,
                       !.up          = @ /\ ~h.outstanding,
                       !.outstanding = TRUE],
             h.xmit + 1)

\* The distinct responders after one more reply: a new one is dropped past MaxPath.
NoteAddr(addrs, from) ==
    IF Cardinality(addrs) < MaxPath THEN addrs \cup {from} ELSE addrs

\* record_reply: overwrite is false when dueTTL hides the target at this hop,
\* cache is true when --cache is on.
RecordReply(h, savedSeq, from, err, overwrite, cache) ==
    RecordOutcome([h EXCEPT !.err         = err,
                            !.addrs       = NoteAddr(@, from),
                            !.addr        = IF overwrite THEN from ELSE @,
                            !.returned    = @ + 1,
                            !.transit     = 0,
                            !.outstanding = FALSE,
                            !.up          = TRUE,
                            !.seen        = IF cache THEN "recent" ELSE @],
                  savedSeq, "rtt")

\* record_no_reply: a helper timeout only reaches the history.
RecordNoReply(h, savedSeq) == RecordOutcome(h, savedSeq, "lost")

\* record_send_error: the helper could not send; the probe is a drop at once.
RecordSendError(h, savedSeq, err) ==
    RecordOutcome([h EXCEPT !.err         = err,
                            !.outstanding = FALSE,
                            !.transit     = 0],
                  savedSeq, "lost")

\* The ring holds the latest sends, up to the very last one.
RingAligned(h) ==
    /\ h.samples = <<>> <=> h.xmit = 0
    /\ h.samples # <<>> => h.base + Len(h.samples) - 1 = h.xmit
    /\ Len(h.samples) <= HistoryLen

\* stats.rs dropped(): what the Drop column shows, in-flight probe excluded.
Dropped(h) == (h.xmit - h.transit) - h.returned

\* end_transit for one hop: a final in-flight probe counts as dropped.
EndTransit(h) == [h EXCEPT !.transit = 0]
=============================================================================
