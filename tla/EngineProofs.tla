----------------------------- MODULE EngineProofs -----------------------------
(***************************************************************************)
(* Proofs about Engine for every path length, token range, ring size and   *)
(* set of configurations: the type invariant, the cycle cursor, the ring,  *)
(* the token table, the accounting of answers, that answers are final,     *)
(* that the engine implements ProbeLedger, that a hop shows the answers it *)
(* counted, that the grace period is quiet and that coverage is even.      *)
(*                                                                         *)
(* The inductive invariant IInv joins the first five because they lean on  *)
(* each other: an answer may be counted because its token is live          *)
(* (Counted), the token is live for one probe only and that probe is       *)
(* unanswered (TokensIdentifyProbes), and the send number finds that       *)
(* probe's own sample (HistoryAligned).  Accounting itself is not          *)
(* inductive: it says nothing of a hop whose in-flight probe is not its    *)
(* last unanswered one.                                                    *)
(* RingTruthful and Even are proved on top of IInv: the first adds that    *)
(* the ring evicts nothing before it is full, the second where the cursor  *)
(* stands when the last cycle is done.                                     *)
(***************************************************************************)
EXTENDS EngineLedger, SequenceTheorems, FiniteSetTheorems, TLAPS

-----------------------------------------------------------------------------
(* What the operations of one hop return, for every size of the ring and every set of addresses *)

\* A fresh hop is a hop record with an empty, aligned ring.
LEMMA NewHopType ==
    /\ NewHop \in HopRecords
    /\ RingAligned(NewHop)
    /\ NewHop.xmit = 0 /\ NewHop.returned = 0 /\ NewHop.transit = 0
<1>1. <<>> \in Seq(Samples) /\ Len(<<>>) = 0
  BY EmptySeq
<1>. QED
  BY <1>1, HopAssumption DEF NewHop, HopRecords, RingAligned, SeenStates

\* Fields the ring operations never look at do not change what the ring holds.
LEMMA RingDependsOnRing ==
    ASSUME NEW h, NEW g, h.samples = g.samples, h.base = g.base
    PROVE  \A n : /\ InRing(h, n) <=> InRing(g, n)
                  /\ SampleOf(h, n) = SampleOf(g, n)
BY DEF InRing, SampleOf, Index

\* The fields of a hop that its ring operations leave alone.
SameOutsideRing(r, h) ==
    /\ r.xmit = h.xmit /\ r.returned = h.returned /\ r.transit = h.transit
    /\ r.addr = h.addr

\* push_sent appends exactly one pending sample, for the number it is given, and
\* leaves every older sample that is still in the ring where it can be found.
LEMMA PushSentRing ==
    ASSUME NEW h \in HopRecords, h.xmit > 0,
           \/ h.samples = <<>> /\ h.xmit = 1
           \/ h.samples # <<>> /\ h.base + Len(h.samples) = h.xmit,
           Len(h.samples) <= HistoryLen
    PROVE  LET r == PushSent(h, h.xmit) IN
           /\ r \in HopRecords
           /\ SameOutsideRing(r, h)
           /\ RingAligned(r)
           /\ InRing(r, h.xmit) /\ SampleOf(r, h.xmit) = "pending"
           /\ \A n \in Int : n # h.xmit /\ InRing(r, n) =>
                 InRing(h, n) /\ SampleOf(r, n) = SampleOf(h, n)
           /\ \A n \in 1..h.xmit : (h.xmit <= HistoryLen /\ (n = h.xmit \/ InRing(h, n))) =>
                 InRing(r, n)
<1> DEFINE len  == Len(h.samples)
           full == len = HistoryLen
           base == IF h.samples = <<>> THEN h.xmit ELSE h.base
           b    == IF full THEN base + 1 ELSE base
           kept == IF full THEN Tail(h.samples) ELSE h.samples
           s    == Append(kept, "pending")
           r    == PushSent(h, h.xmit)
<1>1. /\ h.samples \in Seq(Samples) /\ h.base \in Nat /\ h.xmit \in Nat
      /\ len \in Nat /\ HistoryLen \in Nat /\ HistoryLen > 0
      /\ h.samples = <<>> <=> len = 0
  BY HopAssumption, EmptySeq, LenProperties DEF HopRecords
<1>2. /\ kept \in Seq(Samples)
      /\ Len(kept) = IF full THEN len - 1 ELSE len
      /\ \A i \in 1..Len(kept) : kept[i] = IF full THEN h.samples[i + 1] ELSE h.samples[i]
  <2>1. CASE full
    <3>1. h.samples # <<>>
      BY <2>1, <1>1
    <3>. QED  BY <3>1, <2>1, <1>1, HeadTailProperties
  <2>2. CASE ~full
    BY <2>2, <1>1
  <2>. QED  BY <2>1, <2>2
<1>. HIDE DEF kept
<1>3. /\ s \in Seq(Samples)
      /\ s # <<>>
      /\ Len(s) = Len(kept) + 1
      /\ \A i \in 1..Len(kept) : s[i] = kept[i]
      /\ s[Len(kept) + 1] = "pending"
  BY <1>2, AppendProperties, SMTT(30) DEF Samples
<1>. HIDE DEF s
<1>4. b \in Nat /\ b + Len(kept) = h.xmit
  <2>1. Len(kept) = IF full THEN len - 1 ELSE len
    BY <1>2
  <2>2. CASE h.samples = <<>> /\ h.xmit = 1
    BY <2>1, <2>2, <1>1
  <2>3. CASE h.samples # <<>> /\ h.base + Len(h.samples) = h.xmit
    BY <2>1, <2>3, <1>1
  <2>. QED  BY <2>2, <2>3
<1>. HIDE DEF b
<1>5. r = [h EXCEPT !.base = b, !.samples = s]
  BY DEF PushSent, kept, s, b
<1>6. /\ r \in HopRecords
      /\ r.base = b /\ r.samples = s
      /\ SameOutsideRing(r, h)
  BY <1>3, <1>4, <1>5 DEF HopRecords, SameOutsideRing
<1>. HIDE DEF r
<1>7. /\ Len(kept) \in Nat /\ Len(kept) + 1 <= HistoryLen
      /\ Len(s) = Len(kept) + 1
  BY <1>1, <1>2, <1>3
<1>8. RingAligned(r)
  <2>1. r.xmit = h.xmit
    BY <1>6 DEF SameOutsideRing
  <2>. QED  BY <2>1, <1>1, <1>3, <1>4, <1>6, <1>7 DEF RingAligned
<1>9. InRing(r, h.xmit) /\ SampleOf(r, h.xmit) = "pending"
  <2>1. h.xmit - b + 1 = Len(kept) + 1
    BY <1>1, <1>4, <1>7
  <2>. QED  BY <2>1, <1>3, <1>6, <1>7 DEF InRing, SampleOf, Index
<1>10. ASSUME NEW n \in Int, n # h.xmit, InRing(r, n)
       PROVE  InRing(h, n) /\ SampleOf(r, n) = SampleOf(h, n)
  <2>1. n - b + 1 \in 1..Len(kept)
    BY <1>10, <1>1, <1>4, <1>6, <1>7 DEF InRing, Index
  <2>2. h.samples # <<>> /\ base = h.base
    BY <2>1, <1>1, <1>2
  <2>3. n - h.base + 1 = IF full THEN n - b + 2 ELSE n - b + 1
    BY <2>2, <1>1 DEF b
  <2>4. n - h.base + 1 \in 1..len
    <3>1. Len(kept) = IF full THEN len - 1 ELSE len
      BY <1>2
    <3>2. /\ n - b + 1 \in Int
          /\ n - h.base + 1 = n - b + 1 + (IF full THEN 1 ELSE 0)
      BY <1>1, <1>4, <1>10, <2>3
    <3>. DEFINE k == n - b + 1
    <3>. HIDE DEF k
    <3>3. k \in Int /\ k \in 1..Len(kept)
      BY <2>1, <3>2 DEF k
    <3>4. k + (IF full THEN 1 ELSE 0) \in 1..len
      BY <3>1, <3>3, <1>1
    <3>. QED  BY <3>2, <3>4 DEF k
  <2>5. s[n - b + 1] = h.samples[n - h.base + 1]
    BY <2>1, <2>3, <1>2, <1>3, <1>7, <1>4
  <2>. QED  BY <2>4, <2>5, <1>6 DEF InRing, SampleOf, Index
<1>11. ASSUME NEW n \in 1..h.xmit, h.xmit <= HistoryLen, n # h.xmit, InRing(h, n)
       PROVE  InRing(r, n)
  <2>1. n - h.base + 1 \in 1..len /\ h.samples # <<>> /\ base = h.base
    BY <1>1, <1>11 DEF InRing, Index
  <2>2. h.base + len = h.xmit
    BY <2>1
  <2>3. n - b + 1 \in 1..(Len(kept) + 1)
    <3>1. CASE full
      <4>1. Len(kept) = len - 1 /\ b = h.base + 1 /\ len = HistoryLen
        BY <1>2, <2>1, <3>1 DEF b
      <4>2. n \in Nat /\ n >= 1 /\ h.xmit \in Nat /\ n < h.xmit /\ h.base \in Nat
        BY <1>1, <1>11
      <4>. HIDE DEF len
      <4>. QED  BY <1>1, <1>11, <2>1, <2>2, <4>1, <4>2
    <3>2. CASE ~full
      <4>1. Len(kept) = len /\ b = h.base
        BY <1>2, <2>1, <3>2 DEF b
      <4>. HIDE DEF len
      <4>. QED  BY <1>1, <2>1, <4>1
    <3>. QED  BY <3>1, <3>2
  <2>. QED  BY <1>6, <1>7, <2>3 DEF InRing, Index
<1>. QED  BY <1>6, <1>8, <1>9, <1>10, <1>11 DEF r

\* Ring r is ring h with the sample of send number n set, when it is still there.
SetsSample(r, h, n, sample) ==
    \A m \in Int : /\ InRing(r, m) <=> InRing(h, m)
                   /\ InRing(h, m) =>
                        SampleOf(r, m) = IF m = n THEN sample ELSE SampleOf(h, m)

\* Overwriting the outcome of one send number touches that sample alone.
LEMMA RecordOutcomeRing ==
    ASSUME NEW h \in HopRecords, NEW n \in Int, NEW sample \in Samples
    PROVE  LET r == RecordOutcome(h, n, sample) IN
           /\ r \in HopRecords
           /\ SameOutsideRing(r, h)
           /\ RingAligned(h) => RingAligned(r)
           /\ SetsSample(r, h, n, sample)
<1> DEFINE r == RecordOutcome(h, n, sample)
           i == Index(h, n)
<1>1. h.samples \in Seq(Samples) /\ h.base \in Nat /\ Len(h.samples) \in Nat
  BY LenProperties DEF HopRecords
<1>2. CASE ~InRing(h, n)
  <2>1. r = h
    BY <1>2 DEF RecordOutcome
  <2>2. SameOutsideRing(h, h)
    BY DEF SameOutsideRing
  <2>. QED  BY <2>1, <2>2, <1>2 DEF SetsSample
<1>3. CASE InRing(h, n)
  <2>1. i \in 1..Len(h.samples) /\ i \in Int
    BY <1>3, <1>1 DEF InRing, Index
  <2>2. /\ [h.samples EXCEPT ![i] = sample] \in Seq(Samples)
        /\ Len([h.samples EXCEPT ![i] = sample]) = Len(h.samples)
        /\ \A j \in 1..Len(h.samples) :
              [h.samples EXCEPT ![i] = sample][j] = IF j = i THEN sample ELSE h.samples[j]
    BY <2>1, <1>1, ExceptSeq, SMTT(30)
  <2>3. /\ r = [h EXCEPT !.samples = [h.samples EXCEPT ![i] = sample]]
        /\ r.samples = [h.samples EXCEPT ![i] = sample]
        /\ r.base = h.base /\ r.xmit = h.xmit
        /\ r \in HopRecords
    BY <1>3, <2>2 DEF RecordOutcome, HopRecords
  <2>6. SameOutsideRing(r, h)
    BY <2>3 DEF SameOutsideRing, HopRecords
  <2>. HIDE DEF r
  <2>4. RingAligned(h) => RingAligned(r)
    <3>1. r.samples = <<>> <=> h.samples = <<>>
      BY <2>2, <2>3, <1>1, EmptySeq
    <3>. QED  BY <3>1, <2>2, <2>3 DEF RingAligned
  <2>5. ASSUME NEW m \in Int
        PROVE  /\ InRing(r, m) <=> InRing(h, m)
               /\ InRing(h, m) =>
                    SampleOf(r, m) = IF m = n THEN sample ELSE SampleOf(h, m)
    <3>1. Index(r, m) = Index(h, m) /\ (Index(h, m) = i <=> m = n)
      BY <2>3, <1>1 DEF Index
    <3>. QED  BY <3>1, <2>2, <2>3 DEF InRing, SampleOf
  <2>7. SetsSample(r, h, n, sample)
    BY <2>5 DEF SetsSample
  <2>. QED  BY <2>3, <2>4, <2>6, <2>7 DEF r
<1>. QED  BY <1>2, <1>3

\* record_send: one more probe, in flight, pending at the end of the ring.
LEMMA RecordSendHop ==
    ASSUME NEW h \in HopRecords, RingAligned(h)
    PROVE  LET r == RecordSend(h) IN
           /\ r \in HopRecords
           /\ RingAligned(r)
           /\ r.xmit = h.xmit + 1 /\ r.returned = h.returned /\ r.transit = 1
           /\ r.addr = h.addr
           /\ InRing(r, h.xmit + 1) => SampleOf(r, h.xmit + 1) = "pending"
           /\ \A n \in Int : n # h.xmit + 1 /\ InRing(r, n) =>
                 InRing(h, n) /\ SampleOf(r, n) = SampleOf(h, n)
           /\ \A n \in 1..(h.xmit + 1) :
                 (h.xmit < HistoryLen /\ (n = h.xmit + 1 \/ InRing(h, n))) => InRing(r, n)
<1> DEFINE up   == h.up /\ ~h.outstanding
           sent == h.xmit + 1
           g    == [h EXCEPT !.xmit        = sent,
                             !.transit     = 1,
                             !.up          = up,
                             !.outstanding = TRUE]
<1>0. up \in BOOLEAN /\ sent \in Nat
  BY DEF HopRecords
<1>. HIDE DEF up, sent
<1>1. /\ g \in HopRecords
      /\ g.xmit = sent /\ g.transit = 1 /\ g.returned = h.returned
      /\ g.addr = h.addr
      /\ g.samples = h.samples /\ g.base = h.base
  BY <1>0 DEF HopRecords
<1>a. h.xmit \in Nat /\ h.base \in Nat /\ sent = h.xmit + 1
  BY DEF HopRecords, sent
<1>2. Len(h.samples) \in Nat
  BY LenProperties DEF HopRecords
<1>3. /\ \/ g.samples = <<>> /\ g.xmit = 1
         \/ g.samples # <<>> /\ g.base + Len(g.samples) = g.xmit
      /\ Len(g.samples) <= HistoryLen
  BY <1>1, <1>2, <1>a DEF RingAligned
<1>4. RecordSend(h) = PushSent(g, g.xmit)
  BY <1>1, <1>a DEF RecordSend, up, sent
<1>. HIDE DEF g
<1> DEFINE r == PushSent(g, g.xmit)
<1>5. /\ r \in HopRecords
      /\ SameOutsideRing(r, g)
      /\ RingAligned(r)
      /\ InRing(r, g.xmit) /\ SampleOf(r, g.xmit) = "pending"
      /\ \A n \in Int : n # g.xmit /\ InRing(r, n) =>
            InRing(g, n) /\ SampleOf(r, n) = SampleOf(g, n)
      /\ \A n \in 1..g.xmit : (g.xmit <= HistoryLen /\ (n = g.xmit \/ InRing(g, n))) =>
            InRing(r, n)
  <2>1. g.xmit > 0 /\ g \in HopRecords
    BY <1>1, <1>a
  <2>. QED  BY <2>1, <1>3, PushSentRing
<1>6. \A n : (InRing(g, n) <=> InRing(h, n)) /\ SampleOf(g, n) = SampleOf(h, n)
  BY <1>1, RingDependsOnRing
<1>. HIDE DEF r
<1>7. r.xmit = g.xmit /\ r.returned = g.returned /\ r.transit = g.transit /\ r.addr = g.addr
  BY <1>5 DEF SameOutsideRing
<1>8. ASSUME NEW n \in 1..(h.xmit + 1), h.xmit < HistoryLen, n = h.xmit + 1 \/ InRing(h, n)
      PROVE  InRing(r, n)
  <2>1. g.xmit = h.xmit + 1 /\ g.xmit <= HistoryLen
    BY <1>1, <1>8, <1>a, HopAssumption
  <2>. QED  BY <1>5, <1>6, <1>8, <2>1
<1>. QED  BY <1>1, <1>a, <1>4, <1>5, <1>6, <1>7, <1>8 DEF r

\* record_reply: one more answer, nothing in flight, and the sample is an RTT.
LEMMA RecordReplyHop ==
    ASSUME NEW h \in HopRecords, RingAligned(h), NEW n \in Nat, NEW from \in Addrs,
           NEW err \in Errors \cup {None}, NEW overwrite \in BOOLEAN,
           NEW cache \in BOOLEAN
    PROVE  LET r == RecordReply(h, n, from, err, overwrite, cache) IN
           /\ r \in HopRecords
           /\ RingAligned(r)
           /\ r.xmit = h.xmit /\ r.returned = h.returned + 1 /\ r.transit = 0
           /\ SetsSample(r, h, n, "rtt")
<1> DEFINE addrs == NoteAddr(h.addrs, from)
           addr  == IF overwrite THEN from ELSE h.addr
           seen  == IF cache THEN "recent" ELSE h.seen
           count == h.returned + 1
           g == [h EXCEPT !.err         = err,
                          !.addrs       = addrs,
                          !.addr        = addr,
                          !.returned    = count,
                          !.transit     = 0,
                          !.outstanding = FALSE,
                          !.up          = TRUE,
                          !.seen        = seen]
<1>1. addrs \in SUBSET Addrs /\ addr \in Addrs \cup {None} /\ seen \in SeenStates
  BY DEF NoteAddr, HopRecords, SeenStates
<1>0. count \in Nat
  BY DEF HopRecords
<1>. HIDE DEF addrs, addr, seen, count
<1>2. /\ g \in HopRecords
      /\ g.xmit = h.xmit /\ g.returned = count /\ g.transit = 0
      /\ g.samples = h.samples /\ g.base = h.base
  BY <1>0, <1>1 DEF HopRecords
<1>3. RecordReply(h, n, from, err, overwrite, cache) = RecordOutcome(g, n, "rtt")
  BY DEF RecordReply, addrs, addr, seen, count
<1>4. RingAligned(g)
  BY <1>2 DEF RingAligned
<1>5. \A m : (InRing(g, m) <=> InRing(h, m)) /\ SampleOf(g, m) = SampleOf(h, m)
  <2>1. g.samples = h.samples /\ g.base = h.base
    BY <1>2
  <2>. QED  BY <2>1, RingDependsOnRing
<1>. HIDE DEF g
<1> DEFINE r == RecordOutcome(g, n, "rtt")
<1>6. /\ r \in HopRecords
      /\ SameOutsideRing(r, g)
      /\ RingAligned(r)
      /\ SetsSample(r, g, n, "rtt")
  BY <1>2, <1>4, RecordOutcomeRing DEF Samples
<1>. HIDE DEF r
<1>7. r.xmit = g.xmit /\ r.returned = g.returned /\ r.transit = g.transit
  BY <1>6 DEF SameOutsideRing
<1>8. SetsSample(r, h, n, "rtt")
  BY <1>5, <1>6 DEF SetsSample
<1>. QED  BY <1>2, <1>3, <1>6, <1>7, <1>8 DEF r, count

\* record_no_reply: only the sample of that probe changes.
LEMMA RecordNoReplyHop ==
    ASSUME NEW h \in HopRecords, RingAligned(h), NEW n \in Nat
    PROVE  LET r == RecordNoReply(h, n) IN
           /\ r \in HopRecords
           /\ RingAligned(r)
           /\ r.xmit = h.xmit /\ r.returned = h.returned /\ r.transit = h.transit
           /\ SetsSample(r, h, n, "lost")
<1> DEFINE r == RecordOutcome(h, n, "lost")
<1>1. /\ r \in HopRecords
      /\ SameOutsideRing(r, h)
      /\ RingAligned(r)
      /\ SetsSample(r, h, n, "lost")
  BY RecordOutcomeRing DEF Samples
<1>. HIDE DEF r
<1>2. r.xmit = h.xmit /\ r.returned = h.returned /\ r.transit = h.transit
  BY <1>1 DEF SameOutsideRing
<1>. QED  BY <1>1, <1>2 DEF r, RecordNoReply

\* record_send_error: the probe is a drop at once.
LEMMA RecordSendErrorHop ==
    ASSUME NEW h \in HopRecords, RingAligned(h), NEW n \in Nat, NEW err \in Errors
    PROVE  LET r == RecordSendError(h, n, err) IN
           /\ r \in HopRecords
           /\ RingAligned(r)
           /\ r.xmit = h.xmit /\ r.returned = h.returned /\ r.transit = 0
           /\ SetsSample(r, h, n, "lost")
<1> DEFINE g == [h EXCEPT !.err = err, !.outstanding = FALSE, !.transit = 0]
<1>1. /\ g \in HopRecords
      /\ g.xmit = h.xmit /\ g.returned = h.returned /\ g.transit = 0
      /\ g.samples = h.samples /\ g.base = h.base
  BY DEF HopRecords
<1>2. RecordSendError(h, n, err) = RecordOutcome(g, n, "lost")
  BY DEF RecordSendError
<1>3. RingAligned(g)
  BY <1>1 DEF RingAligned
<1>4. \A m : (InRing(g, m) <=> InRing(h, m)) /\ SampleOf(g, m) = SampleOf(h, m)
  BY <1>1, RingDependsOnRing
<1>. HIDE DEF g
<1> DEFINE r == RecordOutcome(g, n, "lost")
<1>5. /\ r \in HopRecords
      /\ SameOutsideRing(r, g)
      /\ RingAligned(r)
      /\ SetsSample(r, g, n, "lost")
  BY <1>1, <1>3, RecordOutcomeRing DEF Samples
<1>. HIDE DEF r
<1>6. r.xmit = g.xmit /\ r.returned = g.returned /\ r.transit = g.transit
  BY <1>5 DEF SameOutsideRing
<1>7. SetsSample(r, h, n, "lost")
  BY <1>4, <1>5 DEF SetsSample
<1>. QED  BY <1>1, <1>2, <1>5, <1>6, <1>7 DEF r

\* end_transit and the cache timer leave counters and ring alone.
LEMMA EndTransitHop ==
    ASSUME NEW h \in HopRecords, RingAligned(h)
    PROVE  LET r == EndTransit(h) IN
           /\ r \in HopRecords
           /\ RingAligned(r)
           /\ r.xmit = h.xmit /\ r.returned = h.returned /\ r.transit = 0
           /\ r.samples = h.samples /\ r.base = h.base
BY DEF EndTransit, HopRecords, RingAligned

-----------------------------------------------------------------------------
(* The inductive invariant *)

\* Accounting with the in-flight flag counted as an unanswered probe.
Counted ==
    \A h \in HopIndex :
        /\ hops[h].returned + Cardinality(LiveSlots(h)) <= hops[h].xmit
        /\ hops[h].returned + hops[h].transit <= hops[h].xmit

IInv == TypeOK /\ CursorInRange /\ HistoryAligned /\ TokensIdentifyProbes /\ Counted

-----------------------------------------------------------------------------
(* Constants *)

\* What the other lemmas need to know of the constants.
LEMMA ConstantFacts ==
    /\ MaxHost \in Nat /\ MaxHost > 1
    /\ MaxSequence \in Nat /\ MinSequence \in Nat /\ MinSequence < MaxSequence
    /\ MinSequence \in Tokens
    /\ 0 \in HopIndex
BY EngineAssumption DEF Tokens, HopIndex

\* The hop index of the first TTL of a configuration.
LEMMA MinHopFacts ==
    ASSUME NEW c \in ConfigRecords
    PROVE  MinHop(c) = c.firstTtl - 1 /\ MinHop(c) \in HopIndex
BY ConstantFacts DEF ConfigRecords, MinHop, HopIndex

\* Every set of tokens has a number of members.
LEMMA LiveSlotsFinite ==
    ASSUME NEW S \in SUBSET Tokens
    PROVE  IsFiniteSet(S) /\ Cardinality(S) \in Nat
<1>1. IsFiniteSet(Tokens)
  BY ConstantFacts, FS_Interval DEF Tokens
<1>2. IsFiniteSet(S)
  BY <1>1, FS_Subset
<1>. QED  BY <1>2, FS_CardinalityType

-----------------------------------------------------------------------------
(* What the steps do to the hops *)

\* A probe is sent at hop `at`: one more probe there, pending, in flight; every
\* other hop, and every older sample still in the ring, is as before.
LEMMA SendEffect ==
    ASSUME TypeOK, HistoryAligned, NEW at \in HopIndex, SendQuery(at)
    PROVE  /\ hops' \in [HopIndex -> HopRecords]
           /\ HistoryAligned'
           /\ \A h \in HopIndex : h # at => hops'[h] = hops[h]
           /\ hops'[at].xmit = hops[at].xmit + 1
           /\ hops'[at].returned = hops[at].returned
           /\ hops'[at].transit = 1
           /\ InRing(hops'[at], hops[at].xmit + 1) =>
                 SampleOf(hops'[at], hops[at].xmit + 1) = "pending"
           /\ \A n \in Int : n # hops[at].xmit + 1 /\ InRing(hops'[at], n) =>
                 InRing(hops[at], n) /\ SampleOf(hops'[at], n) = SampleOf(hops[at], n)
           /\ \A n \in 1..(hops[at].xmit + 1) :
                 (hops[at].xmit < HistoryLen /\ (n = hops[at].xmit + 1 \/ InRing(hops[at], n)))
                 => InRing(hops'[at], n)
<1> DEFINE r == RecordSend(hops[at])
<1>1. hops[at] \in HopRecords /\ RingAligned(hops[at])
  BY DEF TypeOK, HistoryAligned
<1>2. /\ r \in HopRecords
      /\ RingAligned(r)
      /\ r.xmit = hops[at].xmit + 1 /\ r.returned = hops[at].returned /\ r.transit = 1
      /\ InRing(r, hops[at].xmit + 1) => SampleOf(r, hops[at].xmit + 1) = "pending"
      /\ \A n \in Int : n # hops[at].xmit + 1 /\ InRing(r, n) =>
            InRing(hops[at], n) /\ SampleOf(r, n) = SampleOf(hops[at], n)
      /\ \A n \in 1..(hops[at].xmit + 1) :
            (hops[at].xmit < HistoryLen /\ (n = hops[at].xmit + 1 \/ InRing(hops[at], n)))
            => InRing(r, n)
  BY <1>1, RecordSendHop
<1>. HIDE DEF r
<1>3. hops' = [hops EXCEPT ![at] = r]
  BY DEF SendQuery, r
<1>4. hops'[at] = r /\ \A h \in HopIndex : h # at => hops'[h] = hops[h]
  BY <1>3 DEF TypeOK
<1>5. hops' \in [HopIndex -> HopRecords]
  BY <1>2, <1>3 DEF TypeOK
<1>6. HistoryAligned'
  BY <1>2, <1>4 DEF HistoryAligned
<1>. QED  BY <1>2, <1>4, <1>5, <1>6

\* What a response to live token t does to the hops, when it gives the probe the
\* outcome `sample` and adds `count` answers to its hop.
Outcome(t, sample, count) ==
    /\ hops' \in [HopIndex -> HopRecords]
    /\ HistoryAligned'
    /\ \A h \in HopIndex : h # seqs[t].hop => hops'[h] = hops[h]
    /\ LET h == seqs[t].hop IN
       /\ hops'[h].xmit = hops[h].xmit
       /\ hops'[h].returned = hops[h].returned + count
       /\ SetsSample(hops'[h], hops[h], seqs[t].saved, sample)

\* A slot points to a hop that is in order.
LEMMA SlotFacts ==
    ASSUME TypeOK, HistoryAligned, NEW t \in Tokens
    PROVE  /\ seqs[t].hop \in HopIndex /\ seqs[t].saved \in Nat
           /\ hops[seqs[t].hop] \in HopRecords
           /\ RingAligned(hops[seqs[t].hop])
<1>1. seqs[t] \in Slots
  BY DEF TypeOK
<1>2. seqs[t].hop \in HopIndex /\ seqs[t].saved \in Nat
  BY <1>1 DEF Slots
<1>. QED  BY <1>2 DEF TypeOK, HistoryAligned

\* Replacing one aligned hop by another is an Outcome when the ring says so.
LEMMA OutcomeOf ==
    ASSUME TypeOK, HistoryAligned, NEW t \in Tokens, NEW sample \in Samples,
           NEW count \in {0, 1}, NEW r \in HopRecords, RingAligned(r),
           hops' = [hops EXCEPT ![seqs[t].hop] = r],
           r.xmit = hops[seqs[t].hop].xmit,
           r.returned = hops[seqs[t].hop].returned + count,
           SetsSample(r, hops[seqs[t].hop], seqs[t].saved, sample)
    PROVE  Outcome(t, sample, count) /\ hops'[seqs[t].hop] = r
<1> DEFINE g == seqs[t].hop
<1>1. g \in HopIndex
  BY SlotFacts
<1>2. hops'[g] = r /\ \A h \in HopIndex : h # g => hops'[h] = hops[h]
  BY <1>1 DEF TypeOK
<1>3. hops' \in [HopIndex -> HopRecords]
  BY <1>1 DEF TypeOK
<1>4. HistoryAligned'
  BY <1>2 DEF HistoryAligned
<1>. QED  BY <1>2, <1>3, <1>4 DEF Outcome

\* A reply is an answer for its token, and nothing is under way to that hop.
LEMMA ReplyEffect ==
    ASSUME TypeOK, HistoryAligned, NEW t, NEW from \in Addrs,
           NEW err \in {None, NoRouteHost}, ReplyFrom(t, from, err)
    PROVE  /\ t \in Tokens /\ seqs[t].transit
           /\ Outcome(t, "rtt", 1)
           /\ hops'[seqs[t].hop].transit = 0
<1> DEFINE h == hops[seqs[t].hop]
           show == MayShow(from, seqs[t].hop)
           n == seqs[t].saved
           cache == cfg.cache
           r == RecordReply(h, n, from, err, show, cache)
<1>1. t \in Tokens /\ seqs[t].transit
  BY DEF ReplyFrom, Live
<1>2. /\ n \in Nat /\ h \in HopRecords /\ RingAligned(h)
      /\ err \in Errors \cup {None}
      /\ show \in BOOLEAN /\ cache \in BOOLEAN
  <2>1. show \in BOOLEAN
    BY DEF MayShow
  <2>2. cache \in BOOLEAN
    BY DEF TypeOK, ConfigRecords
  <2>. QED  BY <1>1, <2>1, <2>2, SlotFacts, EngineAssumption
<1>. HIDE DEF h, show, n, cache
<1>3. /\ r \in HopRecords
      /\ RingAligned(r)
      /\ r.xmit = h.xmit /\ r.returned = h.returned + 1 /\ r.transit = 0
      /\ SetsSample(r, h, n, "rtt")
  BY <1>2, RecordReplyHop
<1>4. hops' = [hops EXCEPT ![seqs[t].hop] = r]
  BY SMTT(30) DEF ReplyFrom, r, h, show, n, cache
<1>. HIDE DEF r
<1>5. Outcome(t, "rtt", 1) /\ hops'[seqs[t].hop] = r
  BY <1>1, <1>3, <1>4, OutcomeOf DEF h, n, Samples
<1>. QED  BY <1>1, <1>3, <1>5

\* A probe that has timed out is lost.
LEMMA TimedOutEffect ==
    ASSUME TypeOK, HistoryAligned, NEW t, TimedOut(t)
    PROVE  /\ t \in Tokens /\ seqs[t].transit
           /\ Outcome(t, "lost", 0)
           /\ hops'[seqs[t].hop].transit = hops[seqs[t].hop].transit
<1> DEFINE h == hops[seqs[t].hop]
           r == RecordNoReply(h, seqs[t].saved)
<1>1. t \in Tokens /\ seqs[t].transit
  BY DEF TimedOut, Live
<1>2. /\ seqs[t].saved \in Nat /\ h \in HopRecords /\ RingAligned(h)
      /\ h.returned \in Nat
  BY <1>1, SlotFacts DEF HopRecords
<1>. HIDE DEF h
<1>3. /\ r \in HopRecords
      /\ RingAligned(r)
      /\ r.xmit = h.xmit /\ r.returned = h.returned /\ r.transit = h.transit
      /\ SetsSample(r, h, seqs[t].saved, "lost")
  BY <1>2, RecordNoReplyHop
<1>4. hops' = [hops EXCEPT ![seqs[t].hop] = r]
  BY DEF TimedOut, r, h
<1>. HIDE DEF r
<1>5. r.returned = h.returned + 0
  BY <1>2, <1>3
<1>6. Outcome(t, "lost", 0) /\ hops'[seqs[t].hop] = r
  BY <1>1, <1>3, <1>4, <1>5, OutcomeOf DEF h, Samples
<1>. QED  BY <1>1, <1>3, <1>6 DEF h

\* A probe that could not be sent is lost, and nothing is under way to that hop.
LEMMA SendFailedEffect ==
    ASSUME TypeOK, HistoryAligned, NEW t, NEW err \in Errors, SendFailed(t, err)
    PROVE  /\ t \in Tokens /\ seqs[t].transit
           /\ Outcome(t, "lost", 0)
           /\ hops'[seqs[t].hop].transit = 0
<1> DEFINE h == hops[seqs[t].hop]
           r == RecordSendError(h, seqs[t].saved, err)
<1>1. t \in Tokens /\ seqs[t].transit
  BY DEF SendFailed, Live
<1>2. /\ seqs[t].saved \in Nat /\ h \in HopRecords /\ RingAligned(h)
      /\ h.returned \in Nat
  BY <1>1, SlotFacts DEF HopRecords
<1>. HIDE DEF h
<1>3. /\ r \in HopRecords
      /\ RingAligned(r)
      /\ r.xmit = h.xmit /\ r.returned = h.returned /\ r.transit = 0
      /\ SetsSample(r, h, seqs[t].saved, "lost")
  BY <1>2, RecordSendErrorHop, SMTT(30)
<1>4. hops' = [hops EXCEPT ![seqs[t].hop] = r]
  BY SMTT(30) DEF SendFailed, r, h
<1>. HIDE DEF r
<1>5. r.returned = h.returned + 0
  BY <1>2, <1>3
<1>6. Outcome(t, "lost", 0) /\ hops'[seqs[t].hop] = r
  BY <1>1, <1>3, <1>4, <1>5, OutcomeOf DEF h, Samples
<1>. QED  BY <1>1, <1>3, <1>6

\* A step that leaves every counter and every ring alone, and takes a probe out of
\* flight at most: the end of the session, and the cache timer.
Settled ==
    /\ hops' \in [HopIndex -> HopRecords]
    /\ HistoryAligned'
    /\ \A h \in HopIndex :
          /\ hops'[h].xmit = hops[h].xmit
          /\ hops'[h].returned = hops[h].returned
          /\ hops'[h].transit \in {0, hops[h].transit}
          /\ hops'[h].samples = hops[h].samples
          /\ hops'[h].base = hops[h].base

\* At the end of a cycle nothing is under way; all else stays.
LEMMA EndTransitEffect ==
    ASSUME TypeOK, HistoryAligned,
           hops' = [h \in HopIndex |-> EndTransit(hops[h])]
    PROVE  Settled
<1>1. ASSUME NEW h \in HopIndex
      PROVE  /\ hops'[h] \in HopRecords
             /\ RingAligned(hops'[h])
             /\ hops'[h].xmit = hops[h].xmit
             /\ hops'[h].returned = hops[h].returned
             /\ hops'[h].transit = 0
             /\ hops'[h].samples = hops[h].samples
             /\ hops'[h].base = hops[h].base
  <2>1. hops[h] \in HopRecords /\ RingAligned(hops[h])
    BY DEF TypeOK, HistoryAligned
  <2>2. hops'[h] = EndTransit(hops[h])
    OBVIOUS
  <2>. QED  BY <2>1, <2>2, EndTransitHop
<1>2. hops' \in [HopIndex -> HopRecords]
  BY <1>1
<1>. QED  BY <1>1, <1>2 DEF Settled, HistoryAligned

\* A hop that has not been seen for long enough goes stale; all else stays.
LEMMA CacheTimerEffect ==
    ASSUME TypeOK, HistoryAligned, NEW h \in HopIndex, CacheTimer(h)
    PROVE  Settled
<1> DEFINE r == [hops[h] EXCEPT !.seen = "stale"]
<1>1. hops[h] \in HopRecords /\ RingAligned(hops[h])
  BY DEF TypeOK, HistoryAligned
<1>2. /\ r \in HopRecords
      /\ r.xmit = hops[h].xmit /\ r.returned = hops[h].returned
      /\ r.transit = hops[h].transit
      /\ r.samples = hops[h].samples /\ r.base = hops[h].base
  BY <1>1 DEF HopRecords, SeenStates
<1>3. RingAligned(r)
  BY <1>1, <1>2 DEF RingAligned
<1>4. hops' = [hops EXCEPT ![h] = r]
  BY DEF CacheTimer
<1>. HIDE DEF r
<1>5. hops' \in [HopIndex -> HopRecords]
  BY <1>2, <1>4 DEF TypeOK
<1>6. hops'[h] = r /\ \A g \in HopIndex : g # h => hops'[g] = hops[g]
  BY <1>4 DEF TypeOK
<1>7. HistoryAligned'
  BY <1>3, <1>6 DEF HistoryAligned
<1>. QED  BY <1>2, <1>5, <1>6, <1>7 DEF Settled

\* A reset empties every hop and closes every token.
LEMMA ResetEffect ==
    ASSUME TypeOK, Reset
    PROVE  /\ hops' \in [HopIndex -> HopRecords]
           /\ HistoryAligned'
           /\ \A h \in HopIndex : /\ hops'[h].xmit = 0 /\ hops'[h].returned = 0
                                  /\ hops'[h].transit = 0
           /\ seqs' \in [Tokens -> Slots]
           /\ \A t \in Tokens : seqs'[t].transit = FALSE
<1>1. \A h \in HopIndex : hops'[h] = NewHop
  BY DEF Reset
<1>2. hops' \in [HopIndex -> HopRecords]
  BY <1>1, NewHopType DEF Reset
<1>3. HistoryAligned'
  BY <1>1, NewHopType DEF HistoryAligned
<1>4. \A t \in Tokens : seqs[t] \in Slots /\ seqs'[t] = [seqs[t] EXCEPT !.transit = FALSE]
  BY DEF Reset, TypeOK
<1>5. \A t \in Tokens : seqs'[t] \in Slots /\ seqs'[t].transit = FALSE
  BY <1>4 DEF Slots
<1>6. seqs' \in [Tokens -> Slots]
  BY <1>5 DEF Reset
<1>. QED  BY <1>1, <1>2, <1>3, <1>5, <1>6, NewHopType

-----------------------------------------------------------------------------
(* The five parts of the invariant, one lemma each *)

\* Clearing a slot leaves the others alone.
LEMMA SlotCleared ==
    ASSUME TypeOK, NEW t \in Tokens, seqs' = [seqs EXCEPT ![t].transit = FALSE]
    PROVE  /\ seqs' \in [Tokens -> Slots]
           /\ seqs'[t].transit = FALSE
           /\ \A u \in Tokens : u # t => seqs'[u] = seqs[u]
<1>1. seqs[t] \in Slots /\ seqs'[t] = [seqs[t] EXCEPT !.transit = FALSE]
  BY DEF TypeOK
<1>2. seqs'[t] \in Slots /\ seqs'[t].transit = FALSE
  <2>1. seqs'[t].transit = FALSE
    BY <1>1 DEF Slots
  <2>2. seqs'[t] \in Slots
    BY <1>1, ZenonT(60) DEF Slots
  <2>. QED  BY <2>1, <2>2
<1>3. seqs \in [Tokens -> Slots]
  BY DEF TypeOK
<1>4. \A u \in Tokens : u # t => seqs'[u] = seqs[u]
  BY <1>3
<1>5. seqs' \in [Tokens -> Slots]
  BY <1>2, <1>3
<1>. QED  BY <1>2, <1>4, <1>5

\* A send takes the slot of its token and leaves the others alone.
LEMMA SlotTaken ==
    ASSUME TypeOK, NEW at \in HopIndex, SendQuery(at)
    PROVE  /\ nextSeq \in Tokens
           /\ seqs' \in [Tokens -> Slots]
           /\ seqs'[nextSeq] = [hop |-> at, transit |-> TRUE, saved |-> hops[at].xmit + 1]
           /\ \A u \in Tokens : u # nextSeq => seqs'[u] = seqs[u]
           /\ nextSeq' \in MinSequence..(MaxSequence - 1)
<1>1. nextSeq \in Tokens
  BY ConstantFacts DEF TypeOK, Tokens
<1>2. hops[at].xmit + 1 \in Nat
  <2>1. hops[at] \in HopRecords
    BY DEF TypeOK
  <2>. QED  BY <2>1 DEF HopRecords
<1> DEFINE slot == [hop |-> at, transit |-> TRUE, saved |-> hops[at].xmit + 1]
<1>3. slot \in Slots
  BY <1>2 DEF Slots
<1>4. seqs' = [seqs EXCEPT ![nextSeq] = slot]
  BY DEF SendQuery
<1>. HIDE DEF slot
<1>5. /\ seqs' \in [Tokens -> Slots]
      /\ seqs'[nextSeq] = slot
      /\ \A u \in Tokens : u # nextSeq => seqs'[u] = seqs[u]
  BY <1>1, <1>3, <1>4 DEF TypeOK
<1>6. nextSeq' \in MinSequence..(MaxSequence - 1)
  BY ConstantFacts DEF SendQuery, NextToken, TypeOK
<1>. QED  BY <1>1, <1>5, <1>6 DEF slot

\* Every step is one of seven, as far as hops and tokens are concerned.
Untouched     == UNCHANGED <<hops, seqs>>
Sends         == batchAt \in HopIndex /\ SendQuery(batchAt)
Answers(t)    == /\ t \in Tokens /\ seqs[t].transit
                 /\ seqs' = [seqs EXCEPT ![t].transit = FALSE]
                 /\ Outcome(t, "rtt", 1) /\ hops'[seqs[t].hop].transit = 0
Expires(t)    == /\ t \in Tokens /\ seqs[t].transit
                 /\ UNCHANGED seqs
                 /\ Outcome(t, "lost", 0)
                 /\ hops'[seqs[t].hop].transit = hops[seqs[t].hop].transit
Fails(t)      == /\ t \in Tokens /\ seqs[t].transit
                 /\ seqs' = [seqs EXCEPT ![t].transit = FALSE]
                 /\ Outcome(t, "lost", 0) /\ hops'[seqs[t].hop].transit = 0
Settles       == Settled /\ UNCHANGED seqs

StepKind ==
    \/ Untouched \/ Sends \/ Settles \/ Reset
    \/ \E t \in Tokens : Answers(t) \/ Expires(t) \/ Fails(t)

\* Whatever an action does to the hops and the slots is one of these.
LEMMA EveryStepHasAKind ==
    ASSUME TypeOK, HistoryAligned, [Next]_vars
    PROVE  StepKind
<1>1. CASE SendBatch
  <2>1. CASE CacheSkip(batchAt)
    BY <1>1, <2>1 DEF SendBatch, StepKind, Untouched
  <2>2. CASE ~CacheSkip(batchAt)
    BY <1>1, <2>2 DEF SendBatch, StepKind, Sends, TypeOK
  <2>. QED  BY <2>1, <2>2
<1>2. CASE StartGrace
  BY <1>2 DEF StartGrace, StepKind, Untouched
<1>3. CASE Finish
  BY <1>3, EndTransitEffect DEF Finish, StepKind, Settles
<1>4. CASE Response
  <2>1. PICK t : \/ \E from \in Addrs, err \in {None, NoRouteHost} : ReplyFrom(t, from, err)
                 \/ TimedOut(t)
                 \/ \E err \in Errors : SendFailed(t, err)
    BY <1>4 DEF Response
  <2>2. ASSUME NEW from \in Addrs, NEW err \in {None, NoRouteHost}, ReplyFrom(t, from, err)
        PROVE  t \in Tokens /\ Answers(t)
    <3>1. seqs' = [seqs EXCEPT ![t].transit = FALSE]
      BY <2>2 DEF ReplyFrom
    <3>. QED  BY <2>2, <3>1, ReplyEffect DEF Answers
  <2>3. ASSUME TimedOut(t)
        PROVE  t \in Tokens /\ Expires(t)
    <3>1. UNCHANGED seqs
      BY <2>3 DEF TimedOut
    <3>. QED  BY <2>3, <3>1, TimedOutEffect DEF Expires
  <2>4. ASSUME NEW err \in Errors, SendFailed(t, err)
        PROVE  t \in Tokens /\ Fails(t)
    <3>1. seqs' = [seqs EXCEPT ![t].transit = FALSE]
      BY <2>4 DEF SendFailed
    <3>. QED  BY <2>4, <3>1, SendFailedEffect DEF Fails
  <2>. QED  BY <2>1, <2>2, <2>3, <2>4 DEF StepKind
<1>5. CASE Pause \/ Resume
  BY <1>5 DEF Pause, Resume, StepKind, Untouched
<1>6. CASE Reset
  BY <1>6 DEF StepKind
<1>7. ASSUME NEW t \in 0..(MaxHost - 1), SetFirstTtl(t) \/ SetMaxTtl(t)
      PROVE  StepKind
  BY <1>7 DEF SetFirstTtl, SetMaxTtl, StepKind, Untouched
<1>8. CASE Interrupt
  BY <1>8, EndTransitEffect DEF Interrupt, StepKind, Settles
<1>9. CASE SendTimer \/ GraceTimer
  BY <1>9 DEF SendTimer, GraceTimer, StepKind, Untouched
<1>10. ASSUME NEW h \in HopIndex, CacheTimer(h)
       PROVE  StepKind
  <2>1. UNCHANGED seqs
    BY <1>10 DEF CacheTimer
  <2>. QED  BY <1>10, <2>1, CacheTimerEffect DEF StepKind, Settles
<1>11. CASE UNCHANGED vars
  BY <1>11 DEF vars, StepKind, Untouched
<1>. QED
  BY <1>1, <1>2, <1>3, <1>4, <1>5, <1>6, <1>7, <1>8, <1>9, <1>10, <1>11
  DEF Next, Tick, UserAction, Elapse, Ended

\* Hops, their rings, and the slots keep their types.
LEMMA RingStep ==
    ASSUME TypeOK, HistoryAligned, StepKind
    PROVE  /\ hops' \in [HopIndex -> HopRecords]
           /\ seqs' \in [Tokens -> Slots]
           /\ HistoryAligned'
<1>1. CASE Untouched
  BY <1>1 DEF Untouched, TypeOK, HistoryAligned
<1>2. CASE Sends
  BY <1>2, SendEffect, SlotTaken DEF Sends
<1>3. CASE Settles
  BY <1>3 DEF Settles, Settled, TypeOK
<1>4. CASE Reset
  BY <1>4, ResetEffect
<1>5. ASSUME NEW t \in Tokens, Answers(t) \/ Fails(t)
      PROVE  /\ hops' \in [HopIndex -> HopRecords]
             /\ seqs' \in [Tokens -> Slots]
             /\ HistoryAligned'
  BY <1>5, SlotCleared DEF Answers, Fails, Outcome
<1>6. ASSUME NEW t \in Tokens, Expires(t)
      PROVE  /\ hops' \in [HopIndex -> HopRecords]
             /\ seqs' \in [Tokens -> Slots]
             /\ HistoryAligned'
  BY <1>6 DEF Expires, Outcome, TypeOK
<1>. QED  BY <1>1, <1>2, <1>3, <1>4, <1>5, <1>6 DEF StepKind

\* What TypeOK and CursorInRange say of everything but hops and slots.
Steering ==
    /\ cfg \in ConfigRecords
    /\ nextSeq \in MinSequence..(MaxSequence - 1)
    /\ batchAt \in HopIndex
    /\ numhosts \in Nat
    /\ numPing \in Nat
    /\ sendDue \in BOOLEAN
    /\ grace \in {"none", "running", "over"}
    /\ paused \in BOOLEAN
    /\ status \in {"running", "finished", "interrupted"}
    /\ CursorInRange

\* The cursor moves forward only below the maximum TTL, and a cycle ends at a hop
\* that is not before the first one: neither leaves the hop table.
LEMMA AdvanceKeepsCursor ==
    ASSUME TypeOK, CursorInRange, AdvanceBatch(batchAt), cfg' = cfg
    PROVE  /\ batchAt' \in HopIndex /\ numhosts' \in Nat /\ numPing' \in Nat
           /\ CursorInRange'
<1>1. /\ cfg \in ConfigRecords
      /\ batchAt \in Int /\ numPing \in Nat /\ numhosts \in Nat
  BY DEF TypeOK, HopIndex
<1>2. /\ MinHop(cfg) = cfg.firstTtl - 1 /\ MinHop(cfg) \in HopIndex
      /\ cfg.firstTtl \in 1..(MaxHost - 1) /\ cfg.maxTtl \in 1..(MaxHost - 1)
  BY <1>1, MinHopFacts DEF ConfigRecords
<1>3. MinHop(cfg) \in Int /\ MinHop(cfg) + 1 < MaxHost /\ MinHop(cfg) <= batchAt
  BY <1>2, ConstantFacts DEF CursorInRange
<1>4. CASE CycleEnds(batchAt) /\ AdvanceBatch(batchAt) /\ numPing' = numPing + 1
  <2>1. /\ batchAt' = MinHop(cfg)
        /\ \E i \in HopIndex : LastOfCycle(batchAt, i) /\ numhosts' = i - MinHop(cfg) + 1
    BY <1>4, <1>1 DEF AdvanceBatch
  <2>2. PICK i \in HopIndex : LastOfCycle(batchAt, i) /\ numhosts' = i - MinHop(cfg) + 1
    BY <2>1
  <2>3. i >= MinHop(cfg) /\ i \in Int
    <3>1. CASE i = batchAt
      BY <3>1, <1>3, <1>1
    <3>2. CASE i \in EarlierTargets(batchAt)
      BY <3>2, <1>1, <1>3 DEF EarlierTargets
    <3>. QED  BY <2>2, <3>1, <3>2 DEF LastOfCycle
  <2>4. numhosts' \in Nat /\ numhosts' > 0
    BY <2>2, <2>3, <1>3
  <2>5. MinHop(cfg') = MinHop(cfg)
    OBVIOUS
  <2>. QED
    BY <2>1, <2>4, <2>5, <1>1, <1>2, <1>3, <1>4, ConstantFacts DEF CursorInRange
<1>5. CASE ~CycleEnds(batchAt)
  <2>1. batchAt' = batchAt + 1 /\ UNCHANGED <<numhosts, numPing>>
    BY <1>5 DEF AdvanceBatch
  <2>2. batchAt + 1 < cfg.maxTtl
    BY <1>5, <1>1, <1>2 DEF CycleEnds, CycleEndsHere
  <2>3. batchAt' \in HopIndex /\ batchAt' + 1 < MaxHost /\ MinHop(cfg) <= batchAt'
    BY <2>1, <2>2, <1>1, <1>2, <1>3, ConstantFacts DEF HopIndex, TypeOK
  <2>4. MinHop(cfg') = MinHop(cfg)
    OBVIOUS
  <2>. QED  BY <2>1, <2>3, <2>4, <1>1 DEF CursorInRange
<1>. QED  BY <1>4, <1>5 DEF AdvanceBatch

\* Raising the first TTL moves the cursor along; lowering it leaves the cursor.
LEMMA SetFirstTtlKeepsCursor ==
    ASSUME TypeOK, CursorInRange, NEW t \in 0..(MaxHost - 1), SetFirstTtl(t)
    PROVE  cfg' \in ConfigRecords /\ batchAt' \in HopIndex /\ CursorInRange'
<1> DEFINE first == AtMost(AtLeast(1, cfg.maxTtl), AtLeast(1, t))
<1>1. /\ cfg \in ConfigRecords /\ cfg.maxTtl \in 1..(MaxHost - 1)
      /\ batchAt \in HopIndex
  BY DEF TypeOK, ConfigRecords
<1>2. first \in 1..(MaxHost - 1) /\ first <= cfg.maxTtl
  BY <1>1, ConstantFacts DEF AtMost, AtLeast
<1>. HIDE DEF first
<1>3. cfg' = [cfg EXCEPT !.firstTtl = first] /\ batchAt' = AtLeast(MinHop(cfg'), batchAt)
  BY DEF SetFirstTtl, first
<1>4. cfg' \in ConfigRecords /\ cfg'.firstTtl = first /\ cfg'.maxTtl = cfg.maxTtl
  BY <1>1, <1>2, <1>3 DEF ConfigRecords
<1>5. MinHop(cfg') = first - 1
  BY <1>4, MinHopFacts
<1>6. batchAt' \in HopIndex /\ MinHop(cfg') <= batchAt' /\ batchAt' + 1 < MaxHost
  BY <1>1, <1>2, <1>3, <1>5, ConstantFacts DEF AtLeast, HopIndex, CursorInRange
<1>7. numhosts' = numhosts
  BY DEF SetFirstTtl
<1>. QED  BY <1>2, <1>4, <1>6, <1>7 DEF CursorInRange

\* A maximum TTL set from the terminal leaves the cursor in its range.
LEMMA SetMaxTtlKeepsCursor ==
    ASSUME TypeOK, CursorInRange, NEW t \in 0..(MaxHost - 1), SetMaxTtl(t)
    PROVE  cfg' \in ConfigRecords /\ CursorInRange'
<1> DEFINE max == AtLeast(AtLeast(1, cfg.firstTtl), t)
<1>1. cfg \in ConfigRecords /\ cfg.firstTtl \in 1..(MaxHost - 1)
  BY DEF TypeOK, ConfigRecords
<1>2. max \in 1..(MaxHost - 1) /\ cfg.firstTtl <= max
  BY <1>1, ConstantFacts DEF AtLeast
<1>. HIDE DEF max
<1>3. cfg' = [cfg EXCEPT !.maxTtl = max] /\ UNCHANGED <<batchAt, numhosts>>
  BY DEF SetMaxTtl, max
<1>4. cfg' \in ConfigRecords /\ cfg'.firstTtl = cfg.firstTtl /\ cfg'.maxTtl = max
  BY <1>1, <1>2, <1>3 DEF ConfigRecords
<1>5. MinHop(cfg') = MinHop(cfg)
  BY <1>4 DEF MinHop
<1>. QED  BY <1>2, <1>3, <1>4, <1>5 DEF CursorInRange

\* Every step keeps what steers the engine in its range.
LEMMA SteeringStep ==
    ASSUME TypeOK, CursorInRange, [Next]_vars
    PROVE  Steering'
<1>. USE DEF Steering
<1>1. CASE SendBatch
  <2>1. nextSeq' \in MinSequence..(MaxSequence - 1)
    <3>1. CASE CacheSkip(batchAt)
      BY <1>1, <3>1 DEF SendBatch, TypeOK
    <3>2. CASE ~CacheSkip(batchAt)
      BY <1>1, <3>2, SlotTaken DEF SendBatch, TypeOK
    <3>. QED  BY <3>1, <3>2
  <2>2. AdvanceBatch(batchAt) /\ cfg' = cfg
    BY <1>1 DEF SendBatch
  <2>. QED  BY <1>1, <2>1, <2>2, AdvanceKeepsCursor DEF SendBatch, TypeOK
<1>2. CASE StartGrace \/ Finish \/ Interrupt
  BY <1>2 DEF StartGrace, Finish, Interrupt, TypeOK, CursorInRange
<1>3. CASE Response
  BY <1>3 DEF Response, ReplyFrom, TimedOut, SendFailed, TypeOK, CursorInRange
<1>4. CASE Pause \/ Resume
  BY <1>4 DEF Pause, Resume, TypeOK, CursorInRange
<1>5. CASE Reset
  <2>1. cfg \in ConfigRecords
    BY DEF TypeOK
  <2>2. /\ MinHop(cfg) \in HopIndex /\ MinHop(cfg) + 1 < MaxHost
    BY <2>1, MinHopFacts, ConstantFacts DEF ConfigRecords
  <2>3. MinHop(cfg) <= MinHop(cfg)
    BY <2>2 DEF HopIndex
  <2>4. DefaultNumhosts \in Nat /\ DefaultNumhosts > 0
    BY EngineAssumption
  <2>5. /\ batchAt' = MinHop(cfg) /\ numhosts' = DefaultNumhosts
        /\ UNCHANGED <<cfg, nextSeq, numPing, sendDue, grace, paused, status>>
    BY <1>5 DEF Reset
  <2>. QED  BY <2>2, <2>3, <2>4, <2>5 DEF TypeOK, CursorInRange
<1>6. ASSUME NEW t \in 0..(MaxHost - 1), SetFirstTtl(t)
      PROVE  Steering'
  BY <1>6, SetFirstTtlKeepsCursor DEF SetFirstTtl, TypeOK
<1>7. ASSUME NEW t \in 0..(MaxHost - 1), SetMaxTtl(t)
      PROVE  Steering'
  BY <1>7, SetMaxTtlKeepsCursor DEF SetMaxTtl, TypeOK
<1>8. CASE Elapse
  BY <1>8 DEF Elapse, SendTimer, GraceTimer, CacheTimer, TypeOK, CursorInRange
<1>9. CASE UNCHANGED vars
  BY <1>9 DEF vars, TypeOK, CursorInRange
<1>. QED
  BY <1>1, <1>2, <1>3, <1>4, <1>5, <1>6, <1>7, <1>8, <1>9
  DEF Next, Tick, UserAction, Ended

\* A live token goes on naming one probe whose outcome is open.
LEMMA TokensStep ==
    ASSUME TypeOK, HistoryAligned, TokensIdentifyProbes, StepKind
    PROVE  TokensIdentifyProbes'
<1>0. \A t \in Tokens : /\ seqs[t].hop \in HopIndex /\ seqs[t].saved \in Nat
                       /\ hops[seqs[t].hop].xmit \in Nat
  <2>1. \A t \in Tokens : hops[seqs[t].hop] \in HopRecords /\ seqs[t].hop \in HopIndex
                         /\ seqs[t].saved \in Nat
    BY SlotFacts
  <2>. QED  BY <2>1 DEF HopRecords
<1>1. CASE Untouched
  BY <1>1 DEF Untouched, TokensIdentifyProbes
<1>2. CASE Sends
  <2>. DEFINE at == batchAt
              n  == hops[at].xmit + 1
  <2>1. /\ at \in HopIndex /\ nextSeq \in Tokens
        /\ seqs'[nextSeq].hop = at /\ seqs'[nextSeq].transit = TRUE
        /\ seqs'[nextSeq].saved = n
        /\ \A u \in Tokens : u # nextSeq => seqs'[u] = seqs[u]
    <3>1. /\ nextSeq \in Tokens
          /\ seqs'[nextSeq] = [hop |-> at, transit |-> TRUE, saved |-> n]
          /\ \A u \in Tokens : u # nextSeq => seqs'[u] = seqs[u]
      BY <1>2, SlotTaken DEF Sends
    <3>. QED  BY <3>1, <1>2 DEF Sends
  <2>2. /\ \A h \in HopIndex : h # at => hops'[h] = hops[h]
        /\ hops'[at].xmit = n
        /\ InRing(hops'[at], n) => SampleOf(hops'[at], n) = "pending"
        /\ \A m \in Int : m # n /\ InRing(hops'[at], m) =>
              InRing(hops[at], m) /\ SampleOf(hops'[at], m) = SampleOf(hops[at], m)
    BY <1>2, SendEffect DEF Sends
  <2>3. hops[at].xmit \in Nat /\ n \in Nat /\ n > 0
    <3>1. hops[at] \in HopRecords
      BY <2>1 DEF TypeOK
    <3>. QED  BY <3>1 DEF HopRecords
  <2>. HIDE DEF at, n
  <2>n. n = hops[at].xmit + 1
    BY DEF n
  <2>4. ASSUME NEW t \in Tokens, t # nextSeq, seqs[t].transit
        PROVE  /\ seqs[t].saved \in 1..hops'[seqs[t].hop].xmit
               /\ InRing(hops'[seqs[t].hop], seqs[t].saved) =>
                    SampleOf(hops'[seqs[t].hop], seqs[t].saved) # "rtt"
               /\ <<seqs[t].hop, seqs[t].saved>> # <<at, n>>
    <3>1. /\ seqs[t].saved \in 1..hops[seqs[t].hop].xmit
          /\ InRing(hops[seqs[t].hop], seqs[t].saved) =>
               SampleOf(hops[seqs[t].hop], seqs[t].saved) # "rtt"
      BY <2>4 DEF TokensIdentifyProbes
    <3>2. CASE seqs[t].hop # at
      <4>1. hops'[seqs[t].hop] = hops[seqs[t].hop]
        BY <3>2, <2>2, <1>0
      <4>. QED  BY <4>1, <3>1, <3>2
    <3>3. CASE seqs[t].hop = at
      <4>1. seqs[t].saved \in Int /\ seqs[t].saved # n
        BY <3>1, <3>3, <1>0, <2>3, <2>n
      <4>2. seqs[t].saved \in 1..hops'[at].xmit
        BY <3>1, <3>3, <2>2, <2>3, <2>n
      <4>. QED  BY <4>1, <4>2, <3>1, <3>3, <2>2
    <3>. QED  BY <3>2, <3>3
  <2>5. n \in 1..hops'[at].xmit /\ (InRing(hops'[at], n) => SampleOf(hops'[at], n) # "rtt")
    BY <2>2, <2>3
  <2>6. ASSUME NEW t \in Tokens, NEW u \in Tokens, u # t,
               seqs'[t].transit, seqs'[u].transit
        PROVE  <<seqs'[u].hop, seqs'[u].saved>> # <<seqs'[t].hop, seqs'[t].saved>>
    <3>1. CASE t = nextSeq
      BY <3>1, <2>1, <2>4, <2>6
    <3>2. CASE u = nextSeq
      BY <3>2, <2>1, <2>4, <2>6
    <3>3. CASE t # nextSeq /\ u # nextSeq
      BY <3>3, <2>1, <2>6 DEF TokensIdentifyProbes
    <3>. QED  BY <3>1, <3>2, <3>3
  <2>7. ASSUME NEW t \in Tokens, seqs'[t].transit
        PROVE  /\ seqs'[t].saved \in 1..hops'[seqs'[t].hop].xmit
               /\ InRing(hops'[seqs'[t].hop], seqs'[t].saved) =>
                    SampleOf(hops'[seqs'[t].hop], seqs'[t].saved) # "rtt"
    <3>1. CASE t = nextSeq
      BY <3>1, <2>1, <2>5
    <3>2. CASE t # nextSeq
      BY <3>2, <2>1, <2>4, <2>7
    <3>. QED  BY <3>1, <3>2
  <2>. QED  BY <2>6, <2>7 DEF TokensIdentifyProbes
<1>3. CASE Settles
  <2>1. /\ seqs' = seqs
        /\ \A h \in HopIndex : /\ hops'[h].xmit = hops[h].xmit
                               /\ hops'[h].samples = hops[h].samples
                               /\ hops'[h].base = hops[h].base
    BY <1>3 DEF Settles, Settled
  <2>2. \A h \in HopIndex : \A n : /\ InRing(hops'[h], n) <=> InRing(hops[h], n)
                                  /\ SampleOf(hops'[h], n) = SampleOf(hops[h], n)
    BY <2>1 DEF InRing, SampleOf, Index
  <2>. QED  BY <2>1, <2>2, <1>0 DEF TokensIdentifyProbes
<1>4. CASE Reset
  BY <1>4, ResetEffect DEF TokensIdentifyProbes
<1>5. ASSUME NEW t \in Tokens, Answers(t) \/ Fails(t)
      PROVE  TokensIdentifyProbes'
  <2>. DEFINE g == seqs[t].hop
              k == seqs[t].saved
  <2>1. /\ seqs[t].transit
        /\ seqs'[t].transit = FALSE
        /\ \A u \in Tokens : u # t => seqs'[u] = seqs[u]
    BY <1>5, SlotCleared DEF Answers, Fails
  <2>2. /\ \A h \in HopIndex : h # g => hops'[h] = hops[h]
        /\ hops'[g].xmit = hops[g].xmit
        /\ \A m \in Int : /\ InRing(hops'[g], m) => InRing(hops[g], m)
                          /\ InRing(hops[g], m) /\ m # k =>
                                SampleOf(hops'[g], m) = SampleOf(hops[g], m)
    BY <1>5 DEF Answers, Fails, Outcome, SetsSample
  <2>3. ASSUME NEW u \in Tokens, u # t, seqs[u].transit
        PROVE  /\ seqs[u].saved \in 1..hops'[seqs[u].hop].xmit
               /\ InRing(hops'[seqs[u].hop], seqs[u].saved) =>
                    SampleOf(hops'[seqs[u].hop], seqs[u].saved) # "rtt"
    <3>1. /\ seqs[u].saved \in 1..hops[seqs[u].hop].xmit
          /\ InRing(hops[seqs[u].hop], seqs[u].saved) =>
               SampleOf(hops[seqs[u].hop], seqs[u].saved) # "rtt"
          /\ <<seqs[u].hop, seqs[u].saved>> # <<g, k>>
      BY <2>1, <2>3 DEF TokensIdentifyProbes
    <3>2. CASE seqs[u].hop # g
      BY <3>1, <3>2, <2>2, <1>0
    <3>3. CASE seqs[u].hop = g
      <4>1. seqs[u].saved # k /\ seqs[u].saved \in Int
        BY <3>1, <3>3, <1>0
      <4>. QED  BY <4>1, <3>1, <3>3, <2>2
    <3>. QED  BY <3>2, <3>3
  <2>. QED  BY <2>1, <2>3 DEF TokensIdentifyProbes
<1>6. ASSUME NEW t \in Tokens, Expires(t)
      PROVE  TokensIdentifyProbes'
  <2>. DEFINE g == seqs[t].hop
  <2>1. seqs' = seqs
    BY <1>6 DEF Expires
  <2>2. /\ \A h \in HopIndex : h # g => hops'[h] = hops[h]
        /\ hops'[g].xmit = hops[g].xmit
        /\ \A m \in Int : /\ InRing(hops'[g], m) => InRing(hops[g], m)
                          /\ InRing(hops[g], m) =>
                                SampleOf(hops'[g], m) \in {"lost", SampleOf(hops[g], m)}
    BY <1>6 DEF Expires, Outcome, SetsSample
  <2>3. ASSUME NEW u \in Tokens, seqs[u].transit
        PROVE  /\ seqs[u].saved \in 1..hops'[seqs[u].hop].xmit
               /\ InRing(hops'[seqs[u].hop], seqs[u].saved) =>
                    SampleOf(hops'[seqs[u].hop], seqs[u].saved) # "rtt"
    <3>1. /\ seqs[u].saved \in 1..hops[seqs[u].hop].xmit
          /\ InRing(hops[seqs[u].hop], seqs[u].saved) =>
               SampleOf(hops[seqs[u].hop], seqs[u].saved) # "rtt"
      BY <2>3 DEF TokensIdentifyProbes
    <3>2. CASE seqs[u].hop # g
      BY <3>1, <3>2, <2>2, <1>0
    <3>3. CASE seqs[u].hop = g
      <4>1. seqs[u].saved \in Int
        BY <1>0
      <4>. QED  BY <4>1, <3>1, <3>3, <2>2
    <3>. QED  BY <3>2, <3>3
  <2>. QED  BY <2>1, <2>3 DEF TokensIdentifyProbes
<1>. QED  BY <1>1, <1>2, <1>3, <1>4, <1>5, <1>6 DEF StepKind

\* Answers and live tokens stay within the probes sent.
LEMMA CountedStep ==
    ASSUME TypeOK, HistoryAligned, Counted, StepKind
    PROVE  Counted'
<1>0. \A h \in HopIndex :
          /\ hops[h].xmit \in Nat /\ hops[h].returned \in Nat /\ hops[h].transit \in {0, 1}
          /\ IsFiniteSet(LiveSlots(h)) /\ Cardinality(LiveSlots(h)) \in Nat
  <2>1. \A h \in HopIndex : hops[h] \in HopRecords /\ LiveSlots(h) \in SUBSET Tokens
    BY DEF TypeOK, LiveSlots
  <2>. QED  BY <2>1, LiveSlotsFinite DEF HopRecords
<1>a. \A h \in HopIndex :
          /\ hops[h].returned + Cardinality(LiveSlots(h)) <= hops[h].xmit
          /\ hops[h].returned + hops[h].transit <= hops[h].xmit
  BY DEF Counted
<1>1. CASE Untouched
  BY <1>1 DEF Untouched, Counted, LiveSlots
<1>2. CASE Sends
  <2>. DEFINE at == batchAt
  <2>1. /\ at \in HopIndex /\ nextSeq \in Tokens
        /\ seqs'[nextSeq] = [hop |-> at, transit |-> TRUE, saved |-> hops[at].xmit + 1]
        /\ \A u \in Tokens : u # nextSeq => seqs'[u] = seqs[u]
    BY <1>2, SlotTaken DEF Sends
  <2>2. /\ \A h \in HopIndex : h # at => hops'[h] = hops[h]
        /\ hops'[at].xmit = hops[at].xmit + 1
        /\ hops'[at].returned = hops[at].returned
        /\ hops'[at].transit = 1
    BY <1>2, SendEffect DEF Sends
  <2>. HIDE DEF at
  <2>3. ASSUME NEW h \in HopIndex
        PROVE  Cardinality(LiveSlots(h))'
                  <= Cardinality(LiveSlots(h)) + (IF h = at THEN 1 ELSE 0)
    <3>1. CASE h = at
      <4>1. LiveSlots(h)' = LiveSlots(h) \cup {nextSeq}
        BY <3>1, <2>1 DEF LiveSlots
      <4>. QED  BY <4>1, <3>1, <1>0, FS_AddElement
    <3>2. CASE h # at
      <4>1. LiveSlots(h)' = LiveSlots(h) \ {nextSeq}
        BY <3>2, <2>1 DEF LiveSlots
      <4>2. Cardinality(LiveSlots(h) \ {nextSeq}) <= Cardinality(LiveSlots(h))
        BY <1>0, FS_Subset
      <4>. QED  BY <4>1, <4>2, <3>2, <1>0
    <3>. QED  BY <3>1, <3>2
  <2>4. \A h \in HopIndex : Cardinality(LiveSlots(h))' \in Nat
    <3>1. \A h \in HopIndex : LiveSlots(h)' \in SUBSET Tokens
      BY DEF LiveSlots
    <3>. QED  BY <3>1, LiveSlotsFinite
  <2>5. ASSUME NEW h \in HopIndex
        PROVE  /\ hops'[h].returned + Cardinality(LiveSlots(h))' <= hops'[h].xmit
               /\ hops'[h].returned + hops'[h].transit <= hops'[h].xmit
    <3>1. CASE h = at
      BY <3>1, <2>2, <2>3, <2>4, <1>0, <1>a
    <3>2. CASE h # at
      BY <3>2, <2>2, <2>3, <2>4, <1>0, <1>a
    <3>. QED  BY <3>1, <3>2
  <2>. QED  BY <2>5 DEF Counted
<1>3. CASE Settles
  <2>1. /\ \A h \in HopIndex : LiveSlots(h)' = LiveSlots(h)
        /\ \A h \in HopIndex :
              /\ hops'[h].xmit = hops[h].xmit
              /\ hops'[h].returned = hops[h].returned
              /\ hops'[h].transit \in {0, hops[h].transit}
    BY <1>3 DEF Settles, Settled, LiveSlots
  <2>2. ASSUME NEW h \in HopIndex
        PROVE  /\ hops'[h].returned + Cardinality(LiveSlots(h))' <= hops'[h].xmit
               /\ hops'[h].returned + hops'[h].transit <= hops'[h].xmit
    <3>1. hops[h].returned + Cardinality(LiveSlots(h)) <= hops[h].xmit
      BY <1>a
    <3>2. hops[h].returned + hops'[h].transit <= hops[h].xmit
      BY <2>1, <1>0, <1>a
    <3>. QED  BY <3>1, <3>2, <2>1
  <2>. QED  BY <2>2 DEF Counted
<1>4. CASE Reset
  <2>1. /\ \A h \in HopIndex : LiveSlots(h)' = {}
        /\ \A h \in HopIndex : /\ hops'[h].xmit = 0 /\ hops'[h].returned = 0
                               /\ hops'[h].transit = 0
    BY <1>4, ResetEffect DEF LiveSlots
  <2>2. \A h \in HopIndex : Cardinality(LiveSlots(h))' = 0
    BY <2>1, FS_EmptySet
  <2>. QED  BY <2>1, <2>2 DEF Counted
<1>5. ASSUME NEW t \in Tokens, Answers(t) \/ Fails(t)
      PROVE  Counted'
  <2>0. PICK g \in HopIndex : g = seqs[t].hop
    BY SlotFacts
  <2>1. /\ seqs[t].transit
        /\ seqs'[t].transit = FALSE
        /\ \A u \in Tokens : u # t => seqs'[u] = seqs[u]
    BY <1>5, SlotCleared DEF Answers, Fails
  <2>2. /\ \A h \in HopIndex : h # g => hops'[h] = hops[h]
        /\ hops'[g].xmit = hops[g].xmit
        /\ hops'[g].returned \in {hops[g].returned, hops[g].returned + 1}
        /\ hops'[g].transit = 0
    <3>1. hops[g].returned + 0 = hops[g].returned
      BY <1>0, <2>1
    <3>2. CASE Answers(t)
      BY <2>0, <3>2 DEF Answers, Outcome
    <3>3. CASE Fails(t)
      BY <2>0, <3>1, <3>3 DEF Fails, Outcome
    <3>. QED  BY <1>5, <3>2, <3>3
  <2>3. t \in LiveSlots(g) /\ LiveSlots(g)' = LiveSlots(g) \ {t}
    <3>1. t \in LiveSlots(g)
      BY <2>0, <2>1 DEF LiveSlots
    <3>2. ASSUME NEW u \in Tokens, u # t
          PROVE  (seqs'[u].transit /\ seqs'[u].hop = g) <=> (seqs[u].transit /\ seqs[u].hop = g)
      BY <2>1, <3>2
    <3>3. ASSUME NEW u PROVE u \in LiveSlots(g)' <=> u \in LiveSlots(g) \ {t}
      BY <2>1, <3>2 DEF LiveSlots
    <3>. QED  BY <3>1, <3>3
  <2>4. Cardinality(LiveSlots(g))' = Cardinality(LiveSlots(g)) - 1
    <3>1. IsFiniteSet(LiveSlots(g))
      BY <1>0
    <3>2. Cardinality(LiveSlots(g) \ {t}) = Cardinality(LiveSlots(g)) - 1
      BY <2>3, <3>1, FS_RemoveElement
    <3>. QED  BY <2>3, <3>2
  <2>5. ASSUME NEW h \in HopIndex, h # g
        PROVE  LiveSlots(h)' = LiveSlots(h)
    <3>1. ASSUME NEW u \in Tokens
          PROVE  (seqs'[u].transit /\ seqs'[u].hop = h) <=> (seqs[u].transit /\ seqs[u].hop = h)
      <4>1. CASE u = t
        BY <2>0, <2>1, <2>5, <4>1
      <4>2. CASE u # t
        BY <2>1, <4>2
      <4>. QED  BY <4>1, <4>2
    <3>2. ASSUME NEW u PROVE u \in LiveSlots(h)' <=> u \in LiveSlots(h)
      BY <3>1 DEF LiveSlots
    <3>. QED  BY <3>2
  <2>6. ASSUME NEW h \in HopIndex
        PROVE  /\ hops'[h].returned + Cardinality(LiveSlots(h))' <= hops'[h].xmit
               /\ hops'[h].returned + hops'[h].transit <= hops'[h].xmit
    <3>1. CASE h = g
      <4>1. Cardinality(LiveSlots(g)) - 1 \in Nat
        <5>1. Cardinality(LiveSlots(g))' \in Nat
          <6>1. LiveSlots(g)' \in SUBSET Tokens
            BY DEF LiveSlots
          <6>. QED  BY <6>1, LiveSlotsFinite
        <5>. QED  BY <5>1, <2>4
      <4>. QED  BY <3>1, <4>1, <2>1, <2>2, <2>4, <1>0, <1>a
    <3>2. CASE h # g
      BY <3>2, <2>2, <2>5, <1>a
    <3>. QED  BY <3>1, <3>2
  <2>. QED  BY <2>6 DEF Counted
<1>6. ASSUME NEW t \in Tokens, Expires(t)
      PROVE  Counted'
  <2>. DEFINE g == seqs[t].hop
  <2>1. /\ \A h \in HopIndex : LiveSlots(h)' = LiveSlots(h)
        /\ g \in HopIndex
        /\ \A h \in HopIndex : h # g => hops'[h] = hops[h]
        /\ hops'[g].xmit = hops[g].xmit
        /\ hops'[g].returned = hops[g].returned + 0
        /\ hops'[g].transit = hops[g].transit
    BY <1>6, SlotFacts DEF Expires, Outcome, LiveSlots
  <2>. HIDE DEF g
  <2>2. ASSUME NEW h \in HopIndex
        PROVE  /\ hops'[h].returned + Cardinality(LiveSlots(h))' <= hops'[h].xmit
               /\ hops'[h].returned + hops'[h].transit <= hops'[h].xmit
    <3>1. CASE h = g
      BY <3>1, <2>1, <1>0, <1>a
    <3>2. CASE h # g
      BY <3>2, <2>1, <1>a
    <3>. QED  BY <3>1, <3>2
  <2>. QED  BY <2>2 DEF Counted
<1>. QED  BY <1>1, <1>2, <1>3, <1>4, <1>5, <1>6 DEF StepKind

-----------------------------------------------------------------------------
(* The invariant, and what follows from it *)

\* The invariant holds at the start.
LEMMA InitInv == Init => IInv
<1>. SUFFICES ASSUME Init PROVE IInv
  OBVIOUS
<1>1. TypeOK
  <2>1. cfg \in ConfigRecords
    BY EngineAssumption DEF Init
  <2>2. MinHop(cfg) \in HopIndex
    BY <2>1, MinHopFacts
  <2>3. NewSlot \in Slots
    BY ConstantFacts DEF NewSlot, Slots
  <2>4. seqs \in [Tokens -> Slots] /\ hops \in [HopIndex -> HopRecords]
    BY <2>3, NewHopType DEF Init
  <2>5. MinSequence \in MinSequence..(MaxSequence - 1) /\ DefaultNumhosts \in Nat
    BY ConstantFacts, EngineAssumption
  <2>. QED  BY <2>1, <2>2, <2>4, <2>5 DEF Init, TypeOK
<1>2. CursorInRange
  <2>1. cfg \in ConfigRecords /\ cfg.firstTtl <= cfg.maxTtl
    BY EngineAssumption DEF Init, ValidConfig
  <2>2. /\ MinHop(cfg) = cfg.firstTtl - 1
        /\ cfg.firstTtl \in 1..(MaxHost - 1) /\ cfg.maxTtl \in 1..(MaxHost - 1)
    BY <2>1, MinHopFacts DEF ConfigRecords
  <2>3. batchAt = MinHop(cfg) /\ numhosts = DefaultNumhosts
    BY DEF Init
  <2>. QED
    BY <2>1, <2>2, <2>3, EngineAssumption DEF CursorInRange
<1>3. \A h \in HopIndex : hops[h] = NewHop
  BY DEF Init
<1>4. HistoryAligned
  BY <1>3, NewHopType DEF HistoryAligned
<1>5. \A t \in Tokens : seqs[t].transit = FALSE
  BY DEF Init, NewSlot
<1>6. TokensIdentifyProbes
  BY <1>5 DEF TokensIdentifyProbes
<1>7. Counted
  <2>1. \A h \in HopIndex : Cardinality(LiveSlots(h)) = 0
    <3>1. \A h \in HopIndex : LiveSlots(h) = {}
      BY <1>5 DEF LiveSlots
    <3>. QED  BY <3>1, FS_EmptySet
  <2>. QED  BY <2>1, <1>3, NewHopType DEF Counted
<1>. QED  BY <1>1, <1>2, <1>4, <1>6, <1>7 DEF IInv

\* Every step keeps it.
LEMMA NextInv == IInv /\ [Next]_vars => IInv'
<1>. SUFFICES ASSUME IInv, [Next]_vars PROVE IInv'
  OBVIOUS
<1>1. TypeOK /\ CursorInRange /\ HistoryAligned /\ TokensIdentifyProbes /\ Counted
  BY DEF IInv
<1>2. StepKind
  BY <1>1, EveryStepHasAKind
<1>3. Steering'
  BY <1>1, SteeringStep
<1>4. /\ hops' \in [HopIndex -> HopRecords]
      /\ seqs' \in [Tokens -> Slots]
      /\ HistoryAligned'
  BY <1>1, <1>2, RingStep
<1>5. TypeOK' /\ CursorInRange'
  BY <1>3, <1>4 DEF Steering, TypeOK
<1>6. TokensIdentifyProbes'
  BY <1>1, <1>2, TokensStep
<1>7. Counted'
  BY <1>1, <1>2, CountedStep
<1>. QED  BY <1>4, <1>5, <1>6, <1>7 DEF IInv

\* The conjunction of the five parts holds in every reachable state.
THEOREM Invariant == Spec => []IInv
<1>1. Init => IInv
  BY InitInv
<1>2. IInv /\ [Next]_vars => IInv'
  BY NextInv
<1>. QED  BY <1>1, <1>2, PTL DEF Spec

\* Every variable keeps its type, for every size of the tables.
THEOREM TypeCorrect == Spec => []TypeOK
<1>1. IInv => TypeOK
  BY DEF IInv
<1>. QED  BY <1>1, Invariant, PTL

\* No edit of the TTL range makes the cursor leave the hop table or go below the
\* first TTL: the subtractions and indexings of send_batch are safe.
THEOREM CursorSafe == Spec => []CursorInRange
<1>1. IInv => CursorInRange
  BY DEF IInv
<1>. QED  BY <1>1, Invariant, PTL

\* The assertion of push_sent holds: a send number always finds its own sample.
THEOREM RingSafe == Spec => []HistoryAligned
<1>1. IInv => HistoryAligned
  BY DEF IInv
<1>. QED  BY <1>1, Invariant, PTL

\* A live token names exactly one probe, and that probe is unanswered.
THEOREM TokensSafe == Spec => []TokensIdentifyProbes
<1>1. IInv => TokensIdentifyProbes
  BY DEF IInv
<1>. QED  BY <1>1, Invariant, PTL

\* Drop is never negative and loss never exceeds 100%: answers and live tokens of
\* a hop fit the probes it sent.
THEOREM AccountingSafe == Spec => []Accounting
<1>1. IInv => Accounting
  <2>1. ASSUME IInv, NEW h \in HopIndex
        PROVE  Dropped(hops[h]) >= 0
    <3>1. hops[h] \in HopRecords /\ hops[h].returned + hops[h].transit <= hops[h].xmit
      BY <2>1 DEF IInv, TypeOK, Counted
    <3>2. hops[h].xmit \in Nat /\ hops[h].returned \in Nat /\ hops[h].transit \in {0, 1}
      BY <3>1 DEF HopRecords
    <3>. QED  BY <3>1, <3>2 DEF Dropped
  <2>. QED  BY <2>1 DEF IInv, Counted, Accounting
<1>. QED  BY <1>1, Invariant, PTL

\* One step cannot replace an RTT sample that stays in the ring.
FinalStep ==
    \A h \in HopIndex : \A n \in 1..hops[h].xmit :
        InRing(hops[h], n) /\ SampleOf(hops[h], n) = "rtt" =>
            \/ hops'[h].xmit = 0
            \/ InRing(hops'[h], n) => SampleOf(hops'[h], n) = "rtt"

\* Every step keeps the answers that are there.
LEMMA AnswerIsFinal ==
    ASSUME IInv, [Next]_vars
    PROVE  FinalStep
<1>1. TypeOK /\ HistoryAligned /\ TokensIdentifyProbes
  BY DEF IInv
<1>2. StepKind
  BY <1>1, EveryStepHasAKind
<1>. SUFFICES ASSUME NEW h \in HopIndex, NEW n \in 1..hops[h].xmit,
                     InRing(hops[h], n), SampleOf(hops[h], n) = "rtt",
                     hops'[h].xmit # 0, InRing(hops'[h], n)
              PROVE  SampleOf(hops'[h], n) = "rtt"
  BY DEF FinalStep
<1>3. n \in Int /\ hops[h].xmit \in Nat /\ n # hops[h].xmit + 1
  <2>1. hops[h] \in HopRecords
    BY <1>1 DEF TypeOK
  <2>2. hops[h].xmit \in Nat
    BY <2>1 DEF HopRecords
  <2>. QED  BY <2>2
<1>4. CASE Untouched
  BY <1>4 DEF Untouched
<1>5. CASE Sends
  <2>1. CASE h = batchAt
    BY <2>1, <1>1, <1>3, <1>5, SendEffect DEF Sends
  <2>2. CASE h # batchAt
    BY <2>2, <1>1, <1>5, SendEffect DEF Sends
  <2>. QED  BY <2>1, <2>2
<1>6. CASE Settles
  BY <1>6 DEF Settles, Settled, InRing, SampleOf, Index
<1>7. CASE Reset
  BY <1>7, <1>1, ResetEffect
<1>8. ASSUME NEW t \in Tokens, Answers(t)
      PROVE  SampleOf(hops'[h], n) = "rtt"
  BY <1>8, <1>3 DEF Answers, Outcome, SetsSample
<1>9. ASSUME NEW t \in Tokens, Expires(t) \/ Fails(t)
      PROVE  SampleOf(hops'[h], n) = "rtt"
  <2>1. ~(h = seqs[t].hop /\ n = seqs[t].saved)
    BY <1>9, <1>1 DEF Expires, Fails, TokensIdentifyProbes
  <2>. QED  BY <2>1, <1>9, <1>3 DEF Expires, Fails, Outcome, SetsSample
<1>. QED  BY <1>2, <1>4, <1>5, <1>6, <1>7, <1>8, <1>9 DEF StepKind

\* An answered probe stays answered, whatever late, repeated or stale responses
\* follow: until its sample is evicted or the statistics are reset.
THEOREM AnswersAreFinal == Spec => AnsweredStays
<1>1. IInv /\ [Next]_vars => [FinalStep]_vars
  BY AnswerIsFinal
<1>. QED  BY <1>1, Invariant, PTL DEF Spec, AnsweredStays, FinalStep

-----------------------------------------------------------------------------
(* The engine keeps the ledger *)

\* The ledger of a state, function by function.
LEMMA LedgerFacts ==
    ASSUME TypeOK
    PROVE  /\ \A h \in HopIndex : hops[h].xmit \in Nat /\ hops[h].returned \in Nat
           /\ \A t \in Tokens : seqs[t].hop \in HopIndex /\ seqs[t].saved \in Nat
           /\ \A h, n : n \in OpenAt(h) <=>
                 \E t \in Tokens : seqs[t].transit /\ seqs[t].hop = h /\ seqs[t].saved = n
<1>1. \A h \in HopIndex : hops[h] \in HopRecords
  BY DEF TypeOK
<1>2. \A t \in Tokens : seqs[t] \in Slots
  BY DEF TypeOK
<1>3. \A h, n : n \in OpenAt(h) <=>
          \E t \in Tokens : seqs[t].transit /\ seqs[t].hop = h /\ seqs[t].saved = n
  BY Zenon DEF OpenAt, LiveSlots
<1>. QED  BY <1>1, <1>2, <1>3 DEF HopRecords, Slots

\* Nothing the ledger speaks of changes.
LEMMA LedgerStutters ==
    ASSUME seqs' = seqs,
           \A h \in HopIndex : hops'[h].xmit = hops[h].xmit /\ hops'[h].returned = hops[h].returned
    PROVE  UNCHANGED Ledger!ledger
<1>1. \A h : OpenAt(h)' = OpenAt(h)
  BY DEF OpenAt, LiveSlots
<1>. QED  BY <1>1 DEF Ledger!ledger

\* A probe is sent: the token it takes forgets the probe that held it.
LEMMA LedgerSends ==
    ASSUME TypeOK, HistoryAligned, TokensIdentifyProbes, Sends,
           NEW at \in HopIndex, at = batchAt
    PROVE  Ledger!Send(at)
<1>. DEFINE old == <<seqs[nextSeq].hop, seqs[nextSeq].saved>>
            forgotten == IF seqs[nextSeq].transit THEN {old} ELSE {}
            sent == [h \in HopIndex |-> hops[h].xmit]
            open == [h \in HopIndex |-> OpenAt(h)]
<1>1. /\ nextSeq \in Tokens
      /\ seqs'[nextSeq] = [hop |-> at, transit |-> TRUE, saved |-> hops[at].xmit + 1]
      /\ \A u \in Tokens : u # nextSeq => seqs'[u] = seqs[u]
  BY SlotTaken DEF Sends
<1>2. /\ \A h \in HopIndex : h # at => hops'[h] = hops[h]
      /\ hops'[at].xmit = hops[at].xmit + 1
      /\ hops'[at].returned = hops[at].returned
  BY SendEffect DEF Sends
<1>3. seqs'[nextSeq].hop = at /\ seqs'[nextSeq].transit /\ seqs'[nextSeq].saved = hops[at].xmit + 1
  BY <1>1
<1>4. forgotten \in {{}} \cup {{p} : p \in Ledger!OpenProbes}
  <2>1. CASE seqs[nextSeq].transit
    <3>1. /\ seqs[nextSeq].hop \in HopIndex
          /\ seqs[nextSeq].saved \in open[seqs[nextSeq].hop]
      BY <1>1, <2>1, LedgerFacts
    <3>2. seqs[nextSeq].saved \in UNION {open[g] : g \in HopIndex}
      BY <3>1
    <3>3. old \in Ledger!OpenProbes
      BY <3>1, <3>2, Zenon DEF Ledger!OpenProbes
    <3>. QED  BY <2>1, <3>3
  <2>2. CASE ~seqs[nextSeq].transit
    BY <2>2
  <2>. QED  BY <2>1, <2>2
<1>5. sent' = [sent EXCEPT ![at] = @ + 1]
  BY <1>1, <1>2
<1>6. ASSUME NEW g \in HopIndex, NEW n
      PROVE  n \in OpenAt(g)' <=> \/ n \in OpenAt(g) /\ <<g, n>> \notin forgotten
                                  \/ n = hops[at].xmit + 1 /\ g = at
  <2>1. n \in OpenAt(g)' <=>
            \E t \in Tokens : seqs'[t].transit /\ seqs'[t].hop = g /\ seqs'[t].saved = n
    BY Zenon DEF OpenAt, LiveSlots
  <2>2. ASSUME NEW t \in Tokens, seqs'[t].transit, seqs'[t].hop = g, seqs'[t].saved = n
        PROVE  \/ n \in OpenAt(g) /\ <<g, n>> \notin forgotten
               \/ n = hops[at].xmit + 1 /\ g = at
    <3>1. CASE t = nextSeq
      BY <1>3, <2>2, <3>1
    <3>2. CASE t # nextSeq
      <4>1. seqs[t].transit /\ seqs[t].hop = g /\ seqs[t].saved = n
        BY <1>1, <2>2, <3>2
      <4>2. n \in OpenAt(g)
        BY <4>1, LedgerFacts
      <4>3. seqs[nextSeq].transit => <<g, n>> # old
        BY <1>1, <3>2, <4>1 DEF TokensIdentifyProbes
      <4>. QED BY <4>2, <4>3
    <3>. QED  BY <3>1, <3>2
  <2>3. ASSUME n \in OpenAt(g), <<g, n>> \notin forgotten PROVE n \in OpenAt(g)'
    <3>1. PICK t \in Tokens : seqs[t].transit /\ seqs[t].hop = g /\ seqs[t].saved = n
      BY <2>3, LedgerFacts
    <3>2. t # nextSeq
      BY <2>3, <3>1
    <3>3. seqs'[t] = seqs[t]
      BY <1>1, <3>2
    <3>. QED  BY <2>1, <3>1, <3>3
  <2>4. ASSUME n = hops[at].xmit + 1, g = at PROVE n \in OpenAt(g)'
    BY <1>1, <1>3, <2>1, <2>4
  <2>. QED  BY <2>1, <2>2, <2>3, <2>4
<1>7. open' = [g \in HopIndex |->
                  {n \in open[g] : <<g, n>> \notin forgotten}
                  \cup {n \in {sent[at] + 1} : g = at}]
  <2>1. ASSUME NEW g \in HopIndex
        PROVE  OpenAt(g)' = {n \in open[g] : <<g, n>> \notin forgotten}
                            \cup {n \in {sent[at] + 1} : g = at}
    <3>1. open[g] = OpenAt(g) /\ sent[at] = hops[at].xmit
      BY <1>1
    <3>. HIDE DEF open, sent, forgotten
    <3>. QED  BY <1>6, <3>1
  <2>. QED  BY <2>1
<1>8. UNCHANGED [h \in HopIndex |-> hops[h].returned]
  BY <1>2
<1>9. \E f \in {{}} \cup {{p} : p \in Ledger!OpenProbes} :
         /\ sent' = [sent EXCEPT ![at] = @ + 1]
         /\ open' = [g \in HopIndex |->
                       {n \in open[g] : <<g, n>> \notin f}
                       \cup {n \in {sent[at] + 1} : g = at}]
         /\ UNCHANGED [h \in HopIndex |-> hops[h].returned]
  <2>. HIDE DEF sent, open, forgotten
  <2>. QED  BY <1>4, <1>5, <1>7, <1>8
<1>. QED  BY <1>9, Zenon DEF Ledger!Send

\* A token is closed: its probe is answered, or could not be sent.
LEMMA LedgerCloses ==
    ASSUME TypeOK, TokensIdentifyProbes, NEW t \in Tokens, seqs[t].transit,
           seqs' = [seqs EXCEPT ![t].transit = FALSE]
    PROVE  LET h == seqs[t].hop
               n == seqs[t].saved
               open == [g \in HopIndex |-> OpenAt(g)]
           IN  /\ h \in HopIndex /\ n \in open[h]
               /\ open' = [open EXCEPT ![h] = @ \ {n}]
<1>. DEFINE open == [g \in HopIndex |-> OpenAt(g)]
<1>1. PICK h \in HopIndex, n \in Nat : h = seqs[t].hop /\ n = seqs[t].saved
  BY LedgerFacts
<1>2. n \in OpenAt(h)
  BY <1>1, LedgerFacts
<1>3. seqs'[t].transit = FALSE /\ \A u \in Tokens : u # t => seqs'[u] = seqs[u]
  BY SlotCleared
<1>4. ASSUME NEW g \in HopIndex, NEW m
      PROVE  m \in OpenAt(g)' <=> m \in OpenAt(g) /\ ~(g = h /\ m = n)
  <2>1. m \in OpenAt(g)' <=>
            \E u \in Tokens : seqs'[u].transit /\ seqs'[u].hop = g /\ seqs'[u].saved = m
    BY Zenon DEF OpenAt, LiveSlots
  <2>2. ASSUME m \in OpenAt(g)' PROVE m \in OpenAt(g) /\ ~(g = h /\ m = n)
    <3>1. PICK u \in Tokens : seqs'[u].transit /\ seqs'[u].hop = g /\ seqs'[u].saved = m
      BY <2>1, <2>2
    <3>2. u # t
      BY <1>3, <3>1
    <3>3. seqs[u].transit /\ seqs[u].hop = g /\ seqs[u].saved = m
      BY <1>3, <3>1, <3>2
    <3>4. <<g, m>> # <<h, n>>
      BY <1>1, <3>2, <3>3 DEF TokensIdentifyProbes
    <3>. QED  BY <3>3, <3>4, LedgerFacts
  <2>3. ASSUME m \in OpenAt(g), ~(g = h /\ m = n) PROVE m \in OpenAt(g)'
    <3>1. PICK u \in Tokens : seqs[u].transit /\ seqs[u].hop = g /\ seqs[u].saved = m
      BY <2>3, LedgerFacts
    <3>2. u # t
      BY <1>1, <2>3, <3>1
    <3>3. seqs'[u] = seqs[u]
      BY <1>3, <3>2
    <3>. QED  BY <2>1, <3>1, <3>3
  <2>. QED  BY <2>2, <2>3
<1>5. open' = [open EXCEPT ![h] = @ \ {n}]
  <2>1. ASSUME NEW g \in HopIndex
        PROVE  OpenAt(g)' = IF g = h THEN OpenAt(g) \ {n} ELSE OpenAt(g)
    BY <1>4
  <2>. QED  BY <2>1
<1>. QED  BY <1>1, <1>2, <1>5

\* Every step of the engine is a step of the ledger, or leaves it alone.
LEMMA LedgerStep ==
    ASSUME IInv, [Next]_vars
    PROVE  [Ledger!Next]_Ledger!ledger
<1>1. TypeOK /\ HistoryAligned /\ TokensIdentifyProbes /\ StepKind
  BY EveryStepHasAKind DEF IInv
<1>2. CASE Untouched
  BY <1>2, LedgerStutters DEF Untouched
<1>3. CASE Sends
  <2>1. PICK at \in HopIndex : at = batchAt
    BY <1>3 DEF Sends
  <2>2. Ledger!Send(at)
    BY <1>1, <1>3, <2>1, LedgerSends
  <2>. QED  BY <2>2, Zenon DEF Ledger!Next
<1>4. CASE Settles
  BY <1>4, LedgerStutters DEF Settles, Settled
<1>5. CASE Reset
  <2>1. /\ \A h \in HopIndex : hops'[h].xmit = 0 /\ hops'[h].returned = 0
        /\ \A t \in Tokens : seqs'[t].transit = FALSE
    BY <1>1, <1>5, ResetEffect
  <2>2. \A h \in HopIndex : OpenAt(h)' = {}
    BY <2>1 DEF OpenAt, LiveSlots
  <2>3. Ledger!Restart
    BY <2>1, <2>2 DEF Ledger!Restart
  <2>. QED  BY <2>3, Zenon DEF Ledger!Next
<1>6. ASSUME NEW t \in Tokens, Answers(t) PROVE Ledger!Next
  <2>. DEFINE open == [g \in HopIndex |-> OpenAt(g)]
              sent == [g \in HopIndex |-> hops[g].xmit]
              answered == [g \in HopIndex |-> hops[g].returned]
  <2>1. PICK h \in HopIndex, n \in Nat : h = seqs[t].hop /\ n = seqs[t].saved
    BY <1>1, LedgerFacts
  <2>2. n \in open[h] /\ open' = [open EXCEPT ![h] = @ \ {n}]
    BY <1>1, <1>6, <2>1, LedgerCloses DEF Answers
  <2>3. /\ \A g \in HopIndex : g # h => hops'[g] = hops[g]
        /\ hops'[h].xmit = hops[h].xmit /\ hops'[h].returned = hops[h].returned + 1
    BY <1>6, <2>1 DEF Answers, Outcome
  <2>4. UNCHANGED sent /\ answered' = [answered EXCEPT ![h] = @ + 1]
    BY <2>3
  <2>5. Ledger!Answer(h, n)
    BY <2>2, <2>4, Zenon DEF Ledger!Answer
  <2>. QED  BY <2>2, <2>5, Zenon DEF Ledger!Next
<1>7. ASSUME NEW t \in Tokens, Expires(t) PROVE UNCHANGED Ledger!ledger
  <2>1. PICK h \in HopIndex : h = seqs[t].hop
    BY <1>1, LedgerFacts
  <2>2. /\ seqs' = seqs /\ \A g \in HopIndex : g # h => hops'[g] = hops[g]
        /\ hops'[h].xmit = hops[h].xmit /\ hops'[h].returned = hops[h].returned + 0
    BY <1>7, <2>1 DEF Expires, Outcome
  <2>3. hops'[h].returned = hops[h].returned
    BY <1>1, <2>2, LedgerFacts
  <2>. QED  BY <2>2, <2>3, LedgerStutters
<1>8. ASSUME NEW t \in Tokens, Fails(t) PROVE Ledger!Next
  <2>. DEFINE open == [g \in HopIndex |-> OpenAt(g)]
              sent == [g \in HopIndex |-> hops[g].xmit]
              answered == [g \in HopIndex |-> hops[g].returned]
  <2>1. PICK h \in HopIndex, n \in Nat : h = seqs[t].hop /\ n = seqs[t].saved
    BY <1>1, LedgerFacts
  <2>2. n \in open[h] /\ open' = [open EXCEPT ![h] = @ \ {n}]
    BY <1>1, <1>8, <2>1, LedgerCloses DEF Fails
  <2>3. /\ \A g \in HopIndex : g # h => hops'[g] = hops[g]
        /\ hops'[h].xmit = hops[h].xmit /\ hops'[h].returned = hops[h].returned + 0
    BY <1>8, <2>1 DEF Fails, Outcome
  <2>4. hops'[h].returned = hops[h].returned
    BY <1>1, <2>3, LedgerFacts
  <2>5. UNCHANGED <<sent, answered>>
    BY <2>3, <2>4
  <2>6. Ledger!Fail(h, n)
    BY <2>2, <2>5, Zenon DEF Ledger!Fail
  <2>. QED  BY <2>2, <2>6, Zenon DEF Ledger!Next
<1>. QED  BY <1>1, <1>2, <1>3, <1>4, <1>5, <1>6, <1>7, <1>8, Zenon DEF StepKind

\* The engine's token slots, wrapping token counter, pause, reset and late answers amount
\* to a ledger of probes: an answer is credited to the hop and the probe it was sent for,
\* at most once, whatever order responses, token reuse and resets come in.
THEOREM LedgerKept == Spec => ImplementsLedger
<1>1. Init => Ledger!Init
  <2>. SUFFICES ASSUME Init PROVE Ledger!Init
    OBVIOUS
  <2>2. \A h \in HopIndex : hops[h] = NewHop /\ NewHop.xmit = 0 /\ NewHop.returned = 0
    BY NewHopType DEF Init
  <2>3. \A t \in Tokens : seqs[t].transit = FALSE
    BY DEF Init, NewSlot
  <2>4. \A h \in HopIndex : OpenAt(h) = {}
    BY <2>3 DEF OpenAt, LiveSlots
  <2>. QED  BY <2>2, <2>4 DEF Ledger!Init
<1>2. IInv /\ [Next]_vars => [Ledger!Next]_Ledger!ledger
  BY LedgerStep
<1>. QED  BY <1>1, <1>2, Invariant, PTL DEF Spec, ImplementsLedger, Ledger!Spec

-----------------------------------------------------------------------------
(* What a hop shows is what it counted *)

\* The send numbers a hop shows an RTT for.
Rtts(r) == {n \in 1..r.xmit : InRing(r, n) /\ SampleOf(r, n) = "rtt"}

\* The ring holds probes that were sent, and all of them until it overflows.
Kept(r) ==
    /\ \A n \in Int : InRing(r, n) => n \in 1..r.xmit
    /\ r.xmit <= HistoryLen => \A n \in 1..r.xmit : InRing(r, n)

Agrees(r) ==
    /\ Cardinality(Rtts(r)) <= r.returned
    /\ r.xmit <= HistoryLen => Cardinality(Rtts(r)) = r.returned

RingTruthful == \A h \in HopIndex : Kept(hops[h]) /\ Agrees(hops[h])

\* The answered sends of a hop have a number.
LEMMA RttsFinite ==
    ASSUME NEW r \in HopRecords
    PROVE  IsFiniteSet(Rtts(r)) /\ Cardinality(Rtts(r)) \in Nat
<1>1. r.xmit \in Int
  BY DEF HopRecords
<1>2. IsFiniteSet(1..r.xmit)
  BY <1>1, FS_Interval
<1>3. IsFiniteSet(Rtts(r))
  BY <1>2, FS_Subset DEF Rtts
<1>. QED  BY <1>3, FS_CardinalityType

\* The same ring and the same counters.
LEMMA AgreesWithSame ==
    ASSUME NEW r, NEW h, Kept(h), Agrees(h), r.xmit = h.xmit, r.returned = h.returned,
           r.samples = h.samples, r.base = h.base
    PROVE  Kept(r) /\ Agrees(r)
<1>1. \A n : (InRing(r, n) <=> InRing(h, n)) /\ SampleOf(r, n) = SampleOf(h, n)
  BY RingDependsOnRing
<1>2. Rtts(r) = Rtts(h)
  BY <1>1 DEF Rtts
<1>. QED  BY <1>1, <1>2 DEF Kept, Agrees

\* A hop that has sent nothing agrees with its history.
LEMMA AgreesWithNew == Kept(NewHop) /\ Agrees(NewHop)
<1>1. NewHop.xmit = 0 /\ NewHop.returned = 0
  BY NewHopType
<1>2. \A n \in Int : ~InRing(NewHop, n)
  BY DEF NewHop, InRing
<1>3. Rtts(NewHop) = {}
  BY <1>1 DEF Rtts
<1>. QED  BY <1>1, <1>2, <1>3, FS_EmptySet DEF Kept, Agrees

\* One more probe: its sample is pending, and an RTT may be evicted to make room.
LEMMA AgreesAfterSend ==
    ASSUME NEW h \in HopRecords, NEW r \in HopRecords, Kept(h), Agrees(h),
           r.xmit = h.xmit + 1, r.returned = h.returned,
           InRing(r, h.xmit + 1) => SampleOf(r, h.xmit + 1) = "pending",
           \A n \in Int : n # h.xmit + 1 /\ InRing(r, n) =>
               InRing(h, n) /\ SampleOf(r, n) = SampleOf(h, n),
           \A n \in 1..(h.xmit + 1) :
               (h.xmit < HistoryLen /\ (n = h.xmit + 1 \/ InRing(h, n))) => InRing(r, n)
    PROVE  Kept(r) /\ Agrees(r)
<1>1. /\ h.xmit \in Nat /\ h.returned \in Nat /\ HistoryLen \in Nat
      /\ r.xmit <= HistoryLen <=> h.xmit < HistoryLen
  BY HopAssumption DEF HopRecords
<1>2. Kept(r)
  <2>1. ASSUME NEW n \in Int, InRing(r, n) PROVE n \in 1..r.xmit
    BY <1>1, <2>1 DEF Kept
  <2>2. ASSUME r.xmit <= HistoryLen, NEW n \in 1..r.xmit PROVE InRing(r, n)
    <3>1. CASE n = h.xmit + 1
      BY <1>1, <2>2, <3>1
    <3>2. CASE n # h.xmit + 1
      <4>1. n \in 1..h.xmit /\ h.xmit <= HistoryLen
        BY <1>1, <2>2, <3>2
      <4>. QED  BY <1>1, <2>2, <4>1 DEF Kept
    <3>. QED  BY <3>1, <3>2
  <2>. QED  BY <2>1, <2>2 DEF Kept
<1>3. Rtts(r) \in SUBSET Rtts(h)
  <2>1. ASSUME NEW n \in Rtts(r) PROVE n \in Rtts(h)
    <3>1. n \in 1..(h.xmit + 1) /\ InRing(r, n) /\ SampleOf(r, n) = "rtt"
      BY DEF Rtts
    <3>2. n \in Int /\ n # h.xmit + 1
      BY <1>1, <3>1
    <3>3. InRing(h, n) /\ SampleOf(h, n) = "rtt"
      BY <3>1, <3>2
    <3>4. n \in 1..h.xmit
      BY <3>2, <3>3 DEF Kept
    <3>. QED  BY <3>3, <3>4 DEF Rtts
  <2>. QED  BY <2>1
<1>4. Cardinality(Rtts(r)) <= Cardinality(Rtts(h))
  BY <1>3, RttsFinite, FS_Subset
<1>5. ASSUME r.xmit <= HistoryLen PROVE Rtts(r) = Rtts(h)
  <2>1. ASSUME NEW n \in Rtts(h) PROVE n \in Rtts(r)
    <3>1. n \in 1..h.xmit /\ InRing(h, n) /\ SampleOf(h, n) = "rtt"
      BY DEF Rtts
    <3>2. n \in 1..(h.xmit + 1) /\ n \in Int /\ n # h.xmit + 1
      BY <1>1, <3>1
    <3>3. InRing(r, n)
      BY <1>1, <1>5, <3>1, <3>2
    <3>. QED  BY <3>1, <3>2, <3>3 DEF Rtts
  <2>. QED  BY <1>3, <2>1
<1>6. Cardinality(Rtts(r)) \in Nat /\ Cardinality(Rtts(h)) \in Nat
  BY RttsFinite
<1>7. Agrees(r)
  <2>1. Cardinality(Rtts(h)) <= h.returned
    BY DEF Agrees
  <2>2. Cardinality(Rtts(r)) <= r.returned
    BY <1>1, <1>4, <1>6, <2>1
  <2>3. ASSUME r.xmit <= HistoryLen PROVE Cardinality(Rtts(r)) = r.returned
    BY <1>1, <1>5, <2>3 DEF Agrees
  <2>. QED  BY <2>2, <2>3 DEF Agrees
<1>. QED  BY <1>2, <1>7

\* The sample of probe n, which was not an RTT, becomes one and is counted, or is lost.
LEMMA AgreesAfterOutcome ==
    ASSUME NEW h \in HopRecords, NEW r \in HopRecords, Kept(h), Agrees(h),
           NEW n \in 1..h.xmit, InRing(h, n) => SampleOf(h, n) # "rtt",
           NEW sample \in {"rtt", "lost"}, SetsSample(r, h, n, sample),
           r.xmit = h.xmit,
           r.returned = h.returned + (IF sample = "rtt" THEN 1 ELSE 0)
    PROVE  Kept(r) /\ Agrees(r)
<1>1. /\ h.xmit \in Nat /\ h.returned \in Nat /\ n \in Int
      /\ Cardinality(Rtts(h)) \in Nat /\ IsFiniteSet(Rtts(h)) /\ n \notin Rtts(h)
  <2>1. h.xmit \in Nat /\ h.returned \in Nat /\ n \in Int
    BY DEF HopRecords
  <2>2. n \notin Rtts(h)
    BY DEF Rtts
  <2>. QED  BY <2>1, <2>2, RttsFinite
<1>2. \A m \in Int : InRing(r, m) <=> InRing(h, m)
  BY DEF SetsSample
<1>3. Kept(r)
  BY <1>2 DEF Kept
<1>4. ASSUME NEW m \in Int
      PROVE  m \in Rtts(r) <=> \/ m \in Rtts(h)
                               \/ m = n /\ InRing(h, n) /\ sample = "rtt"
  <2>1. InRing(h, m) => SampleOf(r, m) = IF m = n THEN sample ELSE SampleOf(h, m)
    BY DEF SetsSample
  <2>2. m \in Rtts(r) <=> m \in 1..h.xmit /\ InRing(h, m) /\ SampleOf(r, m) = "rtt"
    BY <1>2 DEF Rtts
  <2>3. m \in Rtts(h) <=> m \in 1..h.xmit /\ InRing(h, m) /\ SampleOf(h, m) = "rtt"
    BY DEF Rtts
  <2>4. CASE m = n
    BY <2>1, <2>2, <2>3, <2>4
  <2>5. CASE m # n
    BY <2>1, <2>2, <2>3, <2>5
  <2>. QED  BY <2>4, <2>5
<1>5. Rtts(r) \subseteq Int /\ Rtts(h) \subseteq Int
  BY DEF Rtts
<1>6. CASE sample = "rtt" /\ InRing(h, n)
  <2>1. Rtts(r) = Rtts(h) \cup {n}
    BY <1>1, <1>4, <1>5, <1>6
  <2>2. Cardinality(Rtts(r)) = Cardinality(Rtts(h)) + 1
    BY <1>1, <2>1, FS_AddElement
  <2>3. r.returned = h.returned + 1
    BY <1>6
  <2>4. Cardinality(Rtts(h)) <= h.returned
    BY DEF Agrees
  <2>5. Cardinality(Rtts(r)) <= r.returned
    BY <1>1, <2>2, <2>3, <2>4
  <2>6. r.xmit <= HistoryLen => Cardinality(Rtts(r)) = r.returned
    BY <2>2, <2>3 DEF Agrees
  <2>. QED  BY <1>3, <2>5, <2>6 DEF Agrees
<1>7. CASE ~(sample = "rtt" /\ InRing(h, n))
  <2>1. Rtts(r) = Rtts(h)
    <3>1. \A m \in Int : m \in Rtts(r) <=> m \in Rtts(h)
      BY <1>4, <1>7
    <3>. QED  BY <1>5, <3>1
  <2>2. Cardinality(Rtts(h)) <= h.returned /\ h.returned <= r.returned
    BY <1>1 DEF Agrees
  <2>3. ASSUME r.xmit <= HistoryLen PROVE Cardinality(Rtts(r)) = r.returned
    <3>1. InRing(h, n)
      BY <2>3 DEF Kept
    <3>2. r.returned = h.returned
      BY <1>1, <1>7, <3>1
    <3>. QED  BY <2>1, <2>3, <3>2 DEF Agrees
  <2>4. Cardinality(Rtts(r)) <= r.returned
    <3>1. r.returned \in Nat
      BY DEF HopRecords
    <3>. QED  BY <1>1, <2>1, <2>2, <3>1
  <2>. QED  BY <1>3, <2>3, <2>4 DEF Agrees
<1>. QED  BY <1>6, <1>7

\* Every step keeps the rings in agreement with the counts.
LEMMA TruthfulStep ==
    ASSUME IInv, RingTruthful, [Next]_vars
    PROVE  RingTruthful'
<1>1. TypeOK /\ HistoryAligned /\ TokensIdentifyProbes /\ StepKind
  BY EveryStepHasAKind DEF IInv
<1>2. hops' \in [HopIndex -> HopRecords]
  BY <1>1, RingStep
<1>3. ASSUME NEW g \in HopIndex, NEW p, NEW q, p = hops[g], q = hops'[g]
      PROVE  Kept(q) /\ Agrees(q)
  <2>1. Kept(p) /\ Agrees(p) /\ p \in HopRecords /\ q \in HopRecords
    BY <1>1, <1>2, <1>3 DEF RingTruthful, TypeOK
  <2>2. CASE p = q
    BY <2>1, <2>2
  <2>3. CASE Sends /\ g = batchAt
    <3>1. /\ q.xmit = p.xmit + 1 /\ q.returned = p.returned
          /\ InRing(q, p.xmit + 1) => SampleOf(q, p.xmit + 1) = "pending"
          /\ \A n \in Int : n # p.xmit + 1 /\ InRing(q, n) =>
                 InRing(p, n) /\ SampleOf(q, n) = SampleOf(p, n)
          /\ \A n \in 1..(p.xmit + 1) :
                 (p.xmit < HistoryLen /\ (n = p.xmit + 1 \/ InRing(p, n))) => InRing(q, n)
      BY <1>1, <1>3, <2>3, SendEffect DEF Sends
    <3>. QED  BY <2>1, <3>1, AgreesAfterSend
  <2>4. CASE Sends /\ g # batchAt
    BY <1>1, <1>3, <2>2, <2>4, SendEffect DEF Sends
  <2>5. CASE Settles
    BY <1>3, <2>1, <2>5, AgreesWithSame DEF Settles, Settled
  <2>6. CASE Reset
    BY <1>3, <2>6, AgreesWithNew DEF Reset
  <2>7. ASSUME NEW t \in Tokens, Answers(t) \/ Expires(t) \/ Fails(t)
        PROVE  Kept(q) /\ Agrees(q)
    <3>1. PICK n \in Nat : n = seqs[t].saved
      BY <1>1, SlotFacts
    <3>2. PICK sample \in {"rtt", "lost"} :
              Outcome(t, sample, IF sample = "rtt" THEN 1 ELSE 0)
      <4>1. Outcome(t, "rtt", 1) \/ Outcome(t, "lost", 0)
        BY <2>7 DEF Answers, Expires, Fails
      <4>. QED  BY <4>1
    <3>3. CASE g # seqs[t].hop
      BY <1>3, <2>2, <3>2, <3>3 DEF Outcome
    <3>4. CASE g = seqs[t].hop
      <4>1. n \in 1..p.xmit /\ (InRing(p, n) => SampleOf(p, n) # "rtt")
        BY <1>1, <1>3, <2>7, <3>1, <3>4
        DEF Answers, Expires, Fails, TokensIdentifyProbes
      <4>2. /\ q.xmit = p.xmit /\ SetsSample(q, p, n, sample)
            /\ q.returned = p.returned + (IF sample = "rtt" THEN 1 ELSE 0)
        BY <1>3, <3>1, <3>2, <3>4 DEF Outcome
      <4>. QED  BY <2>1, <4>1, <4>2, AgreesAfterOutcome
    <3>. QED  BY <3>3, <3>4
  <2>8. CASE Untouched
    BY <1>3, <2>2, <2>8 DEF Untouched
  <2>. QED  BY <1>1, <2>3, <2>4, <2>5, <2>6, <2>7, <2>8 DEF StepKind
<1>4. ASSUME NEW g \in HopIndex PROVE Kept(hops'[g]) /\ Agrees(hops'[g])
  BY <1>3
<1>. QED  BY <1>4 DEF RingTruthful

\* What the ring shows by position is what it shows by send number.
LEMMA ShownByPosition ==
    ASSUME NEW r \in HopRecords, Kept(r)
    PROVE  Cardinality({i \in DOMAIN r.samples : r.samples[i] = "rtt"}) = Cardinality(Rtts(r))
<1>. DEFINE S == {i \in DOMAIN r.samples : r.samples[i] = "rtt"}
            f == [n \in Rtts(r) |-> n - r.base + 1]
<1>1. /\ r.base \in Nat /\ r.xmit \in Nat /\ Len(r.samples) \in Nat
      /\ DOMAIN r.samples = 1..Len(r.samples)
  BY LenProperties DEF HopRecords
<1>2. \A n \in Rtts(r) : n \in Int /\ f[n] \in S
  BY <1>1 DEF Rtts, InRing, SampleOf, Index
<1>3. \A n, m \in Rtts(r) : f[n] = f[m] => n = m
  BY <1>1, <1>2
<1>4. ASSUME NEW i \in S PROVE \E n \in Rtts(r) : f[n] = i
  <2>1. PICK n \in Int : n = i + r.base - 1
    BY <1>1
  <2>2. i \in 1..Len(r.samples) /\ r.samples[i] = "rtt" /\ n - r.base + 1 = i
    BY <1>1, <2>1
  <2>3. InRing(r, n) /\ SampleOf(r, n) = "rtt"
    BY <2>2 DEF InRing, SampleOf, Index
  <2>4. n \in Rtts(r)
    BY <2>3 DEF Kept, Rtts
  <2>. QED  BY <2>2, <2>4
<1>5. f \in Bijection(Rtts(r), S)
  <2>1. f \in [Rtts(r) -> S]
    BY <1>2
  <2>. HIDE DEF f, S
  <2>. QED  BY <2>1, <1>3, <1>4, Zenon DEF Bijection, Injection, Surjection, IsInjective
<1>6. IsFiniteSet(Rtts(r))
  BY RttsFinite
<1>. QED  BY <1>5, <1>6, FS_Bijection DEF ExistsBijection

\* The Log tab and the Rcv column tell the same story, for every ring size: as many RTT
\* samples as counted replies as long as nothing was evicted, never more.
THEOREM HistorySafe == Spec => []HistoryAgreesWithStats
<1>1. Init => RingTruthful
  BY AgreesWithNew DEF Init, RingTruthful
<1>2. IInv /\ RingTruthful /\ [Next]_vars => RingTruthful'
  BY TruthfulStep
<1>3. IInv /\ RingTruthful => HistoryAgreesWithStats
  <2>1. ASSUME IInv, NEW h \in HopIndex, NEW r, r = hops[h], Kept(r), Agrees(r)
        PROVE  LET answered == Cardinality({i \in DOMAIN r.samples : r.samples[i] = "rtt"})
               IN  /\ answered <= r.returned
                   /\ r.xmit <= HistoryLen => answered = r.returned
    <3>1. r \in HopRecords
      BY <2>1 DEF IInv, TypeOK
    <3>. QED  BY <2>1, <3>1, ShownByPosition DEF Agrees
  <2>. QED  BY <2>1 DEF RingTruthful, HistoryAgreesWithStats
<1>. QED  BY <1>1, <1>2, <1>3, Invariant, PTL DEF Spec

-----------------------------------------------------------------------------
(* The grace period, and even coverage *)

\* Nothing moves the cycles once the grace period has begun.
QuietStep ==
    grace # "none" => /\ nextSeq' = nextSeq
                      /\ grace' # "none"
                      /\ numPing' = numPing

\* No step after the last cycle sends anything.
LEMMA GraceIsQuiet == [Next]_vars => QuietStep
<1>. SUFFICES ASSUME [Next]_vars, grace # "none" PROVE QuietStep
  BY DEF QuietStep
<1>1. CASE Tick
  BY <1>1 DEF Tick, SendBatch, StartGrace, Finish, QuietStep
<1>2. CASE Response
  BY <1>2 DEF Response, ReplyFrom, TimedOut, SendFailed, QuietStep
<1>3. CASE UserAction
  BY <1>3 DEF UserAction, Pause, Resume, Reset, SetFirstTtl, SetMaxTtl, QuietStep
<1>4. CASE Interrupt \/ Elapse
  BY <1>4 DEF Interrupt, Elapse, SendTimer, GraceTimer, CacheTimer, QuietStep
<1>5. CASE Ended \/ UNCHANGED vars
  BY <1>5 DEF Ended, vars, QuietStep
<1>. QED  BY <1>1, <1>2, <1>3, <1>4, <1>5 DEF Next

\* Once the grace period has begun no probe is sent and no cycle is added, and none of
\* the user's edits starts the probing again.
THEOREM GraceSafe == Spec => QuietAfterLastCycle
<1>. QED  BY GraceIsQuiet, PTL DEF Spec, QuietAfterLastCycle, QuietStep

\* The sweeps of every hop, for a table x of probes sent, first hop m and cursor b.
Sweeps(x, m, b) == [h \in HopIndex |-> x[h] - (IF m <= h /\ h < b THEN 1 ELSE 0)]

\* No hop is swept more often than the one before it, none below m is probed.
Descends(x, m, b) ==
    /\ \A h \in HopIndex : h > m => Sweeps(x, m, b)[h] <= Sweeps(x, m, b)[h - 1]
    /\ \A h \in HopIndex : h < m => x[h] = 0

\* One probe at the cursor, which moves on to the next hop or back to the first one.
LEMMA SweepsAfterSend ==
    ASSUME NEW x \in [HopIndex -> Nat], NEW y \in [HopIndex -> Nat],
           NEW m \in HopIndex, NEW at \in HopIndex, m <= at,
           \A h \in HopIndex : y[h] = IF h = at THEN x[h] + 1 ELSE x[h],
           Descends(x, m, at)
    PROVE  /\ Descends(y, m, at + 1) /\ Sweeps(y, m, at + 1)[m] = Sweeps(x, m, at)[m]
           /\ Descends(y, m, m) /\ Sweeps(y, m, m)[m] = Sweeps(x, m, at)[m] + 1
<1>1. \A h \in HopIndex : /\ h \in Int /\ x[h] \in Int
                          /\ y[h] = IF h = at THEN x[h] + 1 ELSE x[h]
  BY DEF HopIndex
<1>2. ASSUME NEW h \in HopIndex
      PROVE  /\ Sweeps(x, m, at)[h] \in Int
             /\ Sweeps(y, m, at + 1)[h] = Sweeps(x, m, at)[h]
             /\ Sweeps(y, m, m)[h] =
                    Sweeps(x, m, at)[h] + (IF m <= h /\ h <= at THEN 1 ELSE 0)
  BY <1>1 DEF Sweeps
<1>3. ASSUME NEW h \in HopIndex, h > m
      PROVE  /\ h - 1 \in HopIndex
             /\ Sweeps(x, m, at)[h] <= Sweeps(x, m, at)[h - 1]
             /\ m <= h - 1 /\ (h <= at => h - 1 <= at)
  <2>1. h - 1 \in HopIndex /\ m <= h - 1 /\ (h <= at => h - 1 <= at)
    BY <1>3, ConstantFacts DEF HopIndex
  <2>. QED  BY <1>3, <2>1 DEF Descends
<1>4. \A h \in HopIndex : h < m => y[h] = 0
  BY <1>1 DEF Descends
<1>5. ASSUME NEW h \in HopIndex, h > m
      PROVE  /\ Sweeps(y, m, at + 1)[h] <= Sweeps(y, m, at + 1)[h - 1]
             /\ Sweeps(y, m, m)[h] <= Sweeps(y, m, m)[h - 1]
  <2>1. /\ h - 1 \in HopIndex /\ h \in Int /\ at \in Int /\ m \in Int
        /\ m <= h - 1 /\ (h <= at => h - 1 <= at)
        /\ Sweeps(x, m, at)[h] \in Int /\ Sweeps(x, m, at)[h - 1] \in Int
        /\ Sweeps(x, m, at)[h] <= Sweeps(x, m, at)[h - 1]
    BY <1>1, <1>2, <1>3, <1>5
  <2>2. /\ Sweeps(y, m, at + 1)[h - 1] = Sweeps(x, m, at)[h - 1]
        /\ Sweeps(y, m, m)[h - 1] =
              Sweeps(x, m, at)[h - 1] + (IF m <= h - 1 /\ h - 1 <= at THEN 1 ELSE 0)
    BY <1>2, <2>1
  <2>3. PICK p \in Int, q \in Int :
           p = Sweeps(x, m, at)[h] /\ q = Sweeps(x, m, at)[h - 1]
    BY <2>1
  <2>4. Sweeps(y, m, at + 1)[h] = p /\ Sweeps(y, m, at + 1)[h - 1] = q
    BY <1>2, <2>2, <2>3
  <2>5. /\ Sweeps(y, m, m)[h] = p + (IF m <= h /\ h <= at THEN 1 ELSE 0)
        /\ Sweeps(y, m, m)[h - 1] = q + (IF m <= h - 1 /\ h - 1 <= at THEN 1 ELSE 0)
    BY <1>2, <2>2, <2>3
  <2>. QED  BY <2>1, <2>3, <2>4, <2>5
<1>6. /\ Sweeps(y, m, at + 1)[m] = Sweeps(x, m, at)[m]
      /\ Sweeps(y, m, m)[m] = Sweeps(x, m, at)[m] + 1
  <2>1. m <= m
    BY <1>1
  <2>. QED  BY <1>2, <2>1
<1>. QED  BY <1>4, <1>5, <1>6 DEF Descends

Xmits == [h \in HopIndex |-> hops[h].xmit]

\* A report without --cache: how often the first hop was probed, and when it stops.
Even ==
    ~cfg.interactive /\ ~cfg.cache =>
        /\ Descends(Xmits, MinHop(cfg), batchAt)
        /\ Sweeps(Xmits, MinHop(cfg), batchAt)[MinHop(cfg)] = numPing
        /\ numPing <= cfg.maxPing
        /\ numPing = cfg.maxPing => batchAt = MinHop(cfg)
        /\ grace # "none" => numPing = cfg.maxPing
        /\ status = "finished" => grace = "over"

\* At the cursor, the sweeps are even.
LEMMA EvenIsCoverage == IInv /\ Even => CoverageEven
<1>. SUFFICES ASSUME IInv, Even, ~cfg.interactive, ~cfg.cache
              PROVE  /\ FullSweeps(MinHop(cfg)) = numPing
                     /\ \A h \in HopIndex : h > MinHop(cfg) => FullSweeps(h) <= FullSweeps(h - 1)
                     /\ \A h \in HopIndex : h < MinHop(cfg) => hops[h].xmit = 0
                     /\ status = "finished" => hops[MinHop(cfg)].xmit = cfg.maxPing
  BY DEF CoverageEven
<1>1. PICK m \in HopIndex : m = MinHop(cfg)
  BY MinHopFacts DEF IInv, TypeOK
<1>2. \A h \in HopIndex : /\ FullSweeps(h) = Sweeps(Xmits, m, batchAt)[h]
                          /\ Xmits[h] = hops[h].xmit
  BY <1>1 DEF FullSweeps, Sweeps, Xmits
<1>3. \A h \in HopIndex : h > m => h - 1 \in HopIndex
  BY ConstantFacts DEF HopIndex
<1>4. status = "finished" => hops[m].xmit = cfg.maxPing
  <2>1. ASSUME status = "finished" PROVE numPing = cfg.maxPing /\ batchAt = m
    BY <1>1, <2>1 DEF Even
  <2>2. batchAt = m => Sweeps(Xmits, m, batchAt)[m] = hops[m].xmit
    <3>1. hops[m].xmit \in Int /\ m \in Int
      BY DEF IInv, TypeOK, HopRecords, HopIndex
    <3>. QED  BY <1>2, <3>1 DEF Sweeps
  <2>. QED  BY <1>1, <2>1, <2>2 DEF Even
<1>. QED  BY <1>1, <1>2, <1>3, <1>4 DEF Even, Descends

\* Only a sent probe is counted as sent, and without -i nobody resets the counters.
LEMMA XmitsStay ==
    ASSUME TypeOK, HistoryAligned,
           StartGrace \/ Finish \/ Response \/ Interrupt \/ Elapse \/ Ended \/ UNCHANGED vars
    PROVE  Xmits' = Xmits
<1>1. ASSUME \A h \in HopIndex : hops'[h].xmit = hops[h].xmit PROVE Xmits' = Xmits
  BY <1>1 DEF Xmits
<1>2. CASE UNCHANGED hops
  BY <1>2 DEF Xmits
<1>3. CASE Settled
  BY <1>1, <1>3 DEF Settled
<1>4. ASSUME NEW t, NEW sample, NEW count, Outcome(t, sample, count) PROVE Xmits' = Xmits
  <2>1. \A h \in HopIndex : hops'[h].xmit = hops[h].xmit
    BY <1>4 DEF Outcome
  <2>. QED  BY <1>1, <2>1
<1>5. CASE StartGrace \/ Ended \/ UNCHANGED vars
  BY <1>2, <1>5 DEF StartGrace, Ended, vars
<1>6. CASE Finish \/ Interrupt
  BY <1>3, <1>6, EndTransitEffect DEF Finish, Interrupt
<1>7. CASE Response
  <2>1. PICK t : \/ \E from \in Addrs, err \in {None, NoRouteHost} : ReplyFrom(t, from, err)
                 \/ TimedOut(t)
                 \/ \E err \in Errors : SendFailed(t, err)
    BY <1>7 DEF Response
  <2>. QED  BY <1>4, <2>1, ReplyEffect, TimedOutEffect, SendFailedEffect
<1>8. CASE Elapse
  BY <1>2, <1>3, <1>8, CacheTimerEffect DEF Elapse, SendTimer, GraceTimer
<1>. QED  BY <1>5, <1>6, <1>7, <1>8

\* Every step keeps the sweeps even while nobody steers.
LEMMA EvenStep ==
    ASSUME IInv, Even, [Next]_vars, ~cfg'.interactive, ~cfg'.cache
    PROVE  Even'
<1>1. TypeOK /\ HistoryAligned /\ CursorInRange /\ cfg \in ConfigRecords
  BY DEF IInv, TypeOK
<1>2. CASE UserAction
  <2>1. cfg'.interactive
    <3>1. CASE UNCHANGED cfg
      BY <1>2, <3>1 DEF UserAction, UserActs, Pause, Resume, Reset, SetFirstTtl, SetMaxTtl
    <3>2. ASSUME NEW t \in 0..(MaxHost - 1), SetFirstTtl(t) \/ SetMaxTtl(t)
          PROVE  cfg'.interactive
      BY <1>1, <3>2 DEF SetFirstTtl, SetMaxTtl, UserActs, ConfigRecords
    <3>. QED  BY <1>2, <3>1, <3>2 DEF UserAction, Pause, Resume, Reset
  <2>. QED  BY <2>1
<1>3. CASE ~UserAction
  <2>1. UNCHANGED cfg
    BY <1>3 DEF Next, Tick, SendBatch, StartGrace, Finish, Response, ReplyFrom, TimedOut,
                SendFailed, Interrupt, Elapse, SendTimer, GraceTimer, CacheTimer, Ended, vars
  <2>2. PICK m \in HopIndex : m = MinHop(cfg) /\ m = MinHop(cfg')
    BY <1>1, <2>1, MinHopFacts
  <2>3. /\ Descends(Xmits, m, batchAt) /\ Sweeps(Xmits, m, batchAt)[m] = numPing
        /\ numPing <= cfg.maxPing
        /\ numPing = cfg.maxPing => batchAt = m
        /\ grace # "none" => numPing = cfg.maxPing
        /\ status = "finished" => grace = "over"
    BY <2>1, <2>2 DEF Even
  <2>4. numPing \in Nat /\ cfg.maxPing \in Nat
    BY <1>1 DEF TypeOK, ConfigRecords
  <2>5. CASE SendBatch
    <3>1. PICK at \in HopIndex : at = batchAt
      BY <1>1 DEF TypeOK
    <3>2. PICK x \in [HopIndex -> Nat] : x = Xmits
      BY <1>1 DEF TypeOK, HopRecords, Xmits
    <3>3. SendQuery(at)
      BY <2>1, <2>5, <3>1 DEF SendBatch, CacheSkip
    <3>4. /\ \A h \in HopIndex : h # at => hops'[h] = hops[h]
          /\ hops'[at].xmit = hops[at].xmit + 1
      BY <1>1, <3>3, SendEffect
    <3>5. PICK y \in [HopIndex -> Nat] : y = Xmits' /\ y = [x EXCEPT ![at] = @ + 1]
      <4>1. Xmits' = [x EXCEPT ![at] = @ + 1]
        BY <3>2, <3>4 DEF Xmits
      <4>2. [x EXCEPT ![at] = @ + 1] \in [HopIndex -> Nat]
        OBVIOUS
      <4>. QED  BY <4>1, <4>2
    <3>6. m <= at
      BY <1>1, <2>2, <3>1 DEF CursorInRange
    <3>7. /\ Descends(y, m, at + 1) /\ Sweeps(y, m, at + 1)[m] = numPing
          /\ Descends(y, m, m) /\ Sweeps(y, m, m)[m] = numPing + 1
      <4>1. Descends(x, m, at) /\ Sweeps(x, m, at)[m] = numPing
        BY <2>3, <3>1, <3>2
      <4>2. \A h \in HopIndex : y[h] = IF h = at THEN x[h] + 1 ELSE x[h]
        BY <3>5
      <4>3. /\ Descends(y, m, at + 1) /\ Sweeps(y, m, at + 1)[m] = Sweeps(x, m, at)[m]
            /\ Descends(y, m, m) /\ Sweeps(y, m, m)[m] = Sweeps(x, m, at)[m] + 1
        BY <3>6, <4>1, <4>2, SweepsAfterSend, Zenon
      <4>. QED  BY <4>1, <4>3
    <3>8. PICK n \in Nat : n = numPing /\ n < cfg.maxPing
      BY <2>1, <2>4, <2>5 DEF SendBatch, CyclesDone
    <3>9. PICK b \in Int, k \in Nat :
             /\ b = batchAt' /\ k = numPing'
             /\ (b = m /\ k = n + 1) \/ (b = at + 1 /\ k = n)
      <4>1. (batchAt' = m /\ numPing' = n + 1) \/ (batchAt' = at + 1 /\ numPing' = n)
        BY <2>2, <2>5, <3>1, <3>8 DEF SendBatch, AdvanceBatch
      <4>2. m \in Int /\ at + 1 \in Int /\ n + 1 \in Nat
        BY DEF HopIndex
      <4>. QED  BY <4>1, <4>2
    <3>10. Descends(y, m, b) /\ Sweeps(y, m, b)[m] = k
      BY <3>7, <3>8, <3>9
    <3>11. k <= cfg.maxPing /\ (k = cfg.maxPing => b = m)
      BY <2>4, <3>8, <3>9
    <3>12. grace' = "none" /\ status' = "running"
      BY <2>5 DEF SendBatch, Ticking
    <3>13. /\ Descends(Xmits', m, batchAt') /\ Sweeps(Xmits', m, batchAt')[m] = numPing'
           /\ numPing' <= cfg'.maxPing /\ (numPing' = cfg'.maxPing => batchAt' = m)
      BY <2>1, <3>5, <3>9, <3>10, <3>11
    <3>. QED  BY <2>2, <3>12, <3>13 DEF Even
  <2>6. CASE ~SendBatch
    <3>1. Xmits' = Xmits
      BY <1>1, <1>3, <2>6, XmitsStay DEF Next, Tick
    <3>2. UNCHANGED <<batchAt, numPing>>
      BY <1>3, <2>6 DEF Next, Tick, StartGrace, Finish, Response, ReplyFrom, TimedOut,
            SendFailed, Interrupt, Elapse, SendTimer, GraceTimer, CacheTimer, Ended, vars
    <3>3. grace' # "none" => numPing = cfg.maxPing
      <4>1. StartGrace => numPing = cfg.maxPing
        BY <2>3, <2>4 DEF StartGrace, CyclesDone
      <4>2. ~StartGrace => (grace' # "none" => grace # "none")
        BY <1>3, <2>6 DEF Next, Tick, Finish, Response, ReplyFrom, TimedOut,
            SendFailed, Interrupt, Elapse, SendTimer, GraceTimer, CacheTimer, Ended, vars
      <4>. QED  BY <2>3, <4>1, <4>2
    <3>4. status' = "finished" => grace' = "over"
      BY <1>3, <2>3, <2>6 DEF Next, Tick, StartGrace, Finish, Response, ReplyFrom, TimedOut,
            SendFailed, Interrupt, Elapse, SendTimer, GraceTimer, CacheTimer, Ended, Ticking,
            vars
    <3>5. Descends(Xmits', m, batchAt') /\ Sweeps(Xmits', m, batchAt')[m] = numPing'
      BY <2>3, <3>1, <3>2
    <3>. QED  BY <2>1, <2>2, <2>3, <3>2, <3>3, <3>4, <3>5 DEF Even
  <2>. QED  BY <2>5, <2>6
<1>. QED  BY <1>2, <1>3

\* A report is even, for every path length and number of cycles: the first hop is probed
\* exactly once per cycle, no hop more often than the hop before it and none below the
\* first TTL, whatever ends the cycles; and it finishes after exactly maxPing of them.
THEOREM CoverageSafe == Spec => []CoverageEven
<1>1. Init => Even
  <2>. SUFFICES ASSUME Init PROVE Even
    OBVIOUS
  <2>1. PICK m \in HopIndex : m = MinHop(cfg) /\ cfg \in ConfigRecords
    BY EngineAssumption, MinHopFacts DEF Init
  <2>2. \A h \in HopIndex : Xmits[h] = 0
    BY NewHopType DEF Init, Xmits
  <2>3. \A h \in HopIndex : Sweeps(Xmits, m, m)[h] = 0
    BY <2>2 DEF Sweeps, HopIndex
  <2>4. Descends(Xmits, m, m)
    <3>1. \A h \in HopIndex : h > m => h - 1 \in HopIndex
      BY ConstantFacts DEF HopIndex
    <3>. QED  BY <2>2, <2>3, <3>1 DEF Descends
  <2>5. cfg.maxPing \in Nat
    BY <2>1 DEF ConfigRecords
  <2>. QED  BY <2>1, <2>3, <2>4, <2>5 DEF Init, Even
<1>2. IInv /\ Even /\ [Next]_vars => Even'
  <2>1. ASSUME cfg'.interactive \/ cfg'.cache PROVE Even'
    BY <2>1 DEF Even
  <2>. QED  BY <2>1, EvenStep
<1>3. IInv /\ Even => CoverageEven
  BY EvenIsCoverage
<1>. QED  BY <1>1, <1>2, <1>3, Invariant, PTL DEF Spec
=============================================================================
