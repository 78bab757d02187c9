---------------------------- MODULE ScreenProofs ----------------------------
(***************************************************************************)
(* Proofs about what the screen shows, of Tui for every path the engine    *)
(* may show, every height of the terminal and every key, and of HopViews   *)
(* for every size of the ring, every number of probes, every set of        *)
(* round-trip times and every width.                                       *)
(*                                                                         *)
(* For Tui the types are all of the invariant; the rest is about the rows: *)
(* those of a hop stand together, in the order of the hops, so that where  *)
(* a hop begins and ends tells which rows are its own.                     *)
(*                                                                         *)
(* The views of a hop find a probe by its position from the end of the     *)
(* ring.  What makes this right is that the ring is at all times the tail  *)
(* of the truth (Tails): as long as it can be, without a gap, each sample  *)
(* with the number, time and outcome of its probe.  The age of the chart's *)
(* window needs besides that probes are at least an interval apart         *)
(* (Spaced).                                                               *)
(***************************************************************************)
EXTENDS Tui, HopViews, SequenceTheorems, FiniteSetTheorems, NaturalsInduction,
        WellFoundedInduction, TLAPS

\* A set of numbers has a least.
LEMMA First ==
    ASSUME NEW T, T \subseteq Nat, T # {}
    PROVE  \E x \in T : \A y \in T : x <= y
<1>1. OpToRel(<, Nat) = {ss \in Nat \X Nat : ss[1] < ss[2]}
  BY DEF OpToRel
<1>2. \E x \in T : \A y \in T : <<y, x>> \notin OpToRel(<, Nat)
  BY NatLessThanWellFounded, WFMin, Zenon
<1>3. PICK x \in T : \A y \in T : <<y, x>> \notin {ss \in Nat \X Nat : ss[1] < ss[2]}
  BY <1>1, <1>2
<1>4. ASSUME NEW y \in T PROVE x <= y
  <2>1. x \in Nat /\ y \in Nat
    OBVIOUS
  <2>2. <<y, x>> \in Nat \X Nat /\ <<y, x>>[1] = y /\ <<y, x>>[2] = x
    BY <2>1
  <2>3. ~(y < x)
    BY <1>3, <2>2
  <2>. QED BY <2>1, <2>3
<1>. QED BY <1>4

\* The function FlattenSeq computes with: its k-th value is what the first k sequences make.
IsFlat(F, n, s) == F = [i \in 1..n |-> IF i = 1 THEN s[i] ELSE F[i - 1] \o s[i]]

LEMMA FlatAt ==
    ASSUME NEW n \in Nat, NEW s, NEW F, IsFlat(F, n, s), NEW i \in 1..n
    PROVE  F[i] = IF i = 1 THEN s[i] ELSE F[i - 1] \o s[i]
BY DEF IsFlat

LEMMA FlatExists ==
    ASSUME NEW n \in Nat, NEW s
    PROVE  \E F : IsFlat(F, n, s)
<1> DEFINE T == {k \in Nat : ~\E F : IsFlat(F, k, s)}
<1>1. SUFFICES ASSUME T # {} PROVE FALSE
  OBVIOUS
<1>2. PICK k \in T : \A y \in T : k <= y
  BY <1>1, First
<1>3. k \in Nat
  OBVIOUS
<1>4. CASE k = 0
  <2>1. IsFlat([i \in 1..0 |-> 0], 0, s)
    BY DEF IsFlat
  <2>. QED BY <1>4, <2>1
<1>5. CASE k # 0
  <2>1. k - 1 \in Nat /\ ~(k <= k - 1)
    BY <1>3, <1>5
  <2>2. PICK F : IsFlat(F, k - 1, s)
    BY <1>2, <2>1
  <2> DEFINE G == [i \in 1..k |-> IF i = 1 THEN s[i] ELSE F[i - 1] \o s[i]]
  <2>3. ASSUME NEW i \in 1..(k - 1) PROVE G[i] = F[i]
    <3>1. i \in 1..k
      BY <1>3
    <3>2. F[i] = IF i = 1 THEN s[i] ELSE F[i - 1] \o s[i]
      BY <2>2 DEF IsFlat
    <3>. QED BY <3>1, <3>2
  <2>4. ASSUME NEW i \in 1..k, i # 1 PROVE G[i - 1] = F[i - 1]
    <3>1. i - 1 \in 1..(k - 1)
      BY <1>3, <2>4
    <3>. QED BY <2>3, <3>1
  <2> HIDE DEF G
  <2>5. G = [i \in 1..k |-> IF i = 1 THEN s[i] ELSE G[i - 1] \o s[i]]
    <3>1. G = [i \in 1..k |-> IF i = 1 THEN s[i] ELSE F[i - 1] \o s[i]]
      BY DEF G
    <3>2. \A i \in 1..k : (IF i = 1 THEN s[i] ELSE F[i - 1] \o s[i])
                             = (IF i = 1 THEN s[i] ELSE G[i - 1] \o s[i])
      BY <2>4
    <3>. QED BY <3>1, <3>2, Zenon
  <2>. QED BY <2>5 DEF IsFlat
<1>. QED BY <1>4, <1>5

LEMMA FlattenIs ==
    ASSUME NEW n \in Nat \ {0}, NEW s, Len(s) = n
    PROVE  \E F : IsFlat(F, n, s) /\ FlattenSeq(s) = F[n]
<1> DEFINE F == CHOOSE f : IsFlat(f, n, s)
<1>1. IsFlat(F, n, s)
  BY FlatExists
<1>2. FlattenSeq(s) = F[n]
  BY Zenon DEF FlattenSeq, IsFlat
<1>. QED BY <1>1, <1>2

\* Two such functions agree as far as their sequences do.
LEMMA FlatAgree ==
    ASSUME NEW n \in Nat, NEW m \in Nat, NEW s, NEW t, NEW F, NEW G,
           IsFlat(F, n, s), IsFlat(G, m, t), n <= m, \A i \in 1..n : s[i] = t[i]
    PROVE  \A k \in 1..n : F[k] = G[k]
<1> DEFINE T == {k \in 1..n : F[k] # G[k]}
<1>1. SUFFICES ASSUME T # {} PROVE FALSE
  OBVIOUS
<1>2. T \subseteq Nat
  OBVIOUS
<1>3. PICK k \in T : \A y \in T : k <= y
  BY <1>1, <1>2, First
<1>4. k \in 1..n /\ k \in 1..m /\ F[k] # G[k]
  OBVIOUS
<1>5. F[k] = IF k = 1 THEN s[k] ELSE F[k - 1] \o s[k]
  BY <1>4 DEF IsFlat
<1>6. G[k] = IF k = 1 THEN t[k] ELSE G[k - 1] \o t[k]
  BY <1>4 DEF IsFlat
<1>7. s[k] = t[k]
  BY <1>4
<1>8. k # 1
  BY <1>4, <1>5, <1>6, <1>7
<1>9. k - 1 \in 1..n /\ ~(k <= k - 1)
  BY <1>4, <1>8
<1>10. F[k - 1] = G[k - 1]
  BY <1>3, <1>9
<1>. QED BY <1>4, <1>5, <1>6, <1>7, <1>10

Prefix(f, k) == [i \in 1..k |-> f[i]]

LEMMA PrefixLen ==
    ASSUME NEW f, NEW k \in Nat
    PROVE  Len(Prefix(f, k)) = k
BY DEF Prefix

\* Flattening, a sequence at a time.
LEMMA FlattenPrefix ==
    ASSUME NEW S, NEW n \in Nat, NEW f, \A i \in 1..n : f[i] \in Seq(S)
    PROVE  /\ FlattenSeq(Prefix(f, 0)) = <<>>
           /\ \A k \in 0..(n - 1) :
                 FlattenSeq(Prefix(f, k + 1)) = FlattenSeq(Prefix(f, k)) \o f[k + 1]
<1>1. FlattenSeq(Prefix(f, 0)) = <<>>
  <2>1. Len(Prefix(f, 0)) = 0
    BY PrefixLen
  <2>2. Prefix(f, 0) = <<>>
    BY DEF Prefix
  <2>. QED BY <2>1, <2>2 DEF FlattenSeq
<1>2. ASSUME NEW k \in 0..(n - 1)
      PROVE FlattenSeq(Prefix(f, k + 1)) = FlattenSeq(Prefix(f, k)) \o f[k + 1]
  <2>1. k \in Nat /\ k + 1 \in Nat \ {0} /\ k + 1 \in 1..n /\ f[k + 1] \in Seq(S)
    OBVIOUS
  <2>2. Len(Prefix(f, k + 1)) = k + 1 /\ Len(Prefix(f, k)) = k
    BY <2>1, PrefixLen
  <2>3. PICK F : IsFlat(F, k + 1, Prefix(f, k + 1)) /\ FlattenSeq(Prefix(f, k + 1)) = F[k + 1]
    BY <2>1, <2>2, FlattenIs
  <2>4. F[k + 1] = IF k + 1 = 1 THEN Prefix(f, k + 1)[k + 1] ELSE F[k + 1 - 1] \o Prefix(f, k + 1)[k + 1]
    BY <2>1, <2>3, FlatAt
  <2>5. Prefix(f, k + 1)[k + 1] = f[k + 1]
    BY <2>1 DEF Prefix
  <2>6. CASE k = 0
    <3>1. F[k + 1] = f[k + 1]
      BY <2>4, <2>5, <2>6
    <3>2. <<>> \o f[k + 1] = f[k + 1]
      BY <2>1, ConcatEmptySeq
    <3>. QED BY <1>1, <2>3, <2>6, <3>1, <3>2
  <2>7. CASE k # 0
    <3>1. k \in Nat \ {0} /\ k + 1 # 1 /\ k + 1 - 1 = k
      BY <2>1, <2>7
    <3>2. PICK G : IsFlat(G, k, Prefix(f, k)) /\ FlattenSeq(Prefix(f, k)) = G[k]
      BY <2>2, <3>1, FlattenIs
    <3>3. \A i \in 1..k : Prefix(f, k)[i] = Prefix(f, k + 1)[i]
      BY <2>1 DEF Prefix
    <3>4. k <= k + 1 /\ k \in 1..k
      BY <3>1
    <3>5. \A i \in 1..k : G[i] = F[i]
      BY <2>1, <2>3, <3>2, <3>3, <3>4, FlatAgree
    <3>6. G[k] = F[k]
      BY <3>4, <3>5
    <3>. QED BY <2>3, <2>4, <2>5, <3>1, <3>2, <3>6
  <2>. QED BY <2>6, <2>7
<1>. QED BY <1>1, <1>2

LEMMA FlattenType ==
    ASSUME NEW S, NEW n \in Nat, NEW f, \A i \in 1..n : f[i] \in Seq(S)
    PROVE  FlattenSeq(Prefix(f, n)) \in Seq(S)
<1> DEFINE T == {k \in 0..n : FlattenSeq(Prefix(f, k)) \notin Seq(S)}
<1>1. SUFFICES ASSUME T # {} PROVE FALSE
  OBVIOUS
<1>2. T \subseteq Nat
  OBVIOUS
<1>3. PICK k \in T : \A y \in T : k <= y
  BY <1>1, <1>2, First
<1>4. FlattenSeq(Prefix(f, 0)) \in Seq(S)
  BY FlattenPrefix, EmptySeq
<1>5. k \in 0..n /\ k # 0
  BY <1>4
<1>6. k - 1 \in 0..(n - 1) /\ k - 1 \in 0..n /\ k - 1 + 1 = k /\ k \in 1..n /\ ~(k <= k - 1)
  BY <1>5
<1>7. FlattenSeq(Prefix(f, k - 1)) \in Seq(S)
  BY <1>3, <1>6
<1>8. FlattenSeq(Prefix(f, k)) = FlattenSeq(Prefix(f, k - 1)) \o f[k]
  BY <1>6, FlattenPrefix
<1>9. FlattenSeq(Prefix(f, k)) \in Seq(S)
  BY <1>6, <1>7, <1>8, ConcatProperties
<1>. QED BY <1>9

-----------------------------------------------------------------------------
(* The rows of the table *)

RowRecords(hops) == [hop : hops, kind : {"hop", "mpls", "extra"}, addr : Nat]
ShownHops == [addrs : Seq(Nat), primary : Nat]

LEMMA HopOfRow ==
    ASSUME NEW hops, NEW row \in RowRecords(hops)
    PROVE  row.hop \in hops
BY DEF RowRecords

LEMMA LabelRowsType ==
    ASSUME NEW n \in Nat, NEW shown \in ShownHops, NEW addr \in 0..Len(shown.addrs),
           NEW mpls \in BOOLEAN
    PROVE  LabelRows(n, shown, addr, mpls) \in Seq(RowRecords({n}))
<1>1. CASE mpls /\ addr # 0
  <2>1. addr \in 1..Len(shown.addrs)
    BY <1>1
  <2>2. shown.addrs \in Seq(Nat)
    BY DEF ShownHops
  <2>3. shown.addrs[addr] \in Nat
    BY <2>1, <2>2, ElementOfSeq
  <2>4. [hop |-> n, kind |-> "mpls", addr |-> addr] \in RowRecords({n})
    BY DEF RowRecords
  <2>5. [i \in 1..shown.addrs[addr] |-> [hop |-> n, kind |-> "mpls", addr |-> addr]]
           \in Seq(RowRecords({n}))
    BY <2>3, <2>4, SeqDef
  <2>. QED BY <1>1, <2>5 DEF LabelRows
<1>2. CASE ~(mpls /\ addr # 0)
  BY <1>2, EmptySeq DEF LabelRows
<1>. QED BY <1>1, <1>2

LEMMA ExtrasType ==
    ASSUME NEW shown \in ShownHops, shown.primary <= Len(shown.addrs)
    PROVE  \E m \in Nat : /\ DOMAIN Extras(shown) = 1..m
                          /\ \A i \in 1..m : Extras(shown)[i] \in 1..Len(shown.addrs)
<1> DEFINE N == Len(shown.addrs)
           p == shown.primary
           others == N - (IF p = 0 THEN 0 ELSE 1)
           m == AtMost(others, MaxDisplayPath - 1)
<1>1. N \in Nat /\ p \in Nat /\ p <= N
  BY LenProperties DEF ShownHops
<1>2. MaxDisplayPath - 1 \in Nat
  BY TuiAssumption
<1>3. others \in Nat
  BY <1>1
<1>4. m \in Nat /\ m <= others
  <2> HIDE DEF others
  <2>. QED BY <1>2, <1>3 DEF AtMost
<1>5. Extras(shown) = [i \in 1..m |-> IF p # 0 /\ i >= p THEN i + 1 ELSE i]
  BY DEF Extras
<1> HIDE DEF m, N, p
<1>6. ASSUME NEW i \in 1..m
      PROVE (IF p # 0 /\ i >= p THEN i + 1 ELSE i) \in 1..N
  BY <1>1, <1>4
<1>7. DOMAIN Extras(shown) = 1..m /\ \A i \in 1..m : Extras(shown)[i] \in 1..N
  BY <1>5, <1>6
<1>8. DOMAIN Extras(shown) = 1..m /\ \A i \in 1..m : Extras(shown)[i] \in 1..Len(shown.addrs)
  BY <1>7 DEF N
<1>. QED BY <1>4, <1>8, Zenon

LEMMA HopRowsType ==
    ASSUME NEW n \in Nat, NEW shown \in ShownHops, shown.primary <= Len(shown.addrs),
           NEW mpls \in BOOLEAN
    PROVE  /\ HopRows(n, shown, mpls) \in Seq(RowRecords({n}))
           /\ Len(HopRows(n, shown, mpls)) >= 1
<1> DEFINE S == RowRecords({n})
           own == << [hop |-> n, kind |-> "hop", addr |-> 0] >>
           labels == LabelRows(n, shown, shown.primary, mpls)
           f == [i \in DOMAIN Extras(shown) |->
                  << [hop |-> n, kind |-> "extra", addr |-> Extras(shown)[i]] >>
                      \o LabelRows(n, shown, Extras(shown)[i], mpls)]
<1>1. PICK m \in Nat : /\ DOMAIN Extras(shown) = 1..m
                       /\ \A i \in 1..m : Extras(shown)[i] \in 1..Len(shown.addrs)
  BY ExtrasType
<1>2. Len(shown.addrs) \in Nat /\ shown.primary \in 0..Len(shown.addrs)
  BY LenProperties DEF ShownHops
<1>3. ASSUME NEW i \in 1..m PROVE f[i] \in Seq(S)
  <2> DEFINE a == Extras(shown)[i]
             row == [hop |-> n, kind |-> "extra", addr |-> a]
  <2>1. a \in 1..Len(shown.addrs) /\ a \in 0..Len(shown.addrs) /\ a \in Nat
    BY <1>1, <1>2
  <2>2. row \in S
    BY <2>1 DEF RowRecords
  <2>3. LabelRows(n, shown, a, mpls) \in Seq(S)
    BY <2>1, LabelRowsType
  <2>4. << row >> \in Seq(S)
    BY <2>2
  <2>5. << row >> \o LabelRows(n, shown, a, mpls) \in Seq(S)
    BY <2>3, <2>4, ConcatProperties
  <2>6. f[i] = << row >> \o LabelRows(n, shown, a, mpls)
    BY <1>1
  <2>. QED BY <2>5, <2>6
<1> DEFINE more == FlattenSeq(f)
<1>4. f = Prefix(f, m)
  BY <1>1 DEF Prefix
<1>5. more \in Seq(S)
  <2> HIDE DEF f, S
  <2>. QED BY <1>3, <1>4, FlattenType
<1>6. own \in Seq(S) /\ Len(own) = 1
  <2>1. [hop |-> n, kind |-> "hop", addr |-> 0] \in S
    BY DEF RowRecords
  <2>. QED BY <2>1
<1>7. labels \in Seq(S)
  BY <1>2, LabelRowsType
<1>8. HopRows(n, shown, mpls) = own \o labels \o more
  BY DEF HopRows
<1> HIDE DEF own, labels, more, S, f
<1>9. own \o labels \in Seq(S) /\ Len(own \o labels) = 1 + Len(labels) /\ Len(labels) \in Nat
  BY <1>6, <1>7, ConcatProperties, LenProperties
<1>10. /\ own \o labels \o more \in Seq(S)
       /\ Len(own \o labels \o more) = Len(own \o labels) + Len(more) /\ Len(more) \in Nat
  BY <1>5, <1>9, ConcatProperties, LenProperties
<1>. QED BY <1>8, <1>9, <1>10 DEF S

\* The hops from lo to hi - 1 each have rows, in their order.
InOrder(rows, lo, hi) ==
    /\ rows \in Seq(RowRecords(lo..(hi - 1)))
    /\ \A i, j \in 1..Len(rows) : i <= j => rows[i].hop <= rows[j].hop
    /\ \A h \in lo..(hi - 1) : \E i \in 1..Len(rows) : rows[i].hop = h

LEMMA OneMoreHop ==
    ASSUME NEW lo \in Nat, NEW hi \in Nat, lo <= hi, NEW rows, InOrder(rows, lo, hi),
           NEW more \in Seq(RowRecords({hi})), Len(more) >= 1
    PROVE  InOrder(rows \o more, lo, hi + 1)
<1> DEFINE S == RowRecords(lo..hi)
           all == rows \o more
           L == Len(rows)
           M == Len(more)
<1>1. rows \in Seq(RowRecords(lo..(hi - 1))) /\ L \in Nat /\ M \in Nat /\ M >= 1
  BY LenProperties DEF InOrder
<1>2. RowRecords(lo..(hi - 1)) \subseteq S /\ RowRecords({hi}) \subseteq S
  BY DEF RowRecords
<1>3. rows \in Seq(S) /\ more \in Seq(S)
  BY <1>1, <1>2, SeqMonotonic
<1>4. /\ all \in Seq(S) /\ Len(all) = L + M
      /\ \A i \in 1..(L + M) : all[i] = IF i <= L THEN rows[i] ELSE more[i - L]
  BY <1>3, ConcatProperties
<1>5. ASSUME NEW i \in 1..L PROVE rows[i].hop \in lo..(hi - 1)
  BY <1>1, ElementOfSeq, HopOfRow
<1>6. ASSUME NEW i \in 1..M PROVE more[i].hop = hi
  <2>1. more[i].hop \in {hi}
    BY ElementOfSeq, HopOfRow
  <2>. QED BY <2>1
<1>7. \A i \in 1..(L + M) : /\ i <= L => i \in 1..L /\ all[i] = rows[i]
                            /\ ~(i <= L) => i - L \in 1..M /\ all[i] = more[i - L]
  BY <1>1, <1>4
<1>8. hi + 1 - 1 = hi
  OBVIOUS
<1>9. \A i, j \in 1..L : i <= j => rows[i].hop <= rows[j].hop
  BY DEF InOrder
<1>10. \A h \in lo..(hi - 1) : \E i \in 1..L : rows[i].hop = h
  BY DEF InOrder
<1> HIDE DEF all, L, M, S
<1>11. ASSUME NEW a \in 1..(L + M), NEW b \in 1..(L + M), a <= b
       PROVE all[a].hop <= all[b].hop
  <2>1. CASE b <= L
    <3>1. a <= L
      BY <1>1, <1>11, <2>1
    <3>. QED BY <1>7, <1>9, <1>11, <2>1, <3>1
  <2>2. CASE ~(b <= L)
    <3>1. all[b].hop = hi
      BY <1>6, <1>7, <2>2
    <3>2. CASE a <= L
      <4>1. all[a].hop \in lo..(hi - 1)
        BY <1>5, <1>7, <3>2
      <4>. QED BY <3>1, <4>1
    <3>3. CASE ~(a <= L)
      <4>1. all[a].hop = hi
        BY <1>6, <1>7, <3>3
      <4>. QED BY <3>1, <4>1
    <3>. QED BY <3>2, <3>3
  <2>. QED BY <2>1, <2>2
<1>12. ASSUME NEW h \in lo..hi
       PROVE \E k \in 1..(L + M) : all[k].hop = h
  <2>1. CASE h = hi
    <3>1. L + 1 \in 1..(L + M) /\ ~(L + 1 <= L)
      BY <1>1
    <3>2. all[L + 1].hop = hi
      BY <1>6, <1>7, <3>1
    <3>. QED BY <2>1, <3>1, <3>2
  <2>2. CASE h # hi
    <3>1. h \in lo..(hi - 1)
      BY <2>2
    <3>2. PICK k \in 1..L : rows[k].hop = h
      BY <1>10, <3>1
    <3>3. k \in 1..(L + M) /\ k <= L
      BY <1>1
    <3>. QED BY <1>7, <3>2, <3>3
  <2>. QED BY <2>1, <2>2
<1>13. all \in Seq(RowRecords(lo..(hi + 1 - 1)))
  BY <1>4, <1>8 DEF S
<1>14. \A i, j \in 1..Len(all) : i <= j => all[i].hop <= all[j].hop
  BY <1>4, <1>11
<1>15. \A h \in lo..(hi + 1 - 1) : \E i \in 1..Len(all) : all[i].hop = h
  BY <1>4, <1>8, <1>12
<1>16. InOrder(all, lo, hi + 1)
  <2> HIDE DEF all
  <2>. QED BY <1>13, <1>14, <1>15 DEF InOrder
<1>. QED BY <1>16 DEF all

LEMMA RowsInOrder ==
    ASSUME NEW d \in Displays
    PROVE  /\ Len(d.hops) \in Nat
           /\ InOrder(RowsOf[d], d.lo, d.lo + Len(d.hops))
<1> DEFINE H == Len(d.hops)
           f == [n \in DOMAIN d.hops |-> HopRows(d.lo + n - 1, d.hops[n], d.mpls)]
           T == {k \in 0..H : ~InOrder(FlattenSeq(Prefix(f, k)), d.lo, d.lo + k)}
<1>1. /\ d.lo \in Nat /\ d.mpls \in BOOLEAN /\ d.hops \in Seq(ShownHops)
      /\ \A n \in DOMAIN d.hops : d.hops[n].primary <= Len(d.hops[n].addrs)
  BY TuiAssumption DEF ShownHops
<1>2. H \in Nat /\ DOMAIN d.hops = 1..H
  BY <1>1, LenProperties
<1>3. ASSUME NEW n \in 1..H
      PROVE /\ f[n] \in Seq(RowRecords({d.lo + n - 1}))
            /\ Len(f[n]) >= 1
            /\ f[n] \in Seq(RowRecords(Nat))
  <2>1. d.lo + n - 1 \in Nat
    BY <1>1, <1>2
  <2>2. d.hops[n] \in ShownHops /\ d.hops[n].primary <= Len(d.hops[n].addrs)
    BY <1>1, <1>2, ElementOfSeq
  <2>3. f[n] = HopRows(d.lo + n - 1, d.hops[n], d.mpls)
    BY <1>2
  <2>4. /\ f[n] \in Seq(RowRecords({d.lo + n - 1}))
        /\ Len(f[n]) >= 1
    BY <1>1, <2>1, <2>2, <2>3, HopRowsType
  <2>5. RowRecords({d.lo + n - 1}) \subseteq RowRecords(Nat)
    BY <2>1 DEF RowRecords
  <2>. QED BY <2>4, <2>5, SeqMonotonic
<1>4. RowsOf[d] = FlattenSeq(Prefix(f, H))
  BY <1>2 DEF RowsOf, Prefix
<1> HIDE DEF f, H
<1>5. InOrder(FlattenSeq(Prefix(f, 0)), d.lo, d.lo + 0)
  <2>1. FlattenSeq(Prefix(f, 0)) = <<>>
    BY <1>2, <1>3, FlattenPrefix
  <2>2. d.lo + 0 = d.lo /\ d.lo..(d.lo - 1) = {}
    BY <1>1
  <2>3. <<>> \in Seq(RowRecords(d.lo..(d.lo - 1))) /\ 1..Len(<<>>) = {}
    BY EmptySeq
  <2>4. InOrder(<<>>, d.lo, d.lo)
    BY <2>2, <2>3, Zenon DEF InOrder
  <2>. QED BY <2>1, <2>2, <2>4
<1>6. T = {}
  <2>1. SUFFICES ASSUME T # {} PROVE FALSE
    OBVIOUS
  <2>2. T \subseteq Nat
    OBVIOUS
  <2>3. PICK k \in T : \A y \in T : k <= y
    BY <2>1, <2>2, First
  <2>4. k \in 0..H /\ k # 0
    BY <1>5
  <2>5. /\ k - 1 \in 0..(H - 1) /\ k - 1 \in 0..H /\ k - 1 + 1 = k /\ k \in 1..H
        /\ ~(k <= k - 1)
    BY <1>2, <2>4
  <2>6. InOrder(FlattenSeq(Prefix(f, k - 1)), d.lo, d.lo + (k - 1))
    BY <2>3, <2>5
  <2>7. FlattenSeq(Prefix(f, k)) = FlattenSeq(Prefix(f, k - 1)) \o f[k]
    BY <1>2, <1>3, <2>5, FlattenPrefix
  <2> DEFINE hi == d.lo + (k - 1)
  <2>8. hi \in Nat /\ d.lo <= hi /\ hi + 1 = d.lo + k /\ hi = d.lo + k - 1
    BY <1>1, <2>5
  <2>9. f[k] \in Seq(RowRecords({hi})) /\ Len(f[k]) >= 1
    BY <1>3, <2>5, <2>8
  <2> HIDE DEF hi
  <2>10. InOrder(FlattenSeq(Prefix(f, k - 1)) \o f[k], d.lo, hi + 1)
    BY <1>1, <2>6, <2>8, <2>9, OneMoreHop DEF hi
  <2>11. InOrder(FlattenSeq(Prefix(f, k)), d.lo, d.lo + k)
    BY <2>7, <2>8, <2>10
  <2>. QED BY <2>4, <2>11
<1>7. InOrder(FlattenSeq(Prefix(f, H)), d.lo, d.lo + H)
  BY <1>2, <1>6
<1>. QED BY <1>2, <1>4, <1>7 DEF H

\* The rows before a hop's first are those of the hops before it.
LEMMA PositionSplits ==
    ASSUME NEW lo \in Nat, NEW hi \in Nat, NEW rows, InOrder(rows, lo, hi), NEW h \in lo..hi
    PROVE  /\ Len(rows) \in Nat
           /\ Position(rows, h) \in 0..Len(rows)
           /\ \A i \in 1..Len(rows) : /\ rows[i].hop \in lo..(hi - 1)
                                      /\ i <= Position(rows, h) <=> rows[i].hop < h
<1> DEFINE L == Len(rows)
           its == {i \in 1..L : rows[i].hop = h}
           p == Position(rows, h)
<1>1. L \in Nat /\ DOMAIN rows = 1..L /\ rows \in Seq(RowRecords(lo..(hi - 1)))
  BY LenProperties DEF InOrder
<1>2. ASSUME NEW i \in 1..L PROVE rows[i].hop \in lo..(hi - 1)
  BY <1>1, ElementOfSeq, HopOfRow
<1>3. \A i, j \in 1..L : i <= j => rows[i].hop <= rows[j].hop
  BY DEF InOrder
<1>4. \A g \in lo..(hi - 1) : \E i \in 1..L : rows[i].hop = g
  BY DEF InOrder
<1>5. p = IF its = {} THEN L ELSE (CHOOSE i \in its : \A j \in its : i <= j) - 1
  BY <1>1 DEF Position
<1> HIDE DEF L, p
<1>6. CASE its = {}
  <2>1. ~(h \in lo..(hi - 1))
    BY <1>4, <1>6
  <2>2. h = hi
    BY <2>1
  <2>3. p = L
    BY <1>5, <1>6
  <2>4. ASSUME NEW i \in 1..L PROVE i <= p <=> rows[i].hop < h
    <3>1. rows[i].hop \in lo..(hi - 1)
      BY <1>2
    <3>. QED BY <1>1, <2>2, <2>3, <3>1
  <2>. QED BY <1>1, <1>2, <2>3, <2>4 DEF L, p
<1>7. CASE its # {}
  <2> DEFINE k == CHOOSE i \in its : \A j \in its : i <= j
  <2>1. \E i \in its : \A j \in its : i <= j
    <3>1. its \subseteq Nat
      BY <1>1
    <3> HIDE DEF its
    <3>. QED BY <1>7, <3>1, First
  <2>2. k \in its /\ \A j \in its : k <= j
    <3> HIDE DEF its
    <3>. QED BY <2>1
  <2>3. k \in 1..L /\ rows[k].hop = h
    BY <2>2
  <2>4. p = k - 1
    BY <1>5, <1>7
  <2>5. \A j \in 1..L : rows[j].hop = h => k <= j
    BY <2>2
  <2> HIDE DEF k, its
  <2>6. ASSUME NEW i \in 1..L PROVE i <= p <=> rows[i].hop < h
    <3>1. rows[i].hop \in Nat /\ h \in Nat
      BY <1>2
    <3>2. CASE i <= p
      <4>1. i <= k /\ ~(k <= i)
        BY <2>3, <2>4, <3>2
      <4>2. rows[i].hop <= rows[k].hop
        BY <1>3, <2>3, <4>1
      <4>3. rows[i].hop # h
        BY <2>5, <4>1
      <4>. QED BY <2>3, <3>1, <3>2, <4>2, <4>3
    <3>3. CASE ~(i <= p)
      <4>1. k <= i
        BY <2>3, <2>4, <3>3
      <4>2. rows[k].hop <= rows[i].hop
        BY <1>3, <2>3, <4>1
      <4>. QED BY <2>3, <3>1, <3>3, <4>2
    <3>. QED BY <3>2, <3>3
  <2>7. p \in 0..L
    BY <1>1, <2>3, <2>4
  <2>. QED BY <1>1, <1>2, <2>6, <2>7 DEF L, p
<1>. QED BY <1>6, <1>7

\* Each hop's rows stand together, in the order of the hops.
LEMMA Geometry ==
    ASSUME display \in Displays
    PROVE  /\ Len(Rows) \in Nat /\ Lo \in Nat /\ Hi \in Nat /\ Lo <= Hi
           /\ Rows \in Seq(RowRecords(Nat))
           /\ Hi = Lo => Len(Rows) = 0
           /\ \A h \in Lo..(Hi - 1) :
                /\ FirstRow(h) \in Nat /\ EndRow(h) \in Nat
                /\ FirstRow(h) < EndRow(h) /\ EndRow(h) <= Len(Rows)
                /\ \A r \in 0..(Len(Rows) - 1) :
                      /\ r < FirstRow(h) <=> Rows[r + 1].hop < h
                      /\ r < EndRow(h) <=> Rows[r + 1].hop <= h
           /\ \A r \in 0..(Len(Rows) - 1) : Rows[r + 1].hop \in Lo..(Hi - 1)
<1> DEFINE H == Len(display.hops)
           L == Len(Rows)
<1>1. H \in Nat /\ Hi = Lo + H /\ InOrder(Rows, Lo, Hi) /\ Lo \in Nat
  BY RowsInOrder, TuiAssumption DEF Rows, Hi, Lo
<1>2. Hi \in Nat /\ Lo <= Hi /\ Lo \in Lo..Hi
  BY <1>1
<1>3. /\ L \in Nat
      /\ \A i \in 1..L : Rows[i].hop \in Lo..(Hi - 1)
  BY <1>1, <1>2, PositionSplits
<1>4. Rows \in Seq(RowRecords(Nat))
  <2>1. Rows \in Seq(RowRecords(Lo..(Hi - 1)))
    BY <1>1 DEF InOrder
  <2>2. RowRecords(Lo..(Hi - 1)) \subseteq RowRecords(Nat)
    BY <1>1 DEF RowRecords
  <2>. QED BY <2>1, <2>2, SeqMonotonic
<1>5. \A h \in Lo..Hi : RowStart(h - Lo + 1) = Position(Rows, h)
  <2>1. RowStarts = [i \in 1..(H + 1) |-> Position(Rows, Lo + i - 1)]
    BY DEF RowStarts, RowStartsOf, Rows, Lo
  <2>2. ASSUME NEW h \in Lo..Hi PROVE h - Lo + 1 \in 1..(H + 1) /\ Lo + (h - Lo + 1) - 1 = h
    <3> HIDE DEF H
    <3>. QED BY <1>1
  <2> HIDE DEF H
  <2>. QED BY <2>1, <2>2 DEF RowStart
<1> HIDE DEF H
<1>6. ASSUME NEW h \in Lo..(Hi - 1)
      PROVE FirstRow(h) = Position(Rows, h) /\ EndRow(h) = Position(Rows, h + 1)
  <2>1. h \in Lo..Hi /\ h + 1 \in Lo..Hi /\ ~(h < Lo) /\ (h + 1) - Lo + 1 = h - Lo + 2
    BY <1>1, <1>2
  <2>2. ~(h < Lo) /\ h - Lo + 2 = (h + 1) - Lo + 1
    BY <2>1
  <2>3. FirstRow(h) = RowStart(h - Lo + 1) /\ EndRow(h) = RowStart(h - Lo + 2)
    BY <2>2 DEF FirstRow, EndRow
  <2>4. FirstRow(h) = Position(Rows, h)
    BY <1>5, <2>1, <2>3
  <2>5. EndRow(h) = RowStart((h + 1) - Lo + 1)
    BY <2>2, <2>3
  <2>6. RowStart((h + 1) - Lo + 1) = Position(Rows, h + 1)
    BY <1>5, <2>1, Zenon
  <2>. QED BY <2>4, <2>5, <2>6
<1>7. Hi = Lo => L = 0
  <2>1. SUFFICES ASSUME Hi = Lo, L # 0 PROVE FALSE
    OBVIOUS
  <2>2. 1 \in 1..L
    BY <1>3, <2>1
  <2>3. Rows[1].hop \in Lo..(Hi - 1)
    BY <1>3, <2>2
  <2>. QED BY <1>1, <2>1, <2>3
<1>8. ASSUME NEW r \in 0..(L - 1) PROVE r + 1 \in 1..L /\ Rows[r + 1].hop \in Lo..(Hi - 1)
  BY <1>3
<1> HIDE DEF L
<1>9. ASSUME NEW h \in Lo..(Hi - 1)
      PROVE /\ FirstRow(h) \in Nat /\ EndRow(h) \in Nat
            /\ FirstRow(h) < EndRow(h) /\ EndRow(h) <= L
            /\ \A r \in 0..(L - 1) :
                  /\ r < FirstRow(h) <=> Rows[r + 1].hop < h
                  /\ r < EndRow(h) <=> Rows[r + 1].hop <= h
  <2> DEFINE f == FirstRow(h)
             e == EndRow(h)
  <2>1. h \in Lo..Hi /\ h + 1 \in Lo..Hi /\ h \in Nat
    BY <1>1, <1>2
  <2>2. f \in 0..L /\ \A i \in 1..L : i <= f <=> Rows[i].hop < h
    BY <1>1, <1>2, <1>6, <2>1, PositionSplits DEF L
  <2>3. e \in 0..L /\ \A i \in 1..L : i <= e <=> Rows[i].hop < h + 1
    BY <1>1, <1>2, <1>6, <2>1, PositionSplits DEF L
  <2>4. PICK i \in 1..L : Rows[i].hop = h
    BY <1>1 DEF InOrder, L
  <2> HIDE DEF f, e
  <2>5. ~(i <= f) /\ i <= e
    BY <2>1, <2>2, <2>3, <2>4
  <2>6. f < e /\ e <= L /\ f \in Nat /\ e \in Nat
    BY <1>3, <2>2, <2>3, <2>5
  <2>7. ASSUME NEW r \in 0..(L - 1)
        PROVE /\ r < f <=> Rows[r + 1].hop < h
              /\ r < e <=> Rows[r + 1].hop <= h
    <3>1. r + 1 \in 1..L /\ Rows[r + 1].hop \in Nat
      BY <1>1, <1>8
    <3>2. r + 1 <= f <=> Rows[r + 1].hop < h
      BY <2>2, <3>1
    <3>3. r + 1 <= e <=> Rows[r + 1].hop < h + 1
      BY <2>3, <3>1
    <3>4. (r + 1 <= f <=> r < f) /\ (r + 1 <= e <=> r < e)
      BY <2>6
    <3>5. Rows[r + 1].hop < h + 1 <=> Rows[r + 1].hop <= h
      BY <2>1, <3>1
    <3>. QED BY <3>2, <3>3, <3>4, <3>5
  <2>. QED BY <2>6, <2>7 DEF f, e
<1>. QED BY <1>1, <1>2, <1>3, <1>4, <1>7, <1>8, <1>9 DEF L

-----------------------------------------------------------------------------
(* The view *)

Views ==
    [ selected : Nat, scroll : Nat, paneOpen : BOOLEAN, tab : {"Rtt", "Addresses", "Log"},
      help : BOOLEAN, prompt : {None} \cup [kind : {"Fields", "MaxTtl"}, len : Nat],
      status : BOOLEAN, quit : {None, "Quit", "CtrlC"} ]

LEMMA MaxScrollIs ==
    ASSUME display \in Displays, NEW n \in Nat
    PROVE  /\ MaxScroll(n) \in Nat
           /\ n <= Len(Rows) => MaxScroll(n) = Len(Rows) - n
           /\ Len(Rows) <= n => MaxScroll(n) = 0
<1>1. Len(Rows) \in Nat
  BY Geometry
<1> DEFINE L == Len(Rows)
<1> HIDE DEF L
<1>2. MaxScroll(n) = IF L - n < 0 THEN 0 ELSE L - n
  BY DEF MaxScroll, AtLeast, L
<1>3. L \in Nat
  BY <1>1 DEF L
<1>. QED BY <1>2, <1>3 DEF L

\* What clamp leaves: a selection in the range, an offset that fills the screen, and a row of
\* the hop selected in view.
Shows(view, rows) ==
    /\ view.selected \in Lo..(Hi - 1)
    /\ view.scroll \in 0..MaxScroll(rows)
    /\ FirstRow(view.selected) < view.scroll + rows
    /\ view.scroll < EndRow(view.selected)

Top(view, rows) == AtMost(view.scroll, MaxScroll(rows))

\* The offset follows a selection out of view, and is the one there was otherwise.
Follows(selected, scroll, top, rows) ==
    \/ top + rows <= FirstRow(selected) /\ top < scroll
    \/ EndRow(selected) <= top /\ scroll < top
    \/ FirstRow(selected) < top + rows /\ top < EndRow(selected) /\ scroll = top

LEMMA ClampIs ==
    ASSUME display \in Displays, NEW view \in Views, NEW visible \in Nat
    PROVE  LET c    == Clamp(view, visible)
               rows == AtLeast(visible, 1)
           IN  /\ c \in Views /\ c.paneOpen = view.paneOpen /\ c.quit = view.quit
               /\ Hi > Lo => /\ Shows(c, rows)
                             /\ c.selected = AtMost(AtLeast(view.selected, Lo), Hi - 1)
                             /\ Follows(c.selected, c.scroll, Top(view, rows), rows)
               /\ Hi <= Lo => c.scroll = 0
<1> DEFINE sel  == IF Hi > Lo THEN AtMost(AtLeast(view.selected, Lo), Hi - 1) ELSE Lo
           rows == AtLeast(visible, 1)
           M    == MaxScroll(rows)
           top  == Top(view, rows)
           f    == FirstRow(sel)
           e    == EndRow(sel)
           to   == IF f >= top + rows THEN AtLeast(f + 1 - rows, 0)
                   ELSE IF e <= top THEN f ELSE top
           scr  == IF Hi <= Lo THEN 0 ELSE AtMost(to, M)
           c    == Clamp(view, visible)
<1>1. c = [view EXCEPT !.selected = sel, !.scroll = scr]
  BY DEF Clamp, Top
<1>2. view.selected \in Nat /\ view.scroll \in Nat
  BY DEF Views
<1>3. Lo \in Nat /\ Hi \in Nat /\ Lo <= Hi /\ Len(Rows) \in Nat
  BY Geometry
<1>4. rows \in Nat /\ rows >= 1
  BY DEF AtLeast
<1>5. /\ M \in Nat
      /\ rows <= Len(Rows) => M = Len(Rows) - rows
      /\ Len(Rows) <= rows => M = 0
  <2> HIDE DEF rows
  <2>. QED BY <1>4, MaxScrollIs
<1>6. sel \in Nat /\ (Hi > Lo => sel \in Lo..(Hi - 1))
  BY <1>2, <1>3 DEF AtMost, AtLeast
<1>7. Hi > Lo => f \in Nat /\ e \in Nat /\ f < e /\ e <= Len(Rows)
  <2> HIDE DEF sel
  <2>. QED BY <1>6, Geometry
<1> DEFINE L == Len(Rows)
<1> HIDE DEF L, rows, M, f, e, sel
<1>8. top \in Nat /\ top <= M
  BY <1>2, <1>5 DEF AtMost, Top, M
<1>9. ASSUME Hi > Lo
      PROVE /\ scr \in 0..M /\ f < scr + rows /\ scr < e
            /\ \/ top + rows <= f /\ top < scr
               \/ e <= top /\ scr < top
               \/ f < top + rows /\ top < e /\ scr = top
  <2>1. f \in Nat /\ e \in Nat /\ f < e /\ e <= L /\ L \in Nat
    BY <1>3, <1>7, <1>9 DEF L
  <2>2. M \in Nat /\ (rows <= L => M = L - rows) /\ (L <= rows => M = 0)
    BY <1>5 DEF L
  <2>3. scr = AtMost(to, M)
    BY <1>3, <1>9
  <2> HIDE DEF top
  <2>4. CASE f >= top + rows
    <3>1. to = f + 1 - rows
      BY <1>4, <1>8, <2>1, <2>4 DEF AtLeast
    <3>2. to <= M /\ to \in Nat
      BY <1>4, <1>8, <2>1, <2>2, <2>4, <3>1
    <3>3. scr = to
      BY <2>2, <2>3, <3>2 DEF AtMost
    <3> HIDE DEF to, scr
    <3>. QED BY <1>4, <1>8, <2>1, <2>4, <3>1, <3>2, <3>3
  <2>5. CASE ~(f >= top + rows) /\ e <= top
    <3>1. to = f
      BY <2>5
    <3>2. to <= M /\ to \in Nat
      BY <1>4, <1>8, <2>1, <2>2, <2>5, <3>1
    <3>3. scr = to
      BY <2>2, <2>3, <3>2 DEF AtMost
    <3> HIDE DEF to, scr
    <3>. QED BY <1>4, <1>8, <2>1, <2>5, <3>1, <3>2, <3>3
  <2>6. CASE ~(f >= top + rows) /\ ~(e <= top)
    <3>1. to = top
      BY <2>6
    <3>2. scr = top
      BY <1>8, <2>2, <2>3, <3>1 DEF AtMost
    <3> HIDE DEF to, scr
    <3>. QED BY <1>4, <1>8, <2>1, <2>6, <3>1, <3>2
  <2>. QED BY <2>4, <2>5, <2>6
<1>10. scr \in Nat
  <2>1. CASE Hi > Lo
    <3> HIDE DEF scr
    <3>. QED BY <1>5, <1>9, <2>1
  <2>2. CASE ~(Hi > Lo)
    BY <1>3, <2>2
  <2>. QED BY <2>1, <2>2
<1>11. Hi <= Lo => scr = 0
  OBVIOUS
<1> HIDE DEF scr, top
<1>12. /\ c \in Views /\ c.selected = sel /\ c.scroll = scr
       /\ c.paneOpen = view.paneOpen /\ c.quit = view.quit
  <2> HIDE DEF c
  <2>. QED BY <1>1, <1>6, <1>10 DEF Views
<1>13. Hi > Lo => Shows(c, rows)
  <2> HIDE DEF c
  <2>. QED BY <1>6, <1>9, <1>12 DEF Shows, f, e, M
<1>14. Hi > Lo => sel = AtMost(AtLeast(view.selected, Lo), Hi - 1)
  BY DEF sel
<1> HIDE DEF c
<1>15. Hi > Lo => Follows(sel, scr, top, rows)
  BY <1>9 DEF f, e, Follows
<1>. QED BY <1>11, <1>12, <1>13, <1>14, <1>15 DEF c, rows, top

LEMMA CapacityIs ==
    ASSUME height \in Heights, NEW view \in Views
    PROVE  Capacity(view) \in Nat /\ (height >= MinHeight => Capacity(view) >= 1)
<1>1. /\ height \in Nat /\ height >= 3 /\ DetailRows \in Nat
      /\ MinHeight >= 4 /\ PaneMinHeight >= DetailRows + 4
  BY TuiAssumption
<1>2. CASE PaneShown(view)
  <2>1. height >= PaneMinHeight
    BY <1>2 DEF PaneShown
  <2>2. Capacity(view) = height - 3 - DetailRows
    BY <1>2 DEF Capacity
  <2>3. PaneMinHeight \in Int /\ MinHeight \in Int
    BY TuiAssumption
  <2>. QED BY <1>1, <2>1, <2>2, <2>3
<1>3. CASE ~PaneShown(view)
  <2>1. Capacity(view) = height - 3 - 0
    BY <1>3 DEF Capacity
  <2>2. MinHeight \in Int
    BY TuiAssumption
  <2>. QED BY <1>1, <2>1, <2>2
<1>. QED BY <1>2, <1>3

\* The types: what the loop keeps of the view is a view.
TypeOK ==
    /\ display \in Displays
    /\ height \in Heights
    /\ resized \in BOOLEAN
    /\ ui \in Views
    /\ dirty \in BOOLEAN
    /\ gap \in BOOLEAN
    /\ at \in {"top", "select", "quit", "interrupted", "error"}

-----------------------------------------------------------------------------
(* A frame *)

LEMMA FrameIsTrue ==
    ASSUME TypeOK
    PROVE  FrameShowsSelection
<1> SUFFICES ASSUME Hi > Lo, height >= MinHeight
             PROVE  /\ Picture.marked \in {Picture.rows[i].hop : i \in DOMAIN Picture.rows}
                    /\ Len(Picture.rows) = AtMost(Capacity(ui), Len(Rows))
  BY DEF FrameShowsSelection
<1> DEFINE cap == Capacity(ui)
           c   == Clamp(ui, cap)
           L   == Len(Rows)
           sel == c.selected
           scr == c.scroll
           f   == FirstRow(sel)
           e   == EndRow(sel)
           M   == MaxScroll(cap)
           end == AtMost(scr + cap, L)
<1>1. display \in Displays /\ height \in Heights /\ ui \in Views
  BY DEF TypeOK
<1>2. cap \in Nat /\ cap >= 1
  BY <1>1, CapacityIs
<1>3. AtLeast(cap, 1) = cap
  <2> HIDE DEF cap
  <2>. QED BY <1>2 DEF AtLeast
<1>4. c \in Views /\ Shows(c, AtLeast(cap, 1)) /\ c.paneOpen = ui.paneOpen
  <2> HIDE DEF cap
  <2>. QED BY <1>1, <1>2, ClampIs
<1>5. Capacity(c) = cap
  BY <1>4 DEF Capacity, PaneShown
<1>6. Picture.marked = sel /\ Picture.rows = SubSeq(Rows, scr + 1, end)
  <2>1. ~(height < MinHeight)
    <3>1. height \in Int /\ MinHeight \in Int
      BY <1>1, TuiAssumption
    <3>. QED BY <3>1
  <2>2. Picture = Frame(c)
    BY DEF Picture, Clamped
  <2> HIDE DEF c
  <2>3. Frame(c) = [ rows |-> InView(c), marked |-> c.selected, pane |-> Pane(c),
                     footer |-> Footer(c), help |-> c.help ]
    BY <2>1 DEF Frame
  <2>4. InView(c) = SubSeq(Rows, c.scroll + 1, AtMost(c.scroll + cap, L))
    BY <1>5 DEF InView
  <2> HIDE DEF cap, L
  <2>5. Frame(c).marked = c.selected /\ Frame(c).rows = InView(c)
    BY <2>3
  <2>. QED BY <2>2, <2>4, <2>5
<1>7. /\ sel \in Lo..(Hi - 1) /\ scr \in 0..M
      /\ f < scr + cap /\ scr < e
  <2> HIDE DEF c, cap
  <2>. QED BY <1>3, <1>4 DEF Shows
<1> HIDE DEF c, cap, sel, scr
<1>8. /\ L \in Nat /\ Lo \in Nat /\ Rows \in Seq(RowRecords(Nat))
      /\ f \in Nat /\ e \in Nat /\ f < e /\ e <= L
      /\ \A r \in 0..(L - 1) :
            /\ r < f <=> Rows[r + 1].hop < sel
            /\ r < e <=> Rows[r + 1].hop <= sel
            /\ Rows[r + 1].hop \in Lo..(Hi - 1)
  BY <1>1, <1>7, Geometry
<1>9. M \in Nat /\ (cap <= L => M = L - cap) /\ (L <= cap => M = 0)
  BY <1>1, <1>2, MaxScrollIs
<1> HIDE DEF L, f, e, M
<1>10. /\ scr \in Nat /\ end \in Nat /\ end <= L /\ scr < end
       /\ end - scr = AtMost(cap, L)
       /\ \E r \in scr..(end - 1) : f <= r /\ r < e
  <2>1. scr \in Nat /\ scr <= M
    BY <1>7, <1>9
  <2>2. end = IF L < scr + cap THEN L ELSE scr + cap
    BY <1>2, <1>8, <2>1 DEF AtMost
  <2> HIDE DEF end
  <2>3. end \in Nat /\ end <= L /\ f < end /\ scr < end
    BY <1>2, <1>7, <1>8, <1>9, <2>1, <2>2
  <2>4. end - scr = AtMost(cap, L)
    BY <1>2, <1>8, <1>9, <2>1, <2>2 DEF AtMost
  <2>5. CASE f <= scr
    BY <1>7, <2>1, <2>3, <2>4, <2>5
  <2>6. CASE ~(f <= scr)
    <3>1. f \in scr..(end - 1) /\ f <= f /\ f < e
      BY <1>8, <2>1, <2>3, <2>6
    <3>. QED BY <2>1, <2>3, <2>4, <3>1
  <2>. QED BY <2>5, <2>6
<1>11. PICK r \in scr..(end - 1) : f <= r /\ r < e
  BY <1>10
<1> HIDE DEF end
<1>12. Rows[r + 1].hop = sel
  <2>1. r \in 0..(L - 1) /\ ~(r < f)
    BY <1>8, <1>10, <1>11
  <2>2. Rows[r + 1].hop \in Nat /\ sel \in Nat
    BY <1>7, <1>8, <2>1
  <2>. QED BY <1>8, <1>11, <2>1, <2>2
<1> DEFINE shown == SubSeq(Rows, scr + 1, end)
<1>13. /\ Len(shown) = end - scr
       /\ \A i \in 1..(end - scr) : shown[i] = Rows[scr + i]
       /\ DOMAIN shown = 1..(end - scr)
  <2>1. \A i \in (scr + 1)..end : Rows[i] \in RowRecords(Nat)
    BY <1>8, <1>10, ElementOfSeq DEF L
  <2>2. scr + 1 \in Int /\ end \in Int /\ scr + 1 <= end /\ end - (scr + 1) + 1 = end - scr
    BY <1>10
  <2>3. /\ shown \in Seq(RowRecords(Nat))
        /\ Len(shown) = end - (scr + 1) + 1
        /\ \A i \in 1..(end - (scr + 1) + 1) : shown[i] = Rows[scr + 1 + i - 1]
    BY <2>1, <2>2, SubSeqProperties
  <2>4. \A i \in 1..(end - scr) : scr + 1 + i - 1 = scr + i
    BY <1>10
  <2> HIDE DEF shown
  <2>5. DOMAIN shown = 1..Len(shown)
    BY <2>3, LenProperties
  <2>. QED BY <2>2, <2>3, <2>4, <2>5
<1> HIDE DEF shown
<1>14. r - scr + 1 \in 1..(end - scr) /\ scr + (r - scr + 1) = r + 1
  BY <1>10, <1>11
<1>15. shown[r - scr + 1].hop = sel
  BY <1>12, <1>13, <1>14
<1>16. sel \in {shown[i].hop : i \in DOMAIN shown}
  BY <1>13, <1>14, <1>15
<1>. QED BY <1>6, <1>10, <1>13, <1>16 DEF shown, cap, L

-----------------------------------------------------------------------------
(* The page keys *)

LEMMA HopAtRowIs ==
    ASSUME display \in Displays, Hi > Lo, NEW row \in Nat
    PROVE  HopAtRow(row) \in Lo..(Hi - 1)
<1>1. /\ Len(Rows) \in Nat /\ Lo \in Nat /\ Hi \in Nat
      /\ \A r \in 0..(Len(Rows) - 1) : Rows[r + 1].hop \in Lo..(Hi - 1)
  BY Geometry
<1>2. CASE row < Len(Rows)
  <2>1. row \in 0..(Len(Rows) - 1)
    BY <1>1, <1>2
  <2>. QED BY <1>1, <1>2, <2>1 DEF HopAtRow
<1>3. CASE ~(row < Len(Rows))
  BY <1>1, <1>3 DEF HopAtRow
<1>. QED BY <1>2, <1>3

LEMMA ScrolledIs ==
    ASSUME display \in Displays, NEW view \in Views, NEW down \in BOOLEAN, NEW visible \in Nat
    PROVE  LET rows == AtLeast(visible, 1)
               s    == Scrolled(view, down, visible)
               to   == IF down THEN AtMost(view.scroll + ScrollStep, MaxScroll(rows))
                       ELSE AtLeast(view.scroll - ScrollStep, 0)
           IN  /\ s.scroll = to /\ to \in Nat
               /\ s.selected = IF down THEN AtLeast(view.selected, HopAtRow(to))
                               ELSE AtMost(view.selected, HopAtRow(to + rows - 1))
               /\ s \in Views
<1> DEFINE rows == AtLeast(visible, 1)
           s    == Scrolled(view, down, visible)
           to   == IF down THEN AtMost(view.scroll + ScrollStep, MaxScroll(rows))
                   ELSE AtLeast(view.scroll - ScrollStep, 0)
           sel  == IF down THEN AtLeast(view.selected, HopAtRow(to))
                   ELSE AtMost(view.selected, HopAtRow(to + rows - 1))
<1>1. rows \in Nat /\ rows >= 1
  BY DEF AtLeast
<1>2. MaxScroll(rows) \in Nat
  <2> HIDE DEF rows
  <2>. QED BY <1>1, MaxScrollIs
<1>3. view.selected \in Nat /\ view.scroll \in Nat
  BY DEF Views
<1>4. s = [view EXCEPT !.scroll = to, !.selected = sel]
  BY DEF Scrolled
<1> HIDE DEF rows, s
<1>5. to \in Nat
  <2>1. ScrollStep \in Nat
    BY TuiAssumption
  <2>2. AtMost(view.scroll + ScrollStep, MaxScroll(rows)) \in Nat
    BY <1>2, <1>3, <2>1 DEF AtMost
  <2>3. AtLeast(view.scroll - ScrollStep, 0) \in Nat
    BY <1>3, <2>1 DEF AtLeast
  <2>. QED BY <2>2, <2>3
<1> HIDE DEF to
<1>6. \A row \in Nat : HopAtRow(row) \in Nat
  <2>1. Lo \in Nat /\ Hi \in Nat /\ Lo <= Hi /\ (Hi = Lo => Len(Rows) = 0)
    BY Geometry
  <2>2. CASE Hi > Lo
    BY <2>1, <2>2, HopAtRowIs
  <2>3. CASE ~(Hi > Lo)
    <3>1. Len(Rows) = 0
      BY <2>1, <2>3
    <3>. QED BY <2>1, <2>3, <3>1 DEF HopAtRow
  <2>. QED BY <2>2, <2>3
<1>7. sel \in Nat
  <2>1. HopAtRow(to) \in Nat /\ HopAtRow(to + rows - 1) \in Nat
    BY <1>1, <1>5, <1>6
  <2>. QED BY <1>3, <2>1 DEF AtLeast, AtMost
<1> HIDE DEF sel
<1>8. s.scroll = to /\ s.selected = sel /\ s \in Views
  BY <1>3, <1>4, <1>5, <1>7 DEF Views
<1>. QED BY <1>5, <1>8 DEF s, to, sel, rows

LEMMA DownMoves ==
    ASSUME TypeOK
    PROVE  LET down == Apply(ui, "ScrollDown")
           IN  \/ down.scroll > ui.scroll
               \/ down.scroll = MaxScroll(AtLeast(Capacity(ui), 1))
<1> DEFINE cap  == Capacity(ui)
           rows == AtLeast(cap, 1)
           M    == MaxScroll(rows)
           s    == Scrolled(ui, TRUE, cap)
           c    == Clamp(s, cap)
           L    == Len(Rows)
           to   == AtMost(ui.scroll + ScrollStep, M)
           h    == HopAtRow(to)
           sel  == c.selected
           e    == EndRow(sel)
<1>1. display \in Displays /\ height \in Heights /\ ui \in Views
  BY DEF TypeOK
<1>2. cap \in Nat
  BY <1>1, CapacityIs
<1>3. Apply(ui, "ScrollDown") = c
  <2>1. Reduced(ui, "ScrollDown") = s
    BY DEF Reduced
  <2> HIDE DEF s
  <2>. QED BY <2>1 DEF Apply
<1> SUFFICES c.scroll > ui.scroll \/ c.scroll = M
  BY <1>3
<1>4. ui.scroll \in Nat /\ ui.selected \in Nat /\ ScrollStep \in Nat /\ ScrollStep >= 1
  BY <1>1, TuiAssumption DEF Views
<1> HIDE DEF cap
<1>5. rows \in Nat /\ rows >= 1
  BY <1>2 DEF AtLeast
<1>6. s \in Views /\ s.scroll = to /\ s.selected = AtLeast(ui.selected, h) /\ to \in Nat
  BY <1>1, <1>2, ScrolledIs
<1> HIDE DEF s
<1>7. /\ Hi > Lo => /\ Shows(c, rows)
                    /\ sel = AtMost(AtLeast(s.selected, Lo), Hi - 1)
                    /\ Follows(sel, c.scroll, Top(s, rows), rows)
      /\ Hi <= Lo => c.scroll = 0
  BY <1>1, <1>2, <1>6, ClampIs
<1> HIDE DEF c, rows
<1>8. /\ M \in Nat
      /\ rows <= L => M = L - rows
      /\ L <= rows => M = 0
  BY <1>1, <1>5, MaxScrollIs
<1>9. /\ L \in Nat /\ Lo \in Nat /\ Hi \in Nat /\ Lo <= Hi /\ (Hi = Lo => L = 0)
  BY <1>1, Geometry
<1>10. CASE Hi <= Lo
  <2>1. c.scroll = 0 /\ L = 0
    BY <1>7, <1>9, <1>10
  <2> HIDE DEF L, M
  <2>2. M = 0
    BY <1>5, <1>8, <2>1
  <2>. QED BY <2>1, <2>2
<1>11. CASE ~(Hi <= Lo)
  <2>1. Hi > Lo
    BY <1>9, <1>11
  <2>2. /\ sel \in Lo..(Hi - 1) /\ c.scroll \in 0..M
        /\ sel = AtMost(AtLeast(s.selected, Lo), Hi - 1)
        /\ Follows(sel, c.scroll, Top(s, rows), rows)
    BY <1>7, <2>1 DEF Shows
  <2>3. h \in Lo..(Hi - 1)
    <3> HIDE DEF to
    <3>. QED BY <1>1, <1>6, <2>1, HopAtRowIs
  <2> HIDE DEF sel
  <2>4. /\ e \in Nat /\ FirstRow(sel) \in Nat /\ FirstRow(sel) < e /\ e <= L
        /\ \A r \in 0..(L - 1) : r < e <=> Rows[r + 1].hop <= sel
    BY <1>1, <2>2, Geometry
  <2>5. to <= M
    BY <1>4, <1>8 DEF AtMost
  <2>6. Top(s, rows) = to
    <3>1. s.scroll = to /\ to \in Nat
      BY <1>6
    <3> HIDE DEF to, M
    <3>2. Top(s, rows) = AtMost(to, M)
      BY <3>1 DEF Top, M
    <3>. QED BY <1>8, <2>5, <3>1, <3>2 DEF AtMost
  <2>7. to \in 0..(L - 1) /\ to < L
    <3> HIDE DEF to, L, M, e
    <3>. QED BY <1>5, <1>6, <1>8, <1>9, <2>4, <2>5
  <2>8. h <= sel
    <3>1. s.selected = AtLeast(ui.selected, h)
      BY <1>6
    <3> HIDE DEF h
    <3>. QED BY <1>4, <1>9, <2>2, <2>3, <3>1 DEF AtLeast, AtMost
  <2>9. Rows[to + 1].hop <= sel
    BY <2>7, <2>8 DEF HopAtRow
  <2>10. to < e
    <3> HIDE DEF to, e
    <3>. QED BY <2>4, <2>7, <2>9
  <2>11. c.scroll \in Nat /\ c.scroll <= M /\ c.scroll >= to
    <3>1. /\ c.scroll \in 0..M
          /\ \/ to + rows <= FirstRow(sel) /\ to < c.scroll
             \/ e <= to /\ c.scroll < to
             \/ c.scroll = to
      BY <2>2, <2>6 DEF Follows
    <3> HIDE DEF to, e, M
    <3>. QED BY <1>6, <1>8, <2>4, <2>10, <3>1
  <2>12. to = M \/ to = ui.scroll + ScrollStep
    BY DEF AtMost
  <2> HIDE DEF to, M
  <2>. QED BY <1>4, <1>8, <2>11, <2>12
<1>. QED BY <1>10, <1>11

LEMMA UpMoves ==
    ASSUME TypeOK
    PROVE  LET up == Apply(ui, "ScrollUp")
           IN  up.scroll < ui.scroll \/ ui.scroll = 0
<1> DEFINE cap  == Capacity(ui)
           rows == AtLeast(cap, 1)
           M    == MaxScroll(rows)
           s    == Scrolled(ui, FALSE, cap)
           c    == Clamp(s, cap)
           L    == Len(Rows)
           to   == AtLeast(ui.scroll - ScrollStep, 0)
           last == to + rows - 1
           h    == HopAtRow(last)
           sel  == c.selected
           f    == FirstRow(sel)
           top  == Top(s, rows)
<1>1. display \in Displays /\ height \in Heights /\ ui \in Views
  BY DEF TypeOK
<1>2. cap \in Nat
  BY <1>1, CapacityIs
<1>3. Apply(ui, "ScrollUp") = c
  <2>1. Reduced(ui, "ScrollUp") = s
    BY DEF Reduced
  <2> HIDE DEF s
  <2>. QED BY <2>1 DEF Apply
<1> SUFFICES ASSUME ui.scroll # 0 PROVE c.scroll < ui.scroll
  BY <1>3
<1>4. ui.scroll \in Nat /\ ui.selected \in Nat /\ ScrollStep \in Nat /\ ScrollStep >= 1
  BY <1>1, TuiAssumption DEF Views
<1> HIDE DEF cap
<1>5. rows \in Nat /\ rows >= 1
  BY <1>2 DEF AtLeast
<1>6. s \in Views /\ s.scroll = to /\ s.selected = AtMost(ui.selected, h) /\ to \in Nat
  BY <1>1, <1>2, ScrolledIs
<1> HIDE DEF s
<1>7. /\ Hi > Lo => /\ Shows(c, rows)
                    /\ sel = AtMost(AtLeast(s.selected, Lo), Hi - 1)
                    /\ Follows(sel, c.scroll, Top(s, rows), rows)
      /\ Hi <= Lo => c.scroll = 0
  BY <1>1, <1>2, <1>6, ClampIs
<1> HIDE DEF c, rows
<1>8. /\ M \in Nat
      /\ rows <= L => M = L - rows
      /\ L <= rows => M = 0
  BY <1>1, <1>5, MaxScrollIs
<1>9. /\ L \in Nat /\ Lo \in Nat /\ Hi \in Nat /\ Lo <= Hi /\ (Hi = Lo => L = 0)
  BY <1>1, Geometry
<1>10. to < ui.scroll
  BY <1>4 DEF AtLeast
<1>11. CASE Hi <= Lo
  BY <1>4, <1>7, <1>11
<1>12. CASE ~(Hi <= Lo)
  <2>1. Hi > Lo
    BY <1>9, <1>12
  <2>2. /\ sel \in Lo..(Hi - 1) /\ c.scroll \in 0..M
        /\ sel = AtMost(AtLeast(s.selected, Lo), Hi - 1)
        /\ Follows(sel, c.scroll, top, rows)
    BY <1>7, <2>1 DEF Shows
  <2>3. last \in Nat
    <3> HIDE DEF to
    <3>. QED BY <1>5, <1>6
  <2>4. h \in Lo..(Hi - 1)
    <3> HIDE DEF last
    <3>. QED BY <1>1, <2>1, <2>3, HopAtRowIs
  <2> HIDE DEF sel
  <2>5. /\ f \in Nat /\ f < EndRow(sel) /\ EndRow(sel) \in Nat /\ EndRow(sel) <= L
        /\ \A r \in 0..(L - 1) : r < f <=> Rows[r + 1].hop < sel
    BY <1>1, <2>2, Geometry
  <2>6. top = IF to < M THEN to ELSE M
    <3>1. s.scroll = to /\ to \in Nat
      BY <1>6
    <3> HIDE DEF to, M
    <3>2. top = AtMost(to, M)
      BY <3>1 DEF Top, M
    <3>. QED BY <1>8, <3>1, <3>2 DEF AtMost
  <2>7. sel <= h
    <3>1. s.selected = AtMost(ui.selected, h)
      BY <1>6
    <3> HIDE DEF h
    <3>. QED BY <1>4, <1>9, <2>2, <2>4, <3>1 DEF AtLeast, AtMost
  <2>8. ASSUME last < L PROVE f <= last
    <3>1. Rows[last + 1].hop = h
      BY <2>8 DEF HopAtRow
    <3> HIDE DEF last, h, f
    <3>2. last \in 0..(L - 1) /\ ~(Rows[last + 1].hop < sel)
      BY <1>9, <2>2, <2>3, <2>4, <2>7, <2>8, <3>1
    <3>. QED BY <2>3, <2>5, <3>2
  <2> HIDE DEF top, f
  <2>9. f < top + rows
    <3>1. last = to + rows - 1 /\ to \in Nat
      BY <1>6
    <3> HIDE DEF to, L, M, last
    <3>2. CASE last < L
      <4>1. f <= last /\ to <= M
        BY <1>5, <1>8, <1>9, <2>8, <3>1, <3>2
      <4>. QED BY <1>5, <1>8, <2>5, <2>6, <3>1, <4>1
    <3>3. CASE ~(last < L)
      BY <1>5, <1>8, <1>9, <2>3, <2>5, <2>6, <3>1, <3>3
    <3>. QED BY <3>2, <3>3
  <2>10. top \in Nat /\ top <= to
    <3>1. to \in Nat
      BY <1>6
    <3> HIDE DEF to, M
    <3>. QED BY <1>8, <2>6, <3>1
  <2>11. c.scroll \in Nat /\ c.scroll <= top
    <3>1. /\ c.scroll \in 0..M
          /\ \/ top + rows <= f /\ top < c.scroll
             \/ c.scroll < top
             \/ c.scroll = top
      BY <2>2 DEF Follows, f
    <3> HIDE DEF M
    <3>. QED BY <1>5, <1>8, <2>5, <2>9, <2>10, <3>1
  <2>12. to \in Nat
    BY <1>6
  <2> HIDE DEF to
  <2>. QED BY <1>4, <1>10, <2>10, <2>11, <2>12
<1>. QED BY <1>11, <1>12

LEMMA ScrollIsTrue ==
    ASSUME TypeOK
    PROVE  ScrollingMoves
BY DownMoves, UpMoves DEF ScrollingMoves

-----------------------------------------------------------------------------
(* The types *)

PlainActions ==
    {"SelectUp", "SelectDown", "ScrollDown", "ScrollUp", "TogglePane", "NextTab", "ToggleHelp",
     "CloseOverlay", "Fields", "MaxTtl", "Redraw", "Quit", "CtrlC"}
PromptActions == {"PromptChar", "PromptBackspace", "PromptCancel"}

\* A key at the interface itself: those that edit a prompt come with one only.
LEMMA MapKeyIs ==
    ASSUME NEW key, NEW view, NEW action, action = MapKey(key, view),
           action \notin EngineActions, action # "PromptSubmit", action # None
    PROVE  \/ action \in PlainActions
           \/ view.prompt # None /\ action \in PromptActions
<1>1. ASSUME key \in DOMAIN PlainKeys
      PROVE  PlainKeys[key] \in PlainActions \cup EngineActions
  BY <1>1 DEF PlainKeys, PlainActions, EngineActions
<1>2. ASSUME key \in DOMAIN CtrlKeys
      PROVE  CtrlKeys[key] \in PlainActions \cup EngineActions
  BY <1>2 DEF CtrlKeys, PlainActions, EngineActions
<1>3. CASE key = "ctrl_c"
  BY <1>3 DEF MapKey, PlainActions
<1>4. CASE key # "ctrl_c" /\ view.prompt # None
  <2>1. MapKey(key, view) \in {"PromptSubmit", "PromptCancel", "PromptBackspace", None, "PromptChar"}
    <3> DEFINE letter == IF view.prompt.kind = "Fields" /\ key = "x" THEN None ELSE "PromptChar"
    <3>1. MapKey(key, view) = CASE key = "enter"     -> "PromptSubmit"
                                [] key = "esc"       -> "PromptCancel"
                                [] key = "backspace" -> "PromptBackspace"
                                [] key \in {"q", "m", "o", "p", "e", "x"} -> letter
                                [] OTHER -> None
      BY <1>4 DEF MapKey
    <3>2. letter \in {None, "PromptChar"}
      OBVIOUS
    <3> HIDE DEF letter
    <3>3. CASE key \in {"enter", "esc", "backspace"}
      BY <3>1, <3>3
    <3>4. CASE key \in {"q", "m", "o", "p", "e", "x"}
      BY <3>1, <3>2, <3>4
    <3>5. CASE key \notin {"enter", "esc", "backspace", "q", "m", "o", "p", "e", "x"}
      BY <3>1, <3>5
    <3>. QED BY <3>3, <3>4, <3>5
  <2>. QED BY <1>4, <2>1 DEF PromptActions
<1>5. CASE key # "ctrl_c" /\ ~(view.prompt # None)
  <2>1. CASE view.help
    BY <1>5, <2>1 DEF MapKey, PlainActions
  <2>2. CASE ~view.help
    BY <1>1, <1>2, <1>5, <2>2 DEF MapKey
  <2>. QED BY <2>1, <2>2
<1>. QED BY <1>3, <1>4, <1>5

LEMMA ReducedIs ==
    ASSUME display \in Displays, height \in Heights, NEW view \in Views, NEW action,
           \/ action \in PlainActions
           \/ view.prompt # None /\ action \in PromptActions
    PROVE  Reduced(view, action) \in Views
<1>1. view.selected \in Nat /\ view.scroll \in Nat
  BY DEF Views
<1>2. Capacity(view) \in Nat
  BY CapacityIs
<1>3. CASE action \in {"ScrollDown", "ScrollUp"}
  <2>1. Scrolled(view, TRUE, Capacity(view)) \in Views
    BY <1>2, ScrolledIs
  <2>2. Scrolled(view, FALSE, Capacity(view)) \in Views
    BY <1>2, ScrolledIs
  <2>3. Reduced(view, action) \in {Scrolled(view, TRUE, Capacity(view)),
                                  Scrolled(view, FALSE, Capacity(view))}
    BY <1>3 DEF Reduced
  <2>. QED BY <2>1, <2>2, <2>3
<1>4. CASE action \in {"SelectUp", "SelectDown"}
  <2>1. AtLeast(view.selected - 1, 0) \in Nat /\ view.selected + 1 \in Nat
    BY <1>1 DEF AtLeast
  <2>2. \/ Reduced(view, action) = [view EXCEPT !.selected = AtLeast(view.selected - 1, 0)]
        \/ Reduced(view, action) = [view EXCEPT !.selected = view.selected + 1]
    BY <1>4 DEF Reduced
  <2>. QED BY <2>1, <2>2 DEF Views
<1>5. CASE action = "TogglePane"
  BY <1>5 DEF Reduced, Views
<1>6. CASE action = "NextTab"
  <2>1. NextTab(view.tab) \in {"Rtt", "Addresses", "Log"}
    BY DEF NextTab, Views
  <2>2. Reduced(view, action) = [view EXCEPT !.tab = NextTab(view.tab)]
    BY <1>6 DEF Reduced
  <2>. QED BY <2>1, <2>2 DEF Views
<1>7. CASE action = "ToggleHelp"
  BY <1>7 DEF Reduced, Views
<1>8. CASE action = "CloseOverlay"
  BY <1>8 DEF Reduced, Views
<1>9. CASE action \in {"Fields", "MaxTtl"}
  <2>1. Reduced(view, action) =
          [view EXCEPT !.help = FALSE, !.prompt = [kind |-> action, len |-> 0]]
    BY <1>9 DEF Reduced
  <2>2. [kind |-> action, len |-> 0] \in [kind : {"Fields", "MaxTtl"}, len : Nat]
    BY <1>9
  <2>. QED BY <2>1, <2>2 DEF Views
<1>10. CASE action \in {"Redraw", "Quit", "CtrlC"}
  <2>1. \/ Reduced(view, action) = view
        \/ Reduced(view, action) = [view EXCEPT !.quit = action] /\ action \in {"Quit", "CtrlC"}
    BY <1>10 DEF Reduced
  <2>. QED BY <2>1 DEF Views
<1>11. CASE action = "PromptCancel"
  BY <1>11 DEF Reduced, Views
<1>12. CASE action \in {"PromptChar", "PromptBackspace"}
  <2>1. view.prompt \in [kind : {"Fields", "MaxTtl"}, len : Nat]
    BY <1>12 DEF Views, PlainActions
  <2>2. /\ AtMost(view.prompt.len + 1, MaxPromptLen) \in Nat
        /\ AtLeast(view.prompt.len - 1, 0) \in Nat
    <3>1. MaxPromptLen \in Nat /\ view.prompt.len \in Nat
      BY <2>1, TuiAssumption
    <3>. QED BY <3>1 DEF AtMost, AtLeast
  <2>3. \E n \in Nat : Reduced(view, action) = [view EXCEPT !.prompt.len = n]
    BY <1>12, <2>2 DEF Reduced
  <2>4. PICK n \in Nat : Reduced(view, action) = [view EXCEPT !.prompt.len = n]
    BY <2>3
  <2>5. [view.prompt EXCEPT !.len = n] \in [kind : {"Fields", "MaxTtl"}, len : Nat]
    BY <2>1
  <2>. QED BY <2>4, <2>5 DEF Views
<1>. QED BY <1>3, <1>4, <1>5, <1>6, <1>7, <1>8, <1>9, <1>10, <1>11, <1>12
         DEF PlainActions, PromptActions

LEMMA ApplyIs ==
    ASSUME display \in Displays, height \in Heights, NEW view \in Views, NEW action,
           \/ action \in PlainActions
           \/ view.prompt # None /\ action \in PromptActions
    PROVE  Apply(view, action) \in Views /\ (action = "Quit" => Apply(view, action).quit = "Quit")
<1>1. Reduced(view, action) \in Views
  BY ReducedIs
<1>2. Capacity(view) \in Nat
  BY CapacityIs
<1>3. Apply(view, action) = Clamp(Reduced(view, action), Capacity(view))
  BY DEF Apply, PlainActions, PromptActions
<1>4. /\ Clamp(Reduced(view, action), Capacity(view)) \in Views
      /\ Clamp(Reduced(view, action), Capacity(view)).quit = Reduced(view, action).quit
  BY <1>1, <1>2, ClampIs
<1>5. action = "Quit" => Reduced(view, action).quit = "Quit"
  BY DEF Reduced, Views
<1>. QED BY <1>3, <1>4, <1>5

LEMMA AgainIs ==
    ASSUME NEW view \in Views, Again(view)
    PROVE  /\ ui' = view /\ at' \in {"top", "quit", "interrupted"}
           /\ view.quit = "Quit" => at' = "quit"
<1>1. CASE view.quit = "Quit"
  BY <1>1 DEF Again
<1>2. CASE view.quit # "Quit"
  BY <1>2 DEF Again
<1>. QED BY <1>1, <1>2

LEMMA InitTypes == Init => TypeOK
<1> SUFFICES ASSUME Init PROVE TypeOK
  OBVIOUS
<1>1. PICK paneOpen \in BOOLEAN : ui = NewView(paneOpen)
  BY DEF Init
<1>2. ui \in Views
  BY <1>1 DEF NewView, Views
<1>. QED BY <1>2 DEF Init, TypeOK

\* What a turn of the loop does to the types, and to what must be drawn.
Steady ==
    /\ TypeOK'
    /\ Running' => \/ dirty' \/ resized'
                   \/ UNCHANGED <<display, height>> /\ (ui' = ui \/ ui' = Clamped)

LEMMA ViewsStay ==
    ASSUME TypeOK
    PROVE  Clamped \in Views
BY CapacityIs, ClampIs DEF TypeOK, Clamped

LEMMA DrawSteady == TypeOK /\ Draw => Steady
BY ViewsStay DEF TypeOK, Draw, Steady

LEMMA WaitSteady == TypeOK /\ Wait => Steady
BY DEF TypeOK, Wait, Steady

LEMMA FinishedSteady == TypeOK /\ Finished => Steady
BY DEF TypeOK, Finished, Steady

LEMMA WakeSteady == TypeOK /\ Wake => Steady
<1> SUFFICES ASSUME TypeOK, Wake PROVE Steady
  OBVIOUS
<1>1. CASE Finished
  BY <1>1, FinishedSteady
<1>2. CASE /\ display' \in Displays /\ dirty' = TRUE /\ Again(ui)
           /\ UNCHANGED <<height, resized, gap>>
  <2>1. ui' = ui /\ at' \in {"top", "quit", "interrupted"}
    BY <1>2, AgainIs DEF TypeOK
  <2>. QED BY <1>2, <2>1 DEF TypeOK, Steady
<1>. QED BY <1>1, <1>2 DEF Wake

LEMMA KeySteady == ASSUME NEW key PROVE TypeOK /\ Key(key) => Steady
<1> SUFFICES ASSUME TypeOK, Key(key) PROVE Steady
  OBVIOUS
<1> DEFINE action == MapKey(key, ui)
<1>1. display \in Displays /\ height \in Heights /\ ui \in Views
  BY DEF TypeOK
<1>2. Apply(ui, "PromptSubmit") \in Views
  BY <1>1 DEF Apply, Views
<1>3. CASE EngineKey(key)
  <2>1. CASE Finished
    BY <2>1, FinishedSteady
  <2>2. CASE /\ EngineDoes(action) /\ dirty' = TRUE /\ UNCHANGED <<height, resized, gap>>
             /\ Again([ui EXCEPT !.status = TRUE])
    <3>1. display' \in Displays
      BY <1>1, <2>2, TuiAssumption DEF EngineDoes
    <3>2. [ui EXCEPT !.status = TRUE] \in Views
      BY <1>1 DEF Views
    <3>3. ui' \in Views /\ at' \in {"top", "quit", "interrupted"}
      BY <2>2, <3>2, AgainIs
    <3>. QED BY <2>2, <3>1, <3>3 DEF TypeOK, Steady
  <2>. QED BY <1>3, <2>1, <2>2 DEF EngineKey
<1>4. CASE Submit(key)
  <2>1. CASE Finished
    BY <2>1, FinishedSteady
  <2>2. CASE /\ display' \in Displays /\ Again(Apply(ui, "PromptSubmit"))
             /\ dirty' = TRUE /\ UNCHANGED <<height, resized, gap>>
    <3>1. ui' \in Views /\ at' \in {"top", "quit", "interrupted"}
      BY <1>2, <2>2, AgainIs
    <3>. QED BY <2>2, <3>1 DEF TypeOK, Steady
  <2>3. CASE /\ Again([Apply(ui, "PromptSubmit") EXCEPT !.status = TRUE])
             /\ dirty' = TRUE /\ UNCHANGED <<display, height, resized, gap>>
    <3>1. [Apply(ui, "PromptSubmit") EXCEPT !.status = TRUE] \in Views
      BY <1>2 DEF Views
    <3>2. ui' \in Views /\ at' \in {"top", "quit", "interrupted"}
      BY <2>3, <3>1, AgainIs
    <3>. QED BY <2>3, <3>2 DEF TypeOK, Steady
  <2>. QED BY <1>4, <2>1, <2>2, <2>3 DEF Submit
<1>5. CASE UiKey(key)
  <2> DEFINE to == IF action = None THEN ui ELSE Apply(ui, action)
  <2>1. to \in Views
    <3>1. CASE action = None
      BY <1>1, <3>1
    <3>2. CASE action # None
      <4>1. action \notin EngineActions /\ action # "PromptSubmit"
        BY <1>5 DEF UiKey
      <4>2. \/ action \in PlainActions
            \/ ui.prompt # None /\ action \in PromptActions
        BY <3>2, <4>1, MapKeyIs
      <4>3. Apply(ui, action) \in Views
        BY <1>1, <4>2, ApplyIs
      <4>. QED BY <3>2, <4>3
    <3>. QED BY <3>1, <3>2
  <2>2. Again(to) /\ dirty' = TRUE /\ UNCHANGED <<display, height, resized, gap>>
    BY <1>5 DEF UiKey
  <2> HIDE DEF to
  <2>3. ui' \in Views /\ at' \in {"top", "quit", "interrupted"}
    BY <2>1, <2>2, AgainIs
  <2>. QED BY <2>2, <2>3 DEF TypeOK, Steady
<1>. QED BY <1>3, <1>4, <1>5 DEF Key

LEMMA ResizeSteady == TypeOK /\ Resize => Steady
<1> SUFFICES ASSUME TypeOK, Resize PROVE Steady
  OBVIOUS
<1>1. ui' = ui /\ at' \in {"top", "quit", "interrupted"}
  BY AgainIs DEF TypeOK, Resize
<1>. QED BY <1>1 DEF TypeOK, Resize, Steady

\* Its view is never drawn: the loop is over.
LEMMA EndOfKeysSteady == TypeOK /\ EndOfKeys => Steady
<1> SUFFICES ASSUME TypeOK, EndOfKeys PROVE Steady
  OBVIOUS
<1>1. Apply(ui, "Quit") \in Views /\ Apply(ui, "Quit").quit = "Quit"
  BY ApplyIs DEF TypeOK, PlainActions
<1>2. ui' \in Views /\ at' = "quit"
  BY <1>1, AgainIs DEF EndOfKeys
<1>. QED BY <1>2 DEF TypeOK, EndOfKeys, Steady, Running

LEMMA ClockSteady == TypeOK /\ Clock => Steady
<1> SUFFICES ASSUME TypeOK, Clock PROVE Steady
  OBVIOUS
<1>1. PICK status \in {ui.status, FALSE} : Again([ui EXCEPT !.status = status])
  BY DEF Clock
<1>2. [ui EXCEPT !.status = status] \in Views
  BY <1>1 DEF TypeOK, Views
<1>3. ui' \in Views /\ at' \in {"top", "quit", "interrupted"}
  BY <1>1, <1>2, AgainIs
<1>. QED BY <1>3 DEF TypeOK, Clock, Steady

LEMMA RenderDueSteady == TypeOK /\ RenderDue => Steady
<1> SUFFICES ASSUME TypeOK, RenderDue PROVE Steady
  OBVIOUS
<1>1. ui' = ui /\ at' \in {"top", "quit", "interrupted"}
  BY AgainIs DEF TypeOK, RenderDue
<1>. QED BY <1>1 DEF TypeOK, RenderDue, Steady

LEMMA OthersSteady == TypeOK /\ (Signal \/ Fails \/ FrameGap \/ WindowChanges) => Steady
<1>1. TypeOK /\ Signal => Steady
  BY DEF TypeOK, Signal, Steady
<1>2. TypeOK /\ Fails => Steady
  BY DEF TypeOK, Fails, Steady
<1>3. TypeOK /\ FrameGap => Steady
  BY DEF TypeOK, FrameGap, Steady
<1>4. TypeOK /\ WindowChanges => Steady
  BY DEF TypeOK, WindowChanges, Steady
<1>. QED BY <1>1, <1>2, <1>3, <1>4

LEMMA NextSteady == TypeOK /\ [Next]_vars => Steady
<1> SUFFICES ASSUME TypeOK, [Next]_vars PROVE Steady
  OBVIOUS
<1>1. CASE UNCHANGED vars
  BY <1>1 DEF TypeOK, Steady, vars
<1>2. CASE Next
  BY <1>2, DrawSteady, WaitSteady, WakeSteady, KeySteady, ResizeSteady, EndOfKeysSteady,
     ClockSteady, RenderDueSteady, OthersSteady DEF Next, Branch
<1>. QED BY <1>1, <1>2

-----------------------------------------------------------------------------
(* The specification *)

\* The variables keep their types: the selection and the offset of a view are never below zero,
\* and a prompt is edited only while there is one (state.rs).
THEOREM TypeCorrect == Spec => []TypeOK
<1>1. TypeOK /\ [Next]_vars => TypeOK'
  BY NextSteady DEF Steady
<1>. QED BY InitTypes, <1>1, PTL DEF Spec

\* Whatever the path, the heights of the terminal and the keys, the next frame marks a hop with
\* a row in view and leaves no line empty that a row could fill (clamp).
THEOREM FrameSafe == Spec => []FrameShowsSelection
BY TypeCorrect, FrameIsTrue, PTL

\* The page keys move the view, also past a hop with more rows than the screen: the selection
\* that must stay in view never pulls it back (apply).
THEOREM ScrollingSafe == Spec => []ScrollingMoves
BY TypeCorrect, ScrollIsTrue, PTL

\* Whatever changes what is shown while the loop goes on leaves a mark that has the screen drawn
\* again, if only by the event of a resize (run.rs).
THEOREM MarksKept == Spec => ChangesAreMarked
<1> DEFINE Marked == Running' /\ <<display, height, ui>>' # <<display, height, ui>> =>
                         dirty' \/ resized' \/ (UNCHANGED <<display, height>> /\ ui' = Clamped)
<1>1. TypeOK /\ [Next]_vars => [Marked]_vars
  BY NextSteady DEF Steady
<1>2. Spec => [][Next]_vars
  BY DEF Spec
<1>3. Spec => [][Marked]_vars
  BY <1>1, <1>2, TypeCorrect, PTL
<1>. QED BY <1>3 DEF ChangesAreMarked

-----------------------------------------------------------------------------
(* The views of a hop *)

Outcomes ==
    [kind : {"pending", "lost", "rtt"}, us : Times, result : Results \cup {"none"}]

\* What the ring keeps of a probe, and what is true of it.
Samples == [seq : Nat, sent : Nat, outcome : Outcomes]
Probes  == [sent : Nat, outcome : Outcomes]

HopRecords == [xmit : Nat, returned : Nat, worst : Nat, base : Nat, samples : Seq(Samples)]

HopTypes ==
    /\ cfg \in InstanceRecords
    /\ now \in Nat /\ resets \in Nat
    /\ hop \in HopRecords
    /\ live \in SUBSET (1..hop.xmit)
    /\ truth \in Seq(Probes) /\ Len(truth) = hop.xmit

\* An answer carries a result of its own.
Resulting(t) ==
    \A seq \in DOMAIN t : t[seq].outcome.kind = "rtt" => t[seq].outcome.result \in Results

Sample(t, seq) == [seq |-> seq, sent |-> t[seq].sent, outcome |-> t[seq].outcome]

\* The ring of h holds the latest n probes of t, or all.
TailOf(h, t, n) ==
    /\ Len(h.samples) = AtMost(h.xmit, n)
    /\ h.base + Len(h.samples) = h.xmit + 1
    /\ \A i \in 1..Len(h.samples) : h.samples[i] = Sample(t, h.base + i - 1)

Tails == TailOf(hop, truth, cfg.capacity)

\* Probes leave an interval apart; later only when the clock ran on without them.
Spaced ==
    /\ now >= hop.xmit
    /\ \A seq \in 1..hop.xmit :
         /\ truth[seq].sent <= now - Age(seq)
         /\ cfg.waits = 0 => truth[seq].sent = now - Age(seq)

HopIInv == HopTypes /\ Resulting(truth) /\ Tails /\ Spaced

-----------------------------------------------------------------------------
(* The ring *)

\* The length of a function over an initial interval.
LEMMA LenOfFunction ==
    ASSUME NEW n \in Nat, NEW S, NEW f \in [1..n -> S]
    PROVE  f \in Seq(S) /\ Len(f) = n /\ DOMAIN f = 1..n
BY LenProperties

\* The two outcomes that are not answers are outcomes.
LEMMA NoAnswers ==
    /\ Pending \in Outcomes /\ Pending.kind = "pending"
    /\ Lost \in Outcomes /\ Lost.kind = "lost"
<1>1. MaxTime \in Nat
  BY HopViewsAssumption
<1>. QED  BY <1>1 DEF Pending, Lost, Outcome, Outcomes, Times

\* Pushing a probe keeps the ring the tail of what was sent, evicting the oldest when full.
LEMMA PushKeepsTail ==
    ASSUME cfg.capacity \in Nat \ {0},
           NEW h \in HopRecords, NEW t \in Seq(Probes), Len(t) = h.xmit,
           TailOf(h, t, cfg.capacity), NEW sent \in Nat
    PROVE  LET g == Push(h, sent)
               u == Append(t, [sent |-> sent, outcome |-> Pending])
           IN  /\ g \in HopRecords /\ g.xmit = h.xmit + 1
               /\ u \in Seq(Probes) /\ Len(u) = g.xmit
               /\ \A seq \in 1..h.xmit : u[seq] = t[seq]
               /\ u[g.xmit] = [sent |-> sent, outcome |-> Pending]
               /\ TailOf(g, u, cfg.capacity)
<1> DEFINE n    == cfg.capacity
           len  == Len(h.samples)
           seq  == h.xmit + 1
           full == len = n
           base == IF h.samples = <<>> THEN seq ELSE IF full THEN h.base + 1 ELSE h.base
           kept == IF full THEN Tail(h.samples) ELSE h.samples
           new  == [seq |-> seq, sent |-> sent, outcome |-> Pending]
           s    == Append(kept, new)
           g    == Push(h, sent)
           p    == [sent |-> sent, outcome |-> Pending]
           u    == Append(t, p)
<1>1. /\ h.samples \in Seq(Samples) /\ h.base \in Nat /\ h.xmit \in Nat
      /\ len \in Nat /\ n \in Nat /\ n > 0 /\ seq \in Nat
      /\ h.samples = <<>> <=> len = 0
  BY EmptySeq, LenProperties DEF HopRecords
<1>2. len = AtMost(h.xmit, n) /\ h.base + len = seq
  BY <1>1 DEF TailOf
<1>b. \A i \in 1..len : h.samples[i] = Sample(t, h.base + i - 1)
  BY DEF TailOf
<1>3. new \in Samples /\ p \in Probes
  BY <1>1, NoAnswers DEF Samples, Probes
<1>. HIDE DEF new, p
<1>4. /\ kept \in Seq(Samples)
      /\ Len(kept) = IF full THEN len - 1 ELSE len
      /\ \A i \in 1..Len(kept) : kept[i] = IF full THEN h.samples[i + 1] ELSE h.samples[i]
  <2>1. CASE full
    <3>1. h.samples # <<>>
      BY <2>1, <1>1
    <3>. QED  BY <3>1, <2>1, <1>1, HeadTailProperties
  <2>2. CASE ~full
    BY <2>2, <1>1
  <2>. QED  BY <2>1, <2>2
<1>. HIDE DEF kept
<1>5. /\ s \in Seq(Samples) /\ Len(s) = Len(kept) + 1
      /\ \A i \in 1..Len(kept) : s[i] = kept[i]
      /\ s[Len(kept) + 1] = new
  BY <1>3, <1>4, AppendProperties, SMTT(30)
<1>6. /\ u \in Seq(Probes) /\ Len(u) = seq
      /\ \A i \in 1..h.xmit : u[i] = t[i]
      /\ u[seq] = p
  BY <1>1, <1>3, AppendProperties, SMTT(30)
<1>. HIDE DEF s, u
<1>7. base \in Nat /\ base + Len(s) = seq + 1
  <2>1. CASE h.samples = <<>>
    BY <2>1, <1>1, <1>4, <1>5
  <2>2. CASE h.samples # <<>>
    <3>1. Len(s) = (IF full THEN len - 1 ELSE len) + 1
      BY <1>4, <1>5
    <3>2. h.base \in Nat /\ len \in Nat /\ h.base + len = seq
      BY <1>1, <1>2
    <3>. HIDE DEF len, n, seq
    <3>. QED  BY <2>2, <3>1, <3>2
  <2>. QED  BY <2>1, <2>2
<1>a. Len(kept) \in Nat
  <2>1. full => len > 0
    BY <1>1
  <2>. QED  BY <2>1, <1>1, <1>4
<1>8. len = IF full THEN n ELSE h.xmit
  BY <1>1, <1>2 DEF AtMost
<1>9. Len(s) = AtMost(seq, n)
  <2>1. len <= n /\ len <= h.xmit
    BY <1>1, <1>2 DEF AtMost
  <2>. HIDE DEF len, n
  <2>. QED  BY <2>1, <1>1, <1>4, <1>5, <1>8 DEF AtMost
<1>10. g = [h EXCEPT !.xmit = seq, !.base = base, !.samples = s]
  BY DEF Push, s, kept, new
<1>11. /\ g \in HopRecords /\ g.xmit = seq /\ g.base = base /\ g.samples = s
  BY <1>1, <1>5, <1>7, <1>10 DEF HopRecords
<1>. HIDE DEF g
<1>12. ASSUME NEW i \in 1..Len(s)
       PROVE  s[i] = Sample(u, base + i - 1)
  <2>1. CASE i = Len(kept) + 1
    <3>1. base + i - 1 = seq
      <4>1. Len(s) = Len(kept) + 1
        BY <1>5
      <4>. HIDE DEF base
      <4>. QED  BY <2>1, <4>1, <1>7, <1>a, <1>1
    <3>2. s[i] = new /\ u[seq] = p
      BY <2>1, <1>5, <1>6
    <3>. QED  BY <3>1, <3>2 DEF Sample, new, p
  <2>2. CASE i # Len(kept) + 1
    <3> DEFINE j == IF full THEN i + 1 ELSE i
    <3>1. i \in 1..Len(kept) /\ len > 0
      BY <2>2, <1>4, <1>5, <1>1
    <3>2. j \in 1..len /\ h.base + j - 1 = base + i - 1
      BY <3>1, <1>1, <1>4
    <3>3. s[i] = h.samples[j]
      BY <3>1, <1>4, <1>5
    <3>. HIDE DEF j
    <3>4. h.samples[j] = Sample(t, base + i - 1)
      BY <3>2, <1>b
    <3>5. base + i - 1 \in 1..h.xmit
      <4>1. len <= h.xmit
        BY <1>1, <1>2 DEF AtMost
      <4>2. h.base >= 1 /\ base >= h.base
        <5>. HIDE DEF len
        <5>. QED  BY <4>1, <3>1, <1>1, <1>2
      <4>. HIDE DEF base
      <4>3. Len(s) = Len(kept) + 1
        BY <1>5
      <4>. QED  BY <4>2, <4>3, <3>1, <1>1, <1>a, <1>7
    <3>6. u[base + i - 1] = t[base + i - 1]
      BY <3>5, <1>6
    <3>. QED  BY <3>3, <3>4, <3>6 DEF Sample
  <2>. QED  BY <2>1, <2>2
<1>13. TailOf(g, u, n)
  BY <1>7, <1>9, <1>11, <1>12 DEF TailOf
<1>. QED  BY <1>6, <1>11, <1>13 DEF u, g, p

\* Recording the outcome of a probe keeps the ring the tail of the truth, also when the probe
\* has left it.
LEMMA RecordKeepsTail ==
    ASSUME cfg.capacity \in Nat \ {0},
           NEW h \in HopRecords, NEW t \in Seq(Probes), Len(t) = h.xmit,
           TailOf(h, t, cfg.capacity), NEW seq \in 1..h.xmit, NEW outcome \in Outcomes
    PROVE  LET g == Record(h, seq, outcome)
               u == [t EXCEPT ![seq].outcome = outcome]
           IN  /\ g \in HopRecords /\ g.xmit = h.xmit
               /\ u \in Seq(Probes) /\ Len(u) = h.xmit
               /\ \A n \in 1..h.xmit :
                    /\ u[n].sent = t[n].sent
                    /\ u[n].outcome = IF n = seq THEN outcome ELSE t[n].outcome
               /\ TailOf(g, u, cfg.capacity)
<1> DEFINE g == Record(h, seq, outcome)
           p == [t[seq] EXCEPT !.outcome = outcome]
           u == [t EXCEPT ![seq] = p]
           i == seq - h.base + 1
           len == Len(h.samples)
<1>1. /\ h.samples \in Seq(Samples) /\ h.base \in Nat /\ h.xmit \in Nat /\ len \in Nat
      /\ DOMAIN h.samples = 1..len /\ i \in Int /\ seq \in Int
  BY LenProperties DEF HopRecords
<1>2. t[seq] \in Probes
  BY ElementOfSeq
<1>3. p \in Probes /\ p.sent = t[seq].sent /\ p.outcome = outcome
  BY <1>2 DEF Probes
<1>. HIDE DEF p
<1>4. /\ u \in Seq(Probes) /\ Len(u) = h.xmit
      /\ \A n \in 1..h.xmit : u[n] = IF n = seq THEN p ELSE t[n]
  BY <1>3, ExceptSeq, SMTT(30)
<1>. HIDE DEF u
<1>5. \A n \in 1..h.xmit :
        /\ u[n].sent = t[n].sent
        /\ u[n].outcome = IF n = seq THEN outcome ELSE t[n].outcome
  BY <1>3, <1>4
<1>6. len = AtMost(h.xmit, cfg.capacity) /\ h.base + len = h.xmit + 1
  BY DEF TailOf
<1>a. \A k \in 1..len : h.samples[k] = Sample(t, h.base + k - 1)
  BY DEF TailOf
<1>7. \A k \in 1..len : h.base + k - 1 \in 1..h.xmit
  <2>1. len <= h.xmit
    BY <1>1, <1>6 DEF AtMost
  <2>. HIDE DEF len
  <2>. QED  BY <2>1, <1>1, <1>6
<1>8. CASE i \in 1..len
  <2> DEFINE e == [h.samples[i] EXCEPT !.outcome = outcome]
             s == [h.samples EXCEPT ![i] = e]
  <2>1. /\ h.samples[i] = Sample(t, seq)
        /\ h.samples[i] \in Samples
    <3>1. h.base + i - 1 = seq
      BY <1>1
    <3>. QED  BY <3>1, <1>1, <1>a, <1>8, ElementOfSeq
  <2>2. e = Sample(u, seq)
    BY <2>1, <1>5 DEF Sample
  <2>3. e \in Samples
    BY <2>1 DEF Samples
  <2>. HIDE DEF e
  <2>4. /\ s \in Seq(Samples) /\ Len(s) = len
        /\ \A k \in 1..len : s[k] = IF k = i THEN Sample(u, seq) ELSE h.samples[k]
    BY <2>2, <2>3, <1>1, <1>8, ExceptSeq, SMTT(30)
  <2>5. g = [h EXCEPT !.samples = s]
    BY <1>1, <1>8 DEF Record, s, e
  <2>. HIDE DEF s
  <2>6. g \in HopRecords /\ g.xmit = h.xmit /\ g.base = h.base /\ g.samples = s
    BY <2>4, <2>5 DEF HopRecords
  <2>7. ASSUME NEW k \in 1..len
        PROVE  s[k] = Sample(u, h.base + k - 1)
    <3>1. CASE k = i
      <4>1. h.base + k - 1 = seq
        BY <3>1, <1>1
      <4>. QED  BY <3>1, <4>1, <2>4
    <3>2. CASE k # i
      <4>1. h.base + k - 1 # seq /\ h.base + k - 1 \in 1..h.xmit
        BY <3>2, <1>1, <1>7
      <4>2. s[k] = Sample(t, h.base + k - 1)
        BY <3>2, <2>4, <1>a
      <4>. QED  BY <4>1, <4>2, <1>5 DEF Sample
    <3>. QED  BY <3>1, <3>2
  <2>8. TailOf(g, u, cfg.capacity)
    BY <2>4, <2>6, <2>7, <1>6 DEF TailOf
  <2>. QED  BY <2>6, <2>8, <1>4, <1>5 DEF u, p
<1>9. CASE i \notin 1..len
  <2>1. g = h
    BY <1>1, <1>9 DEF Record
  <2>2. ASSUME NEW k \in 1..len
        PROVE  h.samples[k] = Sample(u, h.base + k - 1)
    <3>1. h.base + k - 1 # seq /\ h.base + k - 1 \in 1..h.xmit
      BY <1>1, <1>7, <1>9
    <3>. QED  BY <3>1, <1>5, <1>a DEF Sample
  <2>3. TailOf(g, u, cfg.capacity)
    BY <2>1, <2>2, <1>6 DEF TailOf
  <2>. QED  BY <2>1, <2>3, <1>4, <1>5 DEF u, p
<1>. QED  BY <1>8, <1>9

-----------------------------------------------------------------------------
(* The invariant *)

\* It holds when mtr starts.
LEMMA InitInvariant == ASSUME HopInit PROVE HopIInv
<1>1. cfg \in InstanceRecords
  BY HopViewsAssumption DEF HopInit
<1>2. /\ hop = NewHop /\ truth = <<>> /\ live = {} /\ now = 0 /\ resets = 0
      /\ \A S : <<>> \in Seq(S)
      /\ Len(<<>>) = 0
  BY EmptySeq DEF HopInit
<1>3. /\ hop \in HopRecords
      /\ hop.xmit = 0 /\ hop.base = 1 /\ Len(hop.samples) = 0
  BY <1>2 DEF NewHop, HopRecords
<1>4. DOMAIN truth = {}
  BY <1>2, LenProperties
<1>5. cfg.capacity \in Nat
  BY <1>1 DEF InstanceRecords
<1>6. HopTypes
  BY <1>1, <1>2, <1>3 DEF HopTypes
<1>7. Resulting(truth)
  BY <1>4 DEF Resulting
<1>8. Tails
  BY <1>3, <1>5 DEF Tails, TailOf, AtMost
<1>9. Spaced
  BY <1>2, <1>3 DEF Spaced
<1>. QED  BY <1>6, <1>7, <1>8, <1>9 DEF HopIInv

\* What the invariant says of the instance.
LEMMA InstanceFacts ==
    ASSUME cfg \in InstanceRecords
    PROVE  /\ cfg.capacity \in Nat \ {0}
           /\ cfg.results \subseteq Results /\ cfg.rtts \subseteq Times
           /\ cfg.waits \in Nat
BY DEF InstanceRecords

\* A probe leaves: the ring's newest, at the present time.
LEMMA SendInvariant == ASSUME HopIInv, Send PROVE HopIInv'
<1> DEFINE p == [sent |-> now + 1, outcome |-> Pending]
<1>1. /\ cfg \in InstanceRecords /\ cfg.capacity \in Nat \ {0}
      /\ now \in Nat /\ resets \in Nat
      /\ hop \in HopRecords /\ hop.xmit \in Nat
      /\ live \in SUBSET (1..hop.xmit)
      /\ truth \in Seq(Probes) /\ Len(truth) = hop.xmit
      /\ DOMAIN truth = 1..hop.xmit
      /\ TailOf(hop, truth, cfg.capacity)
  BY InstanceFacts, LenProperties DEF HopIInv, HopTypes, HopRecords, Tails
<1>2. /\ hop' = Push(hop, now + 1)
      /\ now' = now + 1 /\ now + 1 \in Nat
      /\ truth' = Append(truth, p)
      /\ live' = live \cup {hop.xmit + 1}
      /\ cfg' = cfg /\ resets' = resets
  BY <1>1 DEF Send
<1>3. /\ hop' \in HopRecords /\ hop'.xmit = hop.xmit + 1
      /\ truth' \in Seq(Probes) /\ Len(truth') = hop'.xmit
      /\ \A seq \in 1..hop.xmit : truth'[seq] = truth[seq]
      /\ truth'[hop'.xmit] = p
      /\ TailOf(hop', truth', cfg.capacity)
  <2>1. LET g == Push(hop, now + 1)
            u == Append(truth, p)
        IN  /\ g \in HopRecords /\ g.xmit = hop.xmit + 1
            /\ u \in Seq(Probes) /\ Len(u) = g.xmit
            /\ \A seq \in 1..hop.xmit : u[seq] = truth[seq]
            /\ u[g.xmit] = p
            /\ TailOf(g, u, cfg.capacity)
    BY <1>1, <1>2, PushKeepsTail
  <2>. HIDE DEF p
  <2>. QED  BY <2>1, <1>2
<1>4. HopTypes'
  <2>1. live' \in SUBSET (1..(hop.xmit + 1))
    <3>1. ASSUME NEW seq \in live' PROVE seq \in 1..(hop.xmit + 1)
      <4>1. seq \in live \/ seq = hop.xmit + 1
        BY <1>2
      <4>2. hop.xmit \in Nat /\ (seq \in 1..hop.xmit \/ seq = hop.xmit + 1)
        BY <4>1, <1>1
      <4>. QED  BY <4>2
    <3>. QED  BY <3>1
  <2>. QED  BY <2>1, <1>1, <1>2, <1>3 DEF HopTypes
<1>5. Resulting(truth)'
  <2>1. DOMAIN truth' = 1..(hop.xmit + 1)
    BY <1>3, LenProperties
  <2>2. p.outcome.kind = "pending"
    BY NoAnswers
  <2>3. ASSUME NEW seq \in 1..(hop.xmit + 1), truth'[seq].outcome.kind = "rtt"
        PROVE  truth'[seq].outcome.result \in Results
    <3>1. seq # hop.xmit + 1
      BY <2>2, <2>3, <1>3
    <3>2. seq \in DOMAIN truth /\ truth'[seq] = truth[seq]
      <4>1. seq \in 1..hop.xmit
        <5>1. hop.xmit \in Nat
          BY <1>1
        <5>. QED  BY <3>1, <5>1
      <4>. QED  BY <4>1, <1>1, <1>3
    <3>. QED  BY <3>2, <2>3 DEF HopIInv, Resulting
  <2>. QED  BY <2>1, <2>3 DEF Resulting
<1>6. Spaced'
  <2>1. now' >= hop'.xmit
    BY <1>1, <1>2, <1>3 DEF HopIInv, Spaced
  <2>2. ASSUME NEW seq \in 1..hop'.xmit
        PROVE  /\ truth'[seq].sent <= now' - (hop'.xmit - seq)
               /\ cfg.waits = 0 => truth'[seq].sent = now' - (hop'.xmit - seq)
    <3>1. CASE seq = hop'.xmit
      <4>1. truth'[seq].sent = now'
        BY <3>1, <1>2, <1>3
      <4>2. now' \in Nat /\ hop'.xmit \in Nat
        BY <1>1, <1>2, <1>3
      <4>. QED  BY <3>1, <4>1, <4>2
    <3>2. CASE seq # hop'.xmit
      <4>1. seq \in 1..hop.xmit /\ truth'[seq] = truth[seq]
        BY <3>2, <1>1, <1>3
      <4>2. /\ truth[seq].sent <= now - (hop.xmit - seq)
            /\ cfg.waits = 0 => truth[seq].sent = now - (hop.xmit - seq)
        BY <4>1 DEF HopIInv, Spaced, Age
      <4>3. now - (hop.xmit - seq) = now' - (hop'.xmit - seq)
        <5>1. now \in Nat /\ now' = now + 1 /\ hop.xmit \in Nat /\ hop'.xmit = hop.xmit + 1
          BY <1>1, <1>2, <1>3
        <5>. QED  BY <4>1, <5>1
      <4>. QED  BY <4>1, <4>2, <4>3
    <3>. QED  BY <3>1, <3>2
  <2>. QED  BY <2>1, <2>2, <1>2 DEF Spaced, Age
<1>. QED  BY <1>2, <1>3, <1>4, <1>5, <1>6 DEF HopIInv, Tails

\* An outcome becomes known: of any probe, in the ring or not.
LEMMA OutcomeInvariant ==
    ASSUME HopIInv, NEW seq \in live, NEW h \in HopRecords, NEW outcome \in Outcomes,
           outcome.kind = "rtt" => outcome.result \in Results,
           h.xmit = hop.xmit, h.base = hop.base, h.samples = hop.samples,
           hop' = Record(h, seq, outcome), Known(seq, outcome),
           live' \in SUBSET live, UNCHANGED <<cfg, now, resets>>
    PROVE  HopIInv'
<1>1. /\ cfg \in InstanceRecords /\ cfg.capacity \in Nat \ {0}
      /\ now \in Nat /\ resets \in Nat
      /\ hop \in HopRecords /\ hop.xmit \in Nat
      /\ live \in SUBSET (1..hop.xmit)
      /\ truth \in Seq(Probes) /\ Len(truth) = hop.xmit
      /\ DOMAIN truth = 1..hop.xmit
      /\ TailOf(hop, truth, cfg.capacity)
  BY InstanceFacts, LenProperties DEF HopIInv, HopTypes, HopRecords, Tails
<1>2. TailOf(h, truth, cfg.capacity) /\ Len(truth) = h.xmit /\ seq \in 1..h.xmit
  BY <1>1 DEF TailOf
<1>3. /\ hop' \in HopRecords /\ hop'.xmit = hop.xmit
      /\ truth' \in Seq(Probes) /\ Len(truth') = hop.xmit
      /\ \A n \in 1..hop.xmit :
           /\ truth'[n].sent = truth[n].sent
           /\ truth'[n].outcome = IF n = seq THEN outcome ELSE truth[n].outcome
      /\ TailOf(hop', truth', cfg.capacity)
  <2> DEFINE g == Record(h, seq, outcome)
             u == [truth EXCEPT ![seq].outcome = outcome]
  <2>1. /\ g \in HopRecords /\ g.xmit = h.xmit
        /\ u \in Seq(Probes) /\ Len(u) = h.xmit
        /\ \A n \in 1..h.xmit :
             /\ u[n].sent = truth[n].sent
             /\ u[n].outcome = IF n = seq THEN outcome ELSE truth[n].outcome
        /\ TailOf(g, u, cfg.capacity)
    BY <1>1, <1>2, RecordKeepsTail
  <2>2. hop' = g /\ truth' = u
    BY DEF Known
  <2>. HIDE DEF g, u
  <2>. QED  BY <2>1, <2>2
<1>4. HopTypes'
  BY <1>1, <1>3 DEF HopTypes
<1>5. Resulting(truth)'
  <2>1. DOMAIN truth' = 1..hop.xmit
    BY <1>3, LenProperties
  <2>. QED  BY <2>1, <1>1, <1>3 DEF Resulting, HopIInv
<1>6. Spaced'
  BY <1>3 DEF HopIInv, Spaced, Age
<1>. QED  BY <1>3, <1>4, <1>5, <1>6 DEF HopIInv, Tails

\* An answer counts, and is recorded.
LEMMA ReplyInvariant ==
    ASSUME HopIInv, NEW seq \in live, NEW us \in cfg.rtts, NEW result \in cfg.results,
           Reply(seq, us, result)
    PROVE  HopIInv'
<1> DEFINE worst    == IF us > hop.worst THEN us ELSE hop.worst
           returned == hop.returned + 1
           counted  == [hop EXCEPT !.returned = returned, !.worst = worst]
           outcome == Outcome("rtt", us, result)
<1>1. cfg \in InstanceRecords /\ hop \in HopRecords
  BY DEF HopIInv, HopTypes
<1>2. us \in Times /\ result \in Results /\ MaxTime \in Nat
  BY <1>1, InstanceFacts, HopViewsAssumption
<1>3. worst \in Nat /\ returned \in Nat
  BY <1>1, <1>2 DEF Times, HopRecords
<1>. HIDE DEF worst, returned
<1>4. /\ counted \in HopRecords
      /\ counted.xmit = hop.xmit /\ counted.base = hop.base /\ counted.samples = hop.samples
  BY <1>1, <1>3 DEF HopRecords
<1>5. outcome \in Outcomes /\ (outcome.kind = "rtt" => outcome.result \in Results)
  BY <1>2 DEF Outcome, Outcomes
<1>6. /\ hop' = Record(counted, seq, outcome) /\ Known(seq, outcome)
      /\ live' \in SUBSET live /\ UNCHANGED <<cfg, now, resets>>
  BY DEF Reply, worst, returned
<1>. HIDE DEF counted, outcome
<1>. QED  BY <1>4, <1>5, <1>6, OutcomeInvariant

\* Every step keeps the invariant.
LEMMA NextInvariant == ASSUME HopIInv, [HopNext]_hopVars PROVE HopIInv'
<1>1. CASE Send
  BY <1>1, SendInvariant
<1>2. ASSUME NEW seq \in live, NEW us \in cfg.rtts, NEW result \in cfg.results,
             Reply(seq, us, result)
      PROVE  HopIInv'
  BY <1>2, ReplyInvariant
<1>3. ASSUME NEW seq \in live, NoReply(seq) \/ SendFails(seq)
      PROVE  HopIInv'
  <2>1. hop \in HopRecords /\ Lost \in Outcomes /\ Lost.kind # "rtt"
    BY NoAnswers DEF HopIInv, HopTypes
  <2>2. /\ hop' = Record(hop, seq, Lost) /\ Known(seq, Lost)
        /\ live' \in SUBSET live /\ UNCHANGED <<cfg, now, resets>>
    BY <1>3 DEF NoReply, SendFails
  <2>. QED  BY <2>1, <2>2, OutcomeInvariant
<1>4. CASE Reset
  <2>1. /\ hop' = NewHop /\ truth' = <<>> /\ live' = {} /\ now' = now /\ cfg' = cfg
        /\ resets' \in Nat
        /\ \A S : <<>> \in Seq(S)
        /\ Len(<<>>) = 0
    BY <1>4, EmptySeq DEF Reset, HopIInv, HopTypes
  <2>2. /\ hop' \in HopRecords
        /\ hop'.xmit = 0 /\ hop'.base = 1 /\ Len(hop'.samples) = 0
    BY <2>1 DEF NewHop, HopRecords
  <2>3. DOMAIN truth' = {}
    BY <2>1, LenProperties
  <2>4. cfg \in InstanceRecords /\ cfg.capacity \in Nat /\ now \in Nat
    BY DEF HopIInv, HopTypes, InstanceRecords
  <2>5. HopTypes'
    BY <2>1, <2>2, <2>4 DEF HopTypes
  <2>6. Resulting(truth)'
    BY <2>3 DEF Resulting
  <2>7. Tails'
    BY <2>1, <2>2, <2>4 DEF Tails, TailOf, AtMost
  <2>8. Spaced'
    BY <2>1, <2>2, <2>4 DEF Spaced
  <2>. QED  BY <2>5, <2>6, <2>7, <2>8 DEF HopIInv
<1>5. CASE Idle
  <2>1. /\ now' = now + 1 /\ UNCHANGED <<cfg, resets, hop, live, truth>>
        /\ now < hop.xmit + cfg.waits
        /\ now \in Nat /\ hop.xmit \in Nat /\ cfg.waits \in Nat
        /\ now >= hop.xmit
    BY <1>5, InstanceFacts DEF Idle, HopIInv, HopTypes, HopRecords, Spaced
  <2>2. HopTypes' /\ Resulting(truth)' /\ Tails'
    BY <2>1 DEF HopIInv, HopTypes, Resulting, Tails
  <2>3. ASSUME NEW seq \in 1..hop.xmit
        PROVE  truth[seq].sent <= now + 1 - (hop.xmit - seq)
    <3>1. truth[seq].sent <= now - (hop.xmit - seq)
      BY DEF HopIInv, Spaced, Age
    <3>2. truth[seq] \in Probes
      BY ElementOfSeq DEF HopIInv, HopTypes
    <3>3. truth[seq].sent \in Nat
      BY <3>2 DEF Probes
    <3>. QED  BY <3>1, <3>3, <2>1
  <2>4. cfg.waits # 0
    BY <2>1
  <2>5. now + 1 >= hop.xmit
    BY <2>1
  <2>6. Spaced'
    BY <2>1, <2>3, <2>4, <2>5 DEF Spaced, Age
  <2>. QED  BY <2>2, <2>6 DEF HopIInv
<1>6. CASE UNCHANGED hopVars
  BY <1>6 DEF hopVars, HopIInv, HopTypes, Resulting, Tails, Spaced, Age
<1>. QED  BY <1>1, <1>2, <1>3, <1>4, <1>5, <1>6 DEF HopNext

\* The ring is the tail of the truth at all times.
LEMMA Invariant == HopSpec => []HopIInv
BY InitInvariant, NextInvariant, PTL DEF HopSpec

-----------------------------------------------------------------------------
(* The newest probes *)

\* The ring reaches back from the latest probe; Kept is what it holds.
LEMMA RingFacts ==
    ASSUME HopIInv
    PROVE  /\ cfg \in InstanceRecords /\ hop \in HopRecords
           /\ hop.xmit \in Nat /\ hop.samples \in Seq(Samples) /\ now \in Nat
           /\ truth \in Seq(Probes) /\ Len(truth) = hop.xmit
           /\ Len(hop.samples) \in 0..hop.xmit
           /\ hop.xmit > 0 => Len(hop.samples) > 0
           /\ Kept = (hop.xmit - Len(hop.samples) + 1)..hop.xmit
           /\ \A i \in 1..Len(hop.samples) :
                hop.samples[i] = Sample(truth, hop.xmit - Len(hop.samples) + i)
<1> DEFINE len == Len(hop.samples)
<1>1. /\ cfg \in InstanceRecords /\ cfg.capacity \in Nat \ {0}
      /\ hop \in HopRecords /\ hop.xmit \in Nat /\ hop.base \in Nat
      /\ hop.samples \in Seq(Samples) /\ len \in Nat /\ now \in Nat
      /\ truth \in Seq(Probes) /\ Len(truth) = hop.xmit
  BY InstanceFacts, LenProperties DEF HopIInv, HopTypes, HopRecords
<1>2. /\ len = AtMost(hop.xmit, cfg.capacity)
      /\ hop.base + len = hop.xmit + 1
  BY DEF HopIInv, Tails, TailOf
<1>3. \A i \in 1..len : hop.samples[i] = Sample(truth, hop.base + i - 1)
  BY DEF HopIInv, Tails, TailOf
<1>. HIDE DEF len
<1>4. len \in 0..hop.xmit /\ (hop.xmit > 0 => len > 0)
  BY <1>1, <1>2 DEF AtMost
<1>5. Kept = (hop.xmit - len + 1)..hop.xmit
  BY <1>1, <1>2 DEF AtMost, AtLeast, Kept
<1>6. \A i \in 1..len : hop.base + i - 1 = hop.xmit - len + i
  <2>1. hop.base \in Nat /\ hop.xmit \in Nat /\ len \in Nat /\ hop.base + len = hop.xmit + 1
    BY <1>1, <1>2
  <2>. QED  BY <2>1
<1>7. \A i \in 1..len : hop.samples[i] = Sample(truth, hop.xmit - len + i)
  BY <1>3, <1>6
<1>. QED  BY <1>1, <1>4, <1>5, <1>7 DEF len

\* The newest n probes of the ring are the newest n probes, or all it keeps.
LEMMA NewestIsNewest ==
    ASSUME HopIInv, NEW n \in Nat
    PROVE  LET m == AtMost(Len(hop.samples), n)
           IN  /\ m \in 0..hop.xmit /\ m <= n
               /\ Newest(n) \in Seq(Samples) /\ Len(Newest(n)) = m
               /\ DOMAIN Newest(n) = 1..m
               /\ \A i \in 1..m : Newest(n)[i] = Sample(truth, hop.xmit - m + i)
               /\ {seq \in Kept : Age(seq) < n} = (hop.xmit - m + 1)..hop.xmit
<1> DEFINE len == Len(hop.samples)
           m   == AtMost(len, n)
           a   == len - m + 1
<1>1. /\ hop.xmit \in Nat /\ hop.samples \in Seq(Samples) /\ len \in 0..hop.xmit
      /\ Kept = (hop.xmit - len + 1)..hop.xmit
  BY RingFacts
<1>2. \A i \in 1..len : hop.samples[i] = Sample(truth, hop.xmit - len + i)
  BY RingFacts
<1>3. \A i \in 1..len : hop.samples[i] \in Samples
  BY <1>1, ElementOfSeq
<1>4. Newest(n) = SubSeq(hop.samples, Minus(len, n) + 1, len)
  BY DEF Newest
<1>. HIDE DEF len
<1>5. /\ m \in 0..hop.xmit /\ m <= n /\ m <= len
      /\ Minus(len, n) + 1 = a /\ a \in 1..(len + 1)
      /\ len \in Int
  BY <1>1 DEF AtMost, AtLeast, Minus
<1>6. {seq \in Kept : Age(seq) < n} = (hop.xmit - m + 1)..hop.xmit
  BY <1>1 DEF AtMost, Age
<1>. HIDE DEF m
<1>7. \A i \in a..len : hop.samples[i] \in Samples
  BY <1>3, <1>5
<1>8. /\ Newest(n) \in Seq(Samples)
      /\ Len(Newest(n)) = IF a <= len THEN len - a + 1 ELSE 0
      /\ \A i \in 1..(len - a + 1) : Newest(n)[i] = hop.samples[a + i - 1]
  <2>. HIDE DEF a
  <2>1. a \in Int
    BY <1>5
  <2>. QED  BY <2>1, <1>4, <1>5, <1>7, SubSeqProperties
<1>9. Len(Newest(n)) = m /\ len - a + 1 = m
  BY <1>5, <1>8
<1>10. ASSUME NEW i \in 1..m
       PROVE  Newest(n)[i] = Sample(truth, hop.xmit - m + i)
  <2>1. /\ Newest(n)[i] = hop.samples[a + i - 1]
        /\ a + i - 1 \in 1..len
        /\ hop.xmit - len + (a + i - 1) = hop.xmit - m + i
    BY <1>1, <1>5, <1>8, <1>9
  <2>2. hop.samples[a + i - 1] = Sample(truth, hop.xmit - len + (a + i - 1))
    BY <2>1, <1>2
  <2>. QED  BY <2>1, <2>2
<1>11. DOMAIN Newest(n) = 1..m
  BY <1>8, <1>9, LenProperties
<1>. QED  BY <1>5, <1>6, <1>8, <1>9, <1>10, <1>11 DEF m, len

-----------------------------------------------------------------------------
(* The log *)

\* Each line of the log is about the probe of its place.
LEMMA LogIsTrue == ASSUME HopIInv PROVE LogTrue
<1> DEFINE rows == cfg.height
           newest == Newest(rows)
           m      == AtMost(Len(hop.samples), rows)
           row(i) == LET e == newest[Len(newest) + 1 - i]
                     IN  [ seq |-> e.seq, age |-> now - e.sent, us |-> e.outcome.us,
                           shown |-> CASE e.outcome.kind = "rtt"     -> e.outcome.result
                                       [] e.outcome.kind = "lost"    -> "no-reply"
                                       [] e.outcome.kind = "pending" -> "pending" ]
           log    == [i \in 1..m |-> row(i)]
<1>1. rows \in Nat /\ hop.xmit \in Nat
  BY RingFacts DEF InstanceRecords
<1>2. /\ m \in 0..hop.xmit /\ Len(newest) = m /\ DOMAIN newest = 1..m
      /\ \A i \in 1..m : newest[i] = Sample(truth, hop.xmit - m + i)
  BY <1>1, NewestIsNewest
<1>3. Log = log
  BY <1>2 DEF Log
<1>4. m = AtMost(Cardinality(Kept), rows)
  <2>1. Cardinality(Kept) = Len(hop.samples)
    <3>1. /\ Len(hop.samples) \in 0..hop.xmit
          /\ Kept = (hop.xmit - Len(hop.samples) + 1)..hop.xmit
      BY RingFacts
    <3>. DEFINE a == hop.xmit - Len(hop.samples) + 1
    <3>2. a \in Int /\ hop.xmit \in Int
      BY <3>1, <1>1
    <3>3. Cardinality(a..hop.xmit) = IF a > hop.xmit THEN 0 ELSE hop.xmit - a + 1
      BY <3>2, FS_Interval
    <3>. QED  BY <3>1, <3>3, <1>1
  <2>. QED  BY <2>1
<1>5. Len(log) = m /\ DOMAIN log = 1..m
  <2>. HIDE DEF m
  <2>. DEFINE S == {row(i) : i \in 1..m}
  <2>1. log \in [1..m -> S]
    OBVIOUS
  <2>. HIDE DEF S, log
  <2>2. m \in Nat
    BY <1>1, <1>2
  <2>. QED  BY <2>1, <2>2, LenOfFunction
<1>6. ASSUME NEW i \in 1..m
      PROVE  LET seq == hop.xmit + 1 - i
             IN  /\ log[i].seq = seq /\ log[i].us = truth[seq].outcome.us
                 /\ log[i].age = now - truth[seq].sent
                 /\ log[i].shown = "no-reply" <=> Is(seq, "lost")
                 /\ log[i].shown = "pending" <=> Is(seq, "pending")
  <2> DEFINE seq == hop.xmit + 1 - i
             e   == newest[Len(newest) + 1 - i]
  <2>. HIDE DEF m, newest
  <2>1. /\ m + 1 - i \in 1..m /\ hop.xmit - m + (m + 1 - i) = seq
        /\ seq \in 1..hop.xmit
    BY <1>1, <1>2
  <2>2. e = Sample(truth, seq)
    BY <2>1, <1>2
  <2>3. /\ e.seq = seq /\ e.sent = truth[seq].sent /\ e.outcome = truth[seq].outcome
    BY <2>2 DEF Sample
  <2>4. log[i] = row(i)
    OBVIOUS
  <2>. HIDE DEF log, e, seq
  <2>5. /\ truth[seq].outcome.kind \in {"pending", "lost", "rtt"}
        /\ truth[seq].outcome.kind = "rtt" => truth[seq].outcome.result \in Results
    <3>1. truth \in Seq(Probes) /\ Len(truth) = hop.xmit /\ DOMAIN truth = 1..hop.xmit
      BY RingFacts, LenProperties
    <3>2. truth[seq] \in Probes
      BY <3>1, <2>1, ElementOfSeq
    <3>. QED  BY <3>1, <3>2, <2>1 DEF Probes, Outcomes, HopIInv, Resulting
  <2>6. /\ log[i].seq = e.seq /\ log[i].us = e.outcome.us /\ log[i].age = now - e.sent
        /\ e.outcome.kind = "rtt" => log[i].shown = e.outcome.result
        /\ e.outcome.kind = "lost" => log[i].shown = "no-reply"
        /\ e.outcome.kind = "pending" => log[i].shown = "pending"
    BY <2>4 DEF e
  <2>7. "no-reply" \notin Results /\ "pending" \notin Results
    BY DEF Results
  <2>. QED  BY <2>3, <2>5, <2>6, <2>7 DEF Is, seq
<1>. HIDE DEF log, m, rows
<1>. QED  BY <1>3, <1>4, <1>5, <1>6 DEF LogTrue, rows

-----------------------------------------------------------------------------
(* The table *)

\* Widths are natural numbers.
LEMMA Widths ==
    /\ NumWidth \in Nat /\ HostMin \in Nat /\ SparkMin \in Nat
    /\ FixedColumns \in Nat /\ MinTextWidth \in Nat /\ MaxTime \in Nat
BY HopViewsAssumption

\* A row of the table fits in its line.
LEMMA RowFits ==
    ASSUME cfg \in InstanceRecords, NEW width \in Nat
    PROVE  Columns(width).spark \in Nat /\ TableFits(width)
<1> DEFINE wanted == LongestName + cfg.ipinfo
           avail  == Minus(width, NumWidth + cfg.stats + 1)
           host   == AtMost(wanted, avail - SparkMin)
           table  == Columns(width)
<1>1. /\ cfg.ipinfo \in Nat /\ cfg.stats \in Nat /\ cfg.name \in Nat
      /\ cfg.sparkline \in BOOLEAN
  BY DEF InstanceRecords
<1>2. LongestName \in Nat /\ LongestName >= HostMin
  BY <1>1, Widths DEF LongestName, Unknown, AtLeast
<1>. HIDE DEF wanted
<1>3. wanted \in Nat /\ wanted >= HostMin + cfg.ipinfo
  BY <1>1, <1>2, Widths DEF wanted
<1>4. /\ avail \in Nat
      /\ avail > 0 => avail = width - (NumWidth + cfg.stats + 1)
      /\ width > NumWidth + cfg.stats => NumWidth + cfg.stats + avail + 1 = width
  BY <1>1, Widths DEF Minus, AtLeast
<1>. HIDE DEF avail
<1>5. CASE cfg.sparkline /\ avail >= HostMin + cfg.ipinfo + SparkMin
  <2>1. table = [host |-> host, spark |-> avail - host]
    BY <1>5 DEF Columns, wanted, avail
  <2>2. /\ host \in Nat /\ avail - host \in Nat /\ avail - host >= SparkMin
        /\ host >= HostMin
    BY <1>1, <1>3, <1>4, <1>5, Widths DEF AtMost
  <2>3. table.host = host /\ table.spark = avail - host
    BY <2>1
  <2>. HIDE DEF table, host
  <2>. QED  BY <2>2, <2>3, <1>1, <1>4, Widths DEF TableFits, table
<1>6. CASE ~(cfg.sparkline /\ avail >= HostMin + cfg.ipinfo + SparkMin)
  <2> DEFINE wide == AtLeast(AtMost(wanted, avail), AtMost(HostMin, avail))
  <2>1. table = [host |-> wide, spark |-> 0]
    BY <1>6 DEF Columns, wanted, avail
  <2>2. wide \in Nat /\ wide <= avail
    BY <1>3, <1>4, Widths DEF AtMost, AtLeast
  <2>3. table.host = wide /\ table.spark = 0
    BY <2>1
  <2>. HIDE DEF table, wide
  <2>. QED  BY <2>2, <2>3, <1>1, <1>4, Widths DEF TableFits, table
<1>. QED  BY <1>5, <1>6

\* Each cell of a sparkline is about the probe of its place.
LEMMA SparklineIsTrue ==
    ASSUME HopIInv, NEW spark \in Nat
    PROVE  SparklineTrue(spark)
<1>. SUFFICES ASSUME hop.returned > 0, NEW i \in 1..spark
              PROVE  LET seq == hop.xmit - (spark - i)
                         cell == Cells(spark)[i]
                     IN  IF seq \in Kept
                         THEN /\ Is(seq, cell.kind)
                              /\ cell.kind = "rtt" => cell.us = truth[seq].outcome.us
                         ELSE cell = Blank
  BY DEF SparklineTrue
<1> DEFINE newest == Newest(spark)
           m      == AtMost(Len(hop.samples), spark)
           seq    == hop.xmit - (spark - i)
           empty  == Minus(spark, Len(newest))
           left   == [j \in 1..empty |-> Blank]
           right  == [j \in DOMAIN newest |-> Cell(newest[j])]
           S      == {Blank} \cup {Cell(newest[j]) : j \in 1..m}
           cell   == Cells(spark)[i]
<1>1. hop.xmit \in Nat /\ hop \in HopRecords
  BY RingFacts
<1>2. /\ m \in 0..hop.xmit /\ m <= spark /\ Len(newest) = m /\ DOMAIN newest = 1..m
      /\ {s \in Kept : Age(s) < spark} = (hop.xmit - m + 1)..hop.xmit
  BY NewestIsNewest
<1>3. \A j \in 1..m : newest[j] = Sample(truth, hop.xmit - m + j)
  BY NewestIsNewest
<1>4. Cells(spark) = left \o right
  <2>1. hop.returned # 0
    BY <1>1 DEF HopRecords
  <2>. QED  BY <2>1, Zenon DEF Cells
<1>. HIDE DEF newest, m
<1>5. empty = spark - m /\ empty \in Nat /\ m \in Nat
  BY <1>1, <1>2 DEF Minus, AtLeast
<1>. HIDE DEF empty
<1>6. left \in [1..empty -> S] /\ right \in [1..m -> S]
  BY <1>2
<1>7. /\ left \in Seq(S) /\ Len(left) = empty
      /\ right \in Seq(S) /\ Len(right) = m
  <2>. HIDE DEF left, right, S
  <2>. QED  BY <1>5, <1>6, LenOfFunction
<1>8. cell = IF i <= empty THEN left[i] ELSE right[i - empty]
  <2>1. i \in 1..(empty + m)
    BY <1>5
  <2>. HIDE DEF left, right, S
  <2>. QED  BY <2>1, <1>4, <1>7, ConcatProperties
<1>. HIDE DEF cell
<1>9. /\ seq \in Int /\ Age(seq) = spark - i /\ Age(seq) < spark
      /\ seq \in Kept <=> seq \in (hop.xmit - m + 1)..hop.xmit
  <2>1. seq \in Int /\ Age(seq) = spark - i /\ spark - i < spark
    BY <1>1 DEF Age
  <2>. QED  BY <2>1, <1>2
<1>10. CASE i <= empty
  <2>1. seq \notin Kept
    BY <1>1, <1>5, <1>9, <1>10
  <2>2. cell = Blank
    BY <1>5, <1>8, <1>10
  <2>. QED  BY <2>1, <2>2 DEF cell
<1>11. CASE ~(i <= empty)
  <2>1. /\ i - empty \in 1..m /\ hop.xmit - m + (i - empty) = seq
        /\ seq \in (hop.xmit - m + 1)..hop.xmit
    BY <1>1, <1>5, <1>11
  <2>2. seq \in Kept
    BY <2>1, <1>9
  <2>3. cell = Cell(newest[i - empty])
    BY <2>1, <1>2, <1>8, <1>11
  <2>4. newest[i - empty] = Sample(truth, seq)
    BY <2>1, <1>3
  <2>5. /\ cell.kind = truth[seq].outcome.kind
        /\ cell.kind = "rtt" => cell.us = truth[seq].outcome.us
    <3>. HIDE DEF seq
    <3>. QED  BY <2>3, <2>4 DEF Cell, Sample
  <2>. QED  BY <2>2, <2>5 DEF Is, cell
<1>. QED  BY <1>10, <1>11

-----------------------------------------------------------------------------
(* The chart *)

\* A label has a width.
LEMMA LabelWidthType == \A ceiling : LabelWidth(ceiling) \in Nat
<1>1. SUFFICES ASSUME NEW ceiling PROVE LabelWidth(ceiling) \in Nat
  OBVIOUS
<1>2. IsFiniteSet(Powers)
  <2>1. Powers \in SUBSET Nat /\ \A power \in Powers : power <= 1000000
    BY SMT DEF Powers
  <2>. QED  BY <2>1, FS_BoundedSetOfNaturals, SMT
<1>3. IsFiniteSet({power \in Powers : power <= ceiling})
  BY <1>2, FS_Subset
<1>4. Digits(ceiling) \in Nat
  BY <1>3, FS_CardinalityType DEF Digits
<1>. QED  BY <1>4 DEF LabelWidth

\* The column of the chart for a probe of this age, of so many columns.
ColumnOf(columns, seq) == columns - 1 - (Age(seq) \div 2)

\* Two probes to a column, the newest in the last one.
LEMMA HalfColumns ==
    ASSUME NEW columns \in Nat, NEW age \in Nat, age < 2 * columns
    PROVE  /\ (2 * columns - 1 - age) \div 2 = columns - 1 - (age \div 2)
           /\ columns - 1 - (age \div 2) \in 0..(columns - 1)
OBVIOUS

\* Whatever the number of columns, what is in them is what became of the newest probes.
LEMMA ChartPointsTrue ==
    ASSUME HopIInv, NEW columns \in Nat \ {0}
    PROVE  LET data  == ChartPoints(columns)
               shown == {seq \in Kept : Age(seq) < 2 * columns}
           IN  /\ data.columns = columns
               /\ data.points = {<<ColumnOf(columns, seq), truth[seq].outcome.us>> :
                                    seq \in {s \in shown : Is(s, "rtt")}}
               /\ data.lost = {ColumnOf(columns, seq) : seq \in {s \in shown : Is(s, "lost")}}
               /\ hop.xmit > 0 => data.span >= 2 * columns - 1
               /\ cfg.waits = 0 /\ hop.xmit > 0 => data.span = 2 * columns - 1
<1> DEFINE n         == 2 * columns
           window    == Newest(n)
           m         == AtMost(Len(hop.samples), n)
           offset    == n - Len(window)
           column(i) == (offset + i - 1) \div 2
           shown     == {seq \in Kept : Age(seq) < n}
           of(i)     == hop.xmit - m + i
           is(kind)  == {i \in DOMAIN window : window[i].outcome.kind = kind}
           data      == ChartPoints(columns)
<1>1. n \in Nat /\ n > 0 /\ hop.xmit \in Nat
  BY RingFacts
<1>2. /\ m \in 0..hop.xmit /\ m <= n /\ Len(window) = m /\ DOMAIN window = 1..m
      /\ shown = (hop.xmit - m + 1)..hop.xmit
  BY <1>1, NewestIsNewest
<1>3. \A i \in 1..m : window[i] = Sample(truth, of(i))
  BY <1>1, NewestIsNewest
<1>4. /\ data.columns = columns
      /\ data.points = {<<column(i), window[i].outcome.us>> : i \in is("rtt")}
      /\ data.lost = {column(i) : i \in is("lost")}
      /\ data.span = offset + (IF window = <<>> THEN 0 ELSE now - window[1].sent)
  BY DEF ChartPoints
<1>5. m > 0 <=> hop.xmit > 0
  BY <1>1, <1>2, RingFacts DEF AtMost
<1>6. window = <<>> <=> m = 0
  BY <1>1, <1>2, NewestIsNewest, EmptySeq
<1>. HIDE DEF window, m, data
<1>7. ASSUME NEW i \in 1..m
      PROVE  /\ of(i) \in shown /\ column(i) = ColumnOf(columns, of(i))
             /\ window[i].outcome = truth[of(i)].outcome
  <2>1. of(i) \in shown /\ Age(of(i)) = m - i /\ m - i \in Nat /\ m - i < n
    BY <1>1, <1>2 DEF Age
  <2>2. offset + i - 1 = n - 1 - (m - i)
    BY <1>1, <1>2
  <2>3. (n - 1 - (m - i)) \div 2 = columns - 1 - ((m - i) \div 2)
    BY <2>1, HalfColumns
  <2>4. window[i].outcome = truth[of(i)].outcome
    <3>1. window[i] = Sample(truth, of(i))
      BY <1>3
    <3>. HIDE DEF of
    <3>. QED  BY <3>1 DEF Sample
  <2>. QED  BY <2>1, <2>2, <2>3, <2>4 DEF ColumnOf
<1>8. ASSUME NEW seq \in shown
      PROVE  \E i \in 1..m : of(i) = seq
  <2>1. seq - hop.xmit + m \in 1..m /\ of(seq - hop.xmit + m) = seq
    BY <1>1, <1>2
  <2>. QED  BY <2>1
<1>. HIDE DEF of, shown, column
<1>9. \A kind : {of(i) : i \in is(kind)} = {s \in shown : Is(s, kind)}
  <2>. SUFFICES ASSUME NEW kind
                PROVE  {of(i) : i \in is(kind)} = {s \in shown : Is(s, kind)}
    OBVIOUS
  <2>1. \A i \in 1..m : of(i) \in shown /\ (i \in is(kind) <=> Is(of(i), kind))
    BY <1>2, <1>7 DEF Is
  <2>2. is(kind) \subseteq 1..m
    BY <1>2
  <2>. HIDE DEF is
  <2>. QED  BY <2>1, <2>2, <1>8
<1>10. \A kind : \A i \in is(kind) :
          column(i) = ColumnOf(columns, of(i)) /\ window[i].outcome.us = truth[of(i)].outcome.us
  BY <1>2, <1>7
<1>11. data.lost = {ColumnOf(columns, seq) : seq \in {s \in shown : Is(s, "lost")}}
  <2>1. {column(i) : i \in is("lost")} = {ColumnOf(columns, seq) : seq \in {of(i) : i \in is("lost")}}
    BY <1>10
  <2>. QED  BY <2>1, <1>4, <1>9
<1>12. data.points = {<<ColumnOf(columns, seq), truth[seq].outcome.us>> :
                         seq \in {s \in shown : Is(s, "rtt")}}
  <2>1. {<<column(i), window[i].outcome.us>> : i \in is("rtt")}
          = {<<ColumnOf(columns, seq), truth[seq].outcome.us>> : seq \in {of(i) : i \in is("rtt")}}
    BY <1>10
  <2>. QED  BY <2>1, <1>4, <1>9
<1>13. ASSUME hop.xmit > 0
       PROVE  /\ data.span >= n - 1
              /\ cfg.waits = 0 => data.span = n - 1
  <2> DEFINE first == hop.xmit - m + 1
             sent  == truth[first].sent
  <2>1. m \in 1..hop.xmit /\ first \in 1..hop.xmit
    BY <1>1, <1>2, <1>5, <1>13
  <2>2. window[1].sent = sent
    <3>1. window[1] = Sample(truth, of(1)) /\ of(1) = first
      BY <2>1, <1>3 DEF of
    <3>. HIDE DEF first
    <3>. QED  BY <3>1 DEF Sample
  <2>3. data.span = n - m + (now - sent)
    BY <2>1, <2>2, <1>2, <1>4, <1>6
  <2>4. sent <= now - Age(first) /\ (cfg.waits = 0 => sent = now - Age(first))
    BY <2>1 DEF HopIInv, Spaced
  <2>5. Age(first) = m - 1
    BY <2>1, <1>1 DEF Age
  <2>6. sent \in Nat /\ now \in Nat
    <3>1. truth[first] \in Probes
      BY <2>1, RingFacts, ElementOfSeq
    <3>. QED  BY <3>1, RingFacts DEF Probes
  <2>. HIDE DEF sent, first, n
  <2>. QED  BY <2>1, <2>3, <2>4, <2>5, <2>6, <1>1
<1>. QED  BY <1>4, <1>11, <1>12, <1>13 DEF data, shown

\* The chart is drawn for some number of columns, at least one.
LEMMA ChartDataIsPoints ==
    ASSUME NEW width \in Nat
    PROVE  \E columns \in Nat \ {0} : ChartData(width) = ChartPoints(columns)
<1>1. \A label \in Nat : ChartColumns(width, label) \in Nat \ {0}
  BY DEF ChartColumns, AtLeast
<1>. QED  BY <1>1, LabelWidthType DEF ChartData

\* Stars and loss marks stand where the age of their probe puts them.
LEMMA ChartIsTrue ==
    ASSUME HopIInv, NEW width \in Nat
    PROVE  ChartTrue(width)
<1> DEFINE data    == ChartData(width)
           label   == LabelWidth(data.ceiling)
           shown   == {seq \in Kept : Age(seq) < 2 * data.columns}
           column(seq) == width - 1 - (Age(seq) \div 2)
           is(kind) == {s \in shown : Is(s, kind)}
<1>. SUFFICES ASSUME LabelSettles(width, data), width > label
              PROVE  /\ LossMarks(width, data) = {column(seq) : seq \in is("lost")}
                     /\ PlotHeight > 0 =>
                          Stars(width, data) =
                            {<<column(seq), PlotRow(truth[seq].outcome.us, data.ceiling)>> :
                                seq \in is("rtt")}
                     /\ hop.xmit > 0 => data.span >= 2 * data.columns - 1
                     /\ cfg.waits = 0 /\ hop.xmit > 0 => data.span = 2 * data.columns - 1
  BY DEF ChartTrue
<1>1. PICK columns \in Nat \ {0} : data = ChartPoints(columns)
  BY ChartDataIsPoints
<1>2. /\ data.columns = columns
      /\ data.points = {<<ColumnOf(columns, seq), truth[seq].outcome.us>> : seq \in is("rtt")}
      /\ data.lost = {ColumnOf(columns, seq) : seq \in is("lost")}
      /\ hop.xmit > 0 => data.span >= 2 * columns - 1
      /\ cfg.waits = 0 /\ hop.xmit > 0 => data.span = 2 * columns - 1
  BY <1>1, ChartPointsTrue
<1>3. label \in Nat
  BY LabelWidthType
<1>. HIDE DEF data
<1>4. columns = width - label
  <2>1. columns = AtLeast(width - label, 1)
    BY <1>2 DEF LabelSettles, ChartColumns
  <2>. HIDE DEF label
  <2>. QED  BY <2>1, <1>3 DEF AtLeast
<1>. HIDE DEF label
<1>5. ASSUME NEW seq \in shown
      PROVE  /\ label + ColumnOf(columns, seq) = column(seq)
             /\ ColumnOf(columns, seq) \in 0..(columns - 1)
             /\ column(seq) \in 0..(width - 1)
  <2>1. /\ hop.xmit \in Nat /\ Len(hop.samples) \in 0..hop.xmit
        /\ Kept = (hop.xmit - Len(hop.samples) + 1)..hop.xmit
    BY RingFacts
  <2>2. Age(seq) \in Nat /\ Age(seq) < 2 * columns
    <3>1. hop.xmit - seq \in Nat
      BY <2>1
    <3>. QED  BY <3>1, <1>2 DEF Age
  <2>3. ColumnOf(columns, seq) \in 0..(columns - 1)
    BY <2>2, HalfColumns DEF ColumnOf
  <2>4. Age(seq) \div 2 \in Int
    BY <2>2
  <2>. QED  BY <2>2, <2>3, <2>4, <1>3, <1>4 DEF ColumnOf
<1>6. \A kind : is(kind) \subseteq shown
  OBVIOUS
<1>. HIDE DEF is, shown, column
<1>7. LossMarks(width, data) = {column(seq) : seq \in is("lost")}
  <2>1. LossMarks(width, data) = {label + c : c \in data.lost} \cap 0..(width - 1)
    BY DEF LossMarks, label
  <2>2. {label + c : c \in data.lost} = {column(seq) : seq \in is("lost")}
    BY <1>2, <1>5, <1>6
  <2>3. {column(seq) : seq \in is("lost")} \subseteq 0..(width - 1)
    BY <1>5, <1>6
  <2>. QED  BY <2>1, <2>2, <2>3
<1>8. ASSUME PlotHeight > 0
      PROVE  Stars(width, data) =
               {<<column(seq), PlotRow(truth[seq].outcome.us, data.ceiling)>> : seq \in is("rtt")}
  <2> DEFINE seen == {q \in data.points : q[1] < AtMost(data.columns, width - label)}
  <2>1. Stars(width, data) = {<<label + p[1], PlotRow(p[2], data.ceiling)>> : p \in seen}
    <3>1. PlotHeight # 0 /\ ~(width <= label)
      BY <1>3, <1>8
    <3>. QED  BY <3>1 DEF Stars, label
  <2>2. AtMost(data.columns, width - label) = columns
    BY <1>2, <1>4 DEF AtMost
  <2>3. \A q \in data.points : q[1] < columns
    <3>1. \A seq \in is("rtt") : ColumnOf(columns, seq) < columns
      BY <1>5, <1>6
    <3>. QED  BY <3>1, <1>2
  <2>4. seen = data.points
    BY <2>2, <2>3
  <2>5. \A seq \in is("rtt") : label + ColumnOf(columns, seq) = column(seq)
    BY <1>5, <1>6
  <2>6. {<<label + p[1], PlotRow(p[2], data.ceiling)>> : p \in data.points}
          = {<<column(seq), PlotRow(truth[seq].outcome.us, data.ceiling)>> : seq \in is("rtt")}
    <3> DEFINE star(p) == <<label + p[1], PlotRow(p[2], data.ceiling)>>
               spot(seq) == <<ColumnOf(columns, seq), truth[seq].outcome.us>>
    <3>1. data.points = {spot(seq) : seq \in is("rtt")}
      BY <1>2
    <3>2. \A seq \in is("rtt") :
            star(spot(seq)) = <<column(seq), PlotRow(truth[seq].outcome.us, data.ceiling)>>
      BY <2>5
    <3>. HIDE DEF star, spot
    <3>3. {star(p) : p \in data.points} = {star(spot(seq)) : seq \in is("rtt")}
      BY <3>1
    <3>. QED  BY <3>2, <3>3 DEF star
  <2>. QED  BY <2>1, <2>4, <2>6
<1>. QED  BY <1>2, <1>7, <1>8

\* Sparkline, log and chart tell the truth of the newest probes in every state: for every size
\* of the ring, every order in which their outcomes come in and every width of the terminal.
THEOREM ViewsAreTrue == HopSpec => []ViewsTellTruth
<1>1. ASSUME HopIInv PROVE ViewsTellTruth
  <2>1. cfg \in InstanceRecords
    BY <1>1, RingFacts
  <2>2. ASSUME NEW width \in cfg.widths
        PROVE  SparklineTrue(Columns(width).spark) /\ ChartTrue(width)
    <3>1. width \in Nat
      BY <2>1 DEF InstanceRecords
    <3>2. Columns(width).spark \in Nat
      BY <2>1, <3>1, RowFits
    <3>. QED  BY <1>1, <3>1, <3>2, SparklineIsTrue, ChartIsTrue
  <2>. QED  BY <1>1, <2>2, LogIsTrue DEF ViewsTellTruth
<1>. QED  BY <1>1, Invariant, PTL

-----------------------------------------------------------------------------
(* Least and greatest times *)

\* What Min and Max choose.
LEMMA MinIsLeast ==
    ASSUME NEW T, T \subseteq Nat, T # {}
    PROVE  Min(T) \in T /\ \A y \in T : Min(T) <= y
BY First DEF Min

LEMMA MaxIsGreatest ==
    ASSUME NEW n \in Nat, NEW T, T \subseteq 0..n, T # {}
    PROVE  Max(T) \in T /\ \A y \in T : y <= Max(T)
<1> DEFINE below == {n - y : y \in T}
<1>1. below \subseteq Nat /\ below # {}
  OBVIOUS
<1>2. PICK d \in below : \A e \in below : d <= e
  BY <1>1, First
<1>3. PICK x \in T : d = n - x
  OBVIOUS
<1>4. \A y \in T : n - x <= n - y
  BY <1>2, <1>3
<1>5. \A y \in T : x >= y
  BY <1>4
<1>6. \E m \in T : \A y \in T : m >= y
  BY <1>5
<1>. QED  BY <1>6 DEF Max

-----------------------------------------------------------------------------
(* Bars *)

\* A time is within the bars up to i, of the scale as it is.
Within(us, i) ==
    Buckets * Buckets * (us - Scale.low) <= (Scale.high - Scale.low) * (i + 1) * (i + 1)

\* The ring remembers times.
LEMMA SampleTimes == \A sample \in Samples : sample.outcome.us \in Times
BY DEF Samples, Outcomes

\* The scale spans the times on display.
LEMMA ScaleFacts ==
    ASSUME HopIInv
    PROVE  /\ Remembered \subseteq Times
           /\ Scale.low \in Nat /\ Scale.high \in Nat /\ Scale.low <= Scale.high
<1>1. Remembered \subseteq Times
  <2>1. cfg.others \subseteq Times
    BY RingFacts DEF InstanceRecords
  <2>2. hop.samples \in Seq(Samples) /\ DOMAIN hop.samples = 1..Len(hop.samples)
    BY RingFacts, LenProperties
  <2>3. \A i \in DOMAIN hop.samples : hop.samples[i].outcome.us \in Times
    BY <2>2, ElementOfSeq, SampleTimes
  <2>. QED  BY <2>1, <2>3 DEF Remembered
<1>2. CASE Remembered = {}
  BY <1>1, <1>2 DEF Scale
<1>3. CASE Remembered # {}
  <2>1. Remembered \subseteq Nat /\ Remembered \subseteq 0..MaxTime
    BY <1>1, Widths DEF Times
  <2>2. /\ Min(Remembered) \in Remembered /\ Max(Remembered) \in Remembered
        /\ \A y \in Remembered : Min(Remembered) <= y
    BY <1>3, <2>1, Widths, MinIsLeast, MaxIsGreatest
  <2>3. Scale.low = Min(Remembered) /\ Scale.high = Max(Remembered)
    BY <1>3 DEF Scale
  <2>. QED  BY <1>1, <2>1, <2>2, <2>3
<1>. QED  BY <1>2, <1>3

\* A time has the first bar it is within, or the last one.
LEMMA BucketIsFirst ==
    ASSUME NEW us
    PROVE  /\ Bucket(us) \in 0..(Buckets - 1)
           /\ \A j \in 0..(Bucket(us) - 1) : ~Within(us, j)
           /\ Bucket(us) < Buckets - 1 => Within(us, Bucket(us))
<1> DEFINE last == Buckets - 1
           bars == {i \in 0..last : Within(us, i)}
           first(i) == Within(us, i) /\ \A j \in 0..(i - 1) : ~Within(us, j)
<1>1. last \in Nat
  BY DEF Buckets
<1>2. Bucket(us) = IF \E i \in 0..last : Within(us, i)
                   THEN CHOOSE i \in 0..last : first(i)
                   ELSE last
  BY DEF Bucket, Within
<1>. HIDE DEF last
<1>3. CASE bars = {}
  BY <1>1, <1>2, <1>3 DEF last
<1>4. CASE bars # {}
  <2>1. PICK i \in bars : \A j \in bars : i <= j
    <3>1. bars \subseteq Nat
      BY <1>1
    <3>. HIDE DEF bars
    <3>. QED  BY <3>1, <1>4, First
  <2>2. i \in 0..last /\ first(i)
    <3>1. \A j \in 0..(i - 1) : j \in 0..last /\ ~(i <= j)
      BY <1>1
    <3>. QED  BY <2>1, <3>1
  <2>. HIDE DEF first
  <2>3. Bucket(us) \in 0..last /\ first(Bucket(us))
    BY <1>2, <1>4, <2>2
  <2>. QED  BY <2>3 DEF first, last
<1>. QED  BY <1>3, <1>4

\* Longer times have higher bars, the shortest the first one and the longest the last one.
LEMMA BarsAreInOrder == ASSUME HopIInv PROVE BarsInOrder
<1> DEFINE low  == Scale.low
           high == Scale.high
           span == high - low
<1>1. low \in Nat /\ high \in Nat /\ low <= high /\ Remembered \subseteq Nat
  BY ScaleFacts, Widths DEF Times
<1>2. ASSUME NEW us \in Nat PROVE Bucket(us) \in 0..7
  BY BucketIsFirst DEF Buckets
<1>3. \A us, j : Within(us, j) <=> 64 * (us - low) <= span * (j + 1) * (j + 1)
  BY DEF Within, Buckets
<1>. HIDE DEF low, high
<1>4. ASSUME NEW us \in Nat, NEW vs \in Nat, us <= vs
      PROVE  Bucket(us) <= Bucket(vs)
  <2>1. SUFFICES ASSUME Bucket(vs) < Bucket(us) PROVE FALSE
    BY <1>2
  <2>2. Bucket(vs) \in 0..(Bucket(us) - 1) /\ Bucket(vs) < 7
    BY <2>1, <1>2
  <2>3. ~Within(us, Bucket(vs)) /\ Within(vs, Bucket(vs))
    BY <2>2, BucketIsFirst DEF Buckets
  <2> DEFINE bound == span * (Bucket(vs) + 1) * (Bucket(vs) + 1)
  <2>4. bound \in Int
    BY <1>1, <1>2
  <2>5. 64 * (vs - low) <= bound /\ ~(64 * (us - low) <= bound)
    BY <2>3, <1>3
  <2>. HIDE DEF bound
  <2>. QED  BY <2>4, <2>5, <1>1, <1>4
<1>5. ASSUME low < high
      PROVE  Bucket(low) = 0 /\ Bucket(high) = 7
  <2>1. Bucket(low) = 0
    <3>1. Within(low, 0)
      BY <1>1, <1>3, <1>5
    <3>2. ~(0 \in 0..(Bucket(low) - 1))
      BY <3>1, BucketIsFirst
    <3>. QED  BY <3>2, <1>1, <1>2
  <2>2. Bucket(high) = 7
    <3>1. SUFFICES ASSUME Bucket(high) \in 0..6 PROVE FALSE
      BY <1>1, <1>2
    <3>2. Within(high, Bucket(high))
      BY <3>1, BucketIsFirst DEF Buckets
    <3>3. span \in Nat /\ span > 0
      BY <1>1, <1>5
    <3>. HIDE DEF span
    <3>4. \A b \in 0..6 : span * (b + 1) * (b + 1) < 64 * span
      BY <3>3
    <3>5. 64 * span <= span * (Bucket(high) + 1) * (Bucket(high) + 1)
      BY <3>2, <1>3 DEF span
    <3>6. span * (Bucket(high) + 1) * (Bucket(high) + 1) < 64 * span
      BY <3>1, <3>4
    <3>7. span * (Bucket(high) + 1) * (Bucket(high) + 1) \in Int
      BY <3>1, <3>3
    <3>. QED  BY <3>3, <3>5, <3>6, <3>7
  <2>. QED  BY <2>1, <2>2
<1>. QED  BY <1>1, <1>4, <1>5 DEF BarsInOrder, Buckets, low, high

-----------------------------------------------------------------------------
(* Stars *)

\* A ceiling is at least the time it is computed for.
LEMMA CeilingFacts ==
    ASSUME NEW us \in Times
    PROVE  NiceCeiling(us) \in Nat \ {0} /\ us <= 1000 * NiceCeiling(us)
<1> DEFINE over == {c \in Ceilings : (us + 999) \div 1000 <= c}
<1>1. us \in Nat /\ us <= MaxTime /\ MaxTime \in Nat
  BY Widths DEF Times
<1>2. Ceilings \subseteq Nat \ {0}
  BY SMT DEF Ceilings, Powers
<1>3. PICK c \in Ceilings : MaxTime \div 1000 < c
  BY CeilingsAssumption
<1>4. c \in over
  <2>1. us < 1000 * c
    BY <1>1, <1>2, <1>3
  <2>. QED  BY <2>1, <1>1, <1>2
<1>5. NiceCeiling(us) \in over
  <2>1. over \subseteq Nat /\ over # {}
    <3>1. over \subseteq Ceilings
      OBVIOUS
    <3>. HIDE DEF over
    <3>. QED  BY <3>1, <1>2, <1>4
  <2>2. NiceCeiling(us) = Min(over)
    BY DEF NiceCeiling
  <2>. HIDE DEF over
  <2>. QED  BY <2>1, <2>2, MinIsLeast
<1>6. \A d \in over : d \in Nat \ {0} /\ us <= 1000 * d
  BY <1>1, <1>2
<1>. HIDE DEF over
<1>. QED  BY <1>5, <1>6

\* Division, and that it keeps the order.
LEMMA DivisionFacts ==
    ASSUME NEW a \in Nat, NEW b \in Nat \ {0}
    PROVE  a \div b \in Nat /\ b * (a \div b) <= a /\ a < b * ((a \div b) + 1)
OBVIOUS

LEMMA ProductKeepsOrder ==
    ASSUME NEW a \in Nat, NEW b \in Nat, NEW k \in Nat, a <= b
    PROVE  a * k <= b * k
OBVIOUS

LEMMA DivisionBelow ==
    ASSUME NEW a \in Nat, NEW b \in Nat \ {0}, NEW k \in Nat, a < b * (k + 1)
    PROVE  a \div b <= k
<1> DEFINE q == a \div b
<1>1. q \in Nat /\ b * q <= a
  BY DivisionFacts
<1>. HIDE DEF q
<1>2. SUFFICES ASSUME q >= k + 1 PROVE FALSE
  BY <1>1 DEF q
<1>3. (k + 1) * b <= q * b
  BY <1>1, <1>2, ProductKeepsOrder
<1>4. q * b = b * q /\ (k + 1) * b = b * (k + 1)
  BY <1>1
<1>. QED  BY <1>1, <1>3, <1>4

LEMMA DivisionKeepsOrder ==
    ASSUME NEW a \in Nat, NEW b \in Nat, NEW d \in Nat \ {0}, a <= b
    PROVE  a \div d <= b \div d
<1> DEFINE k == b \div d
<1>1. k \in Nat /\ b < d * (k + 1)
  BY DivisionFacts
<1>. HIDE DEF k
<1>2. d * (k + 1) \in Nat
  BY <1>1
<1>3. a < d * (k + 1)
  BY <1>1, <1>2
<1>. QED  BY <1>1, <1>3, DivisionBelow DEF k

\* A row of the plot for each time under the ceiling, higher ones for longer times.
LEMMA PlotRows ==
    ASSUME PlotHeight \in Nat \ {0}, NEW ceiling \in Nat \ {0},
           NEW us \in Nat, us <= 1000 * ceiling
    PROVE  /\ PlotRow(us, ceiling) \in 0..(PlotHeight - 1)
           /\ \A vs \in Nat : vs <= us => PlotRow(vs, ceiling) >= PlotRow(us, ceiling)
<1> DEFINE top     == PlotHeight - 1
           full    == 1000 * ceiling
           row(vs) == (2 * (vs * top) + full) \div (2 * full)
<1>1. top \in Nat /\ full \in Nat \ {0} /\ 2 * full \in Nat \ {0}
  OBVIOUS
<1>2. \A vs : PlotRow(vs, ceiling) = top - row(vs)
  BY DEF PlotRow, Rounded
<1>3. ASSUME NEW vs \in Nat
      PROVE  vs * top \in Nat /\ 2 * (vs * top) + full \in Nat /\ row(vs) \in Nat
  <2>. HIDE DEF top, full
  <2>1. vs * top \in Nat
    BY <1>1
  <2>2. 2 * (vs * top) + full \in Nat
    BY <2>1, <1>1
  <2>. QED  BY <2>1, <2>2, <1>1, DivisionFacts
<1>4. row(us) <= top
  <2>. HIDE DEF top, full
  <2>1. us * top <= full * top
    BY <1>1, ProductKeepsOrder DEF full
  <2>2. us * top \in Nat /\ full * top \in Nat
    BY <1>1
  <2>3. 2 * full * (top + 1) = 2 * (full * top) + 2 * full
    BY <1>1
  <2>4. 2 * (us * top) + full < 2 * full * (top + 1)
    BY <2>1, <2>2, <2>3, <1>1
  <2>. QED  BY <2>4, <1>1, <1>3, DivisionBelow
<1>5. ASSUME NEW vs \in Nat, vs <= us
      PROVE  row(vs) <= row(us)
  <2>. HIDE DEF top, full
  <2>1. vs * top <= us * top
    BY <1>1, <1>5, ProductKeepsOrder
  <2>2. 2 * (vs * top) + full <= 2 * (us * top) + full
    BY <2>1, <1>1, <1>3
  <2>. QED  BY <2>2, <1>1, <1>3, DivisionKeepsOrder
<1>. HIDE DEF row
<1>6. PlotRow(us, ceiling) \in 0..top
  BY <1>1, <1>2, <1>3, <1>4
<1>7. \A vs \in Nat : vs <= us => PlotRow(vs, ceiling) >= PlotRow(us, ceiling)
  BY <1>1, <1>2, <1>3, <1>5
<1>. QED  BY <1>6, <1>7

\* The ceiling of a chart is one for all the times in it.
LEMMA ChartCeiling ==
    ASSUME HopIInv, NEW columns \in Nat \ {0}
    PROVE  LET data == ChartPoints(columns)
           IN  /\ data.ceiling \in Nat \ {0}
               /\ \A p \in data.points : p[2] \in Nat /\ p[2] <= 1000 * data.ceiling
<1> DEFINE window == Newest(2 * columns)
           timed  == {i \in DOMAIN window : window[i].outcome.kind = "rtt"}
           times  == {window[i].outcome.us : i \in timed}
           worst  == Max({0} \cup times)
           data   == ChartPoints(columns)
<1>1. /\ data.ceiling = NiceCeiling(worst)
      /\ \A p \in data.points : p[2] \in times
  BY DEF ChartPoints
<1>2. times \subseteq Times
  <2>1. 2 * columns \in Nat
    OBVIOUS
  <2>2. window \in Seq(Samples) /\ DOMAIN window = 1..Len(window)
    BY <2>1, NewestIsNewest, LenProperties
  <2>3. \A i \in DOMAIN window : window[i].outcome.us \in Times
    BY <2>2, ElementOfSeq, SampleTimes
  <2>. QED  BY <2>3
<1>. HIDE DEF data, times
<1>3. {0} \cup times \subseteq 0..MaxTime /\ {0} \cup times # {} /\ MaxTime \in Nat
  BY <1>2, Widths DEF Times
<1>4. worst \in Times /\ \A us \in times : us <= worst
  BY <1>3, MaxIsGreatest DEF Times
<1>. HIDE DEF worst
<1>5. data.ceiling \in Nat \ {0} /\ worst <= 1000 * data.ceiling
  BY <1>1, <1>4, CeilingFacts
<1>6. worst \in Nat /\ times \subseteq Nat
  BY <1>2, <1>4, Widths DEF Times
<1>7. \A p \in data.points : p[2] \in Nat /\ p[2] <= 1000 * data.ceiling
  <2>1. \A us \in times : us \in Nat /\ us <= 1000 * data.ceiling
    <3>1. \A us \in times : us \in Nat /\ us <= worst
      BY <1>4, <1>6
    <3>. QED  BY <3>1, <1>5, <1>6
  <2>. QED  BY <2>1, <1>1
<1>. QED  BY <1>5, <1>7 DEF data

\* Stars are in the plot, in the order of their times, between the axis and the edge.
LEMMA StarsFit ==
    ASSUME HopIInv, NEW width \in Nat
    PROVE  LET data == ChartData(width)
           IN  /\ StarsInOrder(data)
               /\ \A star \in Stars(width, data) :
                     star[1] \in LabelWidth(data.ceiling)..(width - 1)
<1> DEFINE data    == ChartData(width)
           ceiling == data.ceiling
           label   == LabelWidth(ceiling)
<1>1. PICK columns \in Nat \ {0} : data = ChartPoints(columns)
  BY ChartDataIsPoints
<1>2. /\ ceiling \in Nat \ {0}
      /\ \A p \in data.points : p[2] \in Nat /\ p[2] <= 1000 * ceiling
  BY <1>1, ChartCeiling
<1>3. data.columns = columns /\ \A p \in data.points : p[1] \in Nat
  <2>1. \A seq \in Kept : Age(seq) \in Nat
    <3>1. /\ hop.xmit \in Nat /\ Len(hop.samples) \in 0..hop.xmit
          /\ Kept = (hop.xmit - Len(hop.samples) + 1)..hop.xmit
      BY RingFacts
    <3>. QED  BY <3>1 DEF Age
  <2>2. \A seq \in {s \in Kept : Age(s) < 2 * columns} : ColumnOf(columns, seq) \in Nat
    BY <2>1, HalfColumns DEF ColumnOf
  <2>3. /\ data.columns = columns
        /\ data.points = {<<ColumnOf(columns, seq), truth[seq].outcome.us>> :
              seq \in {t \in {s \in Kept : Age(s) < 2 * columns} : Is(t, "rtt")}}
    BY <1>1, ChartPointsTrue
  <2>. QED  BY <2>2, <2>3
<1>4. label \in Nat
  BY LabelWidthType
<1>5. PlotHeight \in Nat
  <2>1. cfg.height \in Nat
    BY RingFacts DEF InstanceRecords
  <2>. QED  BY <2>1 DEF PlotHeight, Minus, AtLeast
<1>. HIDE DEF data
<1>6. StarsInOrder(data)
  <2>1. SUFFICES ASSUME PlotHeight > 0, NEW p \in data.points, NEW q \in data.points
                 PROVE  /\ PlotRow(p[2], ceiling) \in 0..(PlotHeight - 1)
                        /\ p[2] <= q[2] => PlotRow(p[2], ceiling) >= PlotRow(q[2], ceiling)
                        /\ 2 * p[2] >= 1000 * ceiling =>
                             PlotRow(p[2], ceiling) <= PlotRow(500 * ceiling, ceiling)
    BY DEF StarsInOrder
  <2>2. PlotHeight \in Nat \ {0}
    BY <2>1, <1>5
  <2>3. \A r \in data.points :
          /\ PlotRow(r[2], ceiling) \in 0..(PlotHeight - 1)
          /\ \A vs \in Nat : vs <= r[2] => PlotRow(vs, ceiling) >= PlotRow(r[2], ceiling)
    BY <2>2, <1>2, PlotRows
  <2>4. p[2] \in Nat /\ 500 * ceiling \in Nat
    BY <1>2
  <2>5. 2 * p[2] >= 1000 * ceiling => 500 * ceiling <= p[2]
    BY <2>4, <1>2
  <2>6. PlotRow(p[2], ceiling) <= PlotRow(500 * ceiling, ceiling)
          <=> PlotRow(500 * ceiling, ceiling) >= PlotRow(p[2], ceiling)
    OBVIOUS
  <2>. QED  BY <2>3, <2>4, <2>5, <2>6
<1>7. ASSUME NEW star \in Stars(width, data)
      PROVE  star[1] \in label..(width - 1)
  <2>1. ~(PlotHeight = 0 \/ width <= label)
    BY <1>7 DEF Stars
  <2>2. PICK p \in data.points :
          /\ p[1] < AtMost(data.columns, width - label)
          /\ star[1] = label + p[1]
    BY <2>1, <1>7 DEF Stars
  <2>3. p[1] \in Nat /\ p[1] < width - label
    BY <2>2, <1>3, <1>4 DEF AtMost
  <2>. HIDE DEF label
  <2>. QED  BY <2>2, <2>3, <1>4
<1>. QED  BY <1>6, <1>7 DEF data

-----------------------------------------------------------------------------
(* Everything *)

\* Address and name share what is left of the line, each with its least width.
LEMMA AddressFits ==
    ASSUME HopIInv, NEW width \in Nat
    PROVE  LET text == AddressColumns(width)
           IN  /\ text.ip >= MinTextWidth /\ text.name >= MinTextWidth
               /\ width >= FixedColumns + 2 * MinTextWidth =>
                    FixedColumns + text.ip + text.name = width
<1> DEFINE rest   == AtLeast(Minus(width, FixedColumns), 2 * MinTextWidth)
           hi     == rest - MinTextWidth
           part   == (3 * rest + 4) \div 5
           lo     == AtMost(part, hi)
           wanted == IF hop.returned = 0 THEN 0 ELSE cfg.address
           ip     == AtMost(AtLeast(wanted, lo), hi)
           text   == AddressColumns(width)
<1>1. text = [ip |-> ip, name |-> rest - ip]
  BY DEF AddressColumns
<1>2. wanted \in Nat
  BY RingFacts DEF InstanceRecords
<1>. HIDE DEF wanted
<1>3. /\ rest \in Nat /\ rest >= 2 * MinTextWidth
      /\ width >= FixedColumns + 2 * MinTextWidth => rest = width - FixedColumns
  BY Widths DEF AtLeast, Minus
<1>. HIDE DEF rest
<1>4. part \in Nat /\ part >= MinTextWidth
  BY <1>3, Widths
<1>. HIDE DEF part
<1>5. ip \in Nat /\ ip >= MinTextWidth /\ ip <= hi
  BY <1>2, <1>3, <1>4, Widths DEF AtLeast, AtMost
<1>6. text.ip = ip /\ text.name = rest - ip
  BY <1>1
<1>. HIDE DEF ip, text
<1>. QED  BY <1>3, <1>5, <1>6, Widths DEF text

\* At every width of the terminal the parts of every line add up, bars and stars are in the order
\* of their times, and no star is drawn over the axis or beyond the edge.
THEOREM AllFits == HopSpec => []EverythingFits
<1>1. ASSUME HopIInv PROVE EverythingFits
  <2>1. cfg \in InstanceRecords
    BY <1>1, RingFacts
  <2>2. \A width \in cfg.widths : width \in Nat
    BY <2>1 DEF InstanceRecords
  <2>. QED  BY <1>1, <2>1, <2>2, BarsAreInOrder, RowFits, AddressFits, StarsFit DEF EverythingFits
<1>. QED  BY <1>1, Invariant, PTL

=============================================================================
