----------------------------- MODULE ReportProofs -----------------------------
(***************************************************************************)
(* The columns of the report keep their meaning for every sequence of        *)
(* replies: each recurrence of stats.rs preserves its bounds, whatever the   *)
(* number of replies and their times up to MaxRtt.                          *)
(*                                                                           *)
(* Then what the rows are made of: a hop remembers its responders, and no    *)
(* hop that answered is left out but for a reason.                           *)
(***************************************************************************)
EXTENDS Report, FiniteSetTheorems, FunctionTheorems, NaturalsInduction,
        WellFoundedInduction, TLAPS

\* Euclid: what the integer division of the code returns.
LEMMA Division ==
    ASSUME NEW x \in Int, NEW n \in Nat \ {0}
    PROVE  /\ x \div n \in Int
           /\ n * (x \div n) <= x
           /\ x < n * (x \div n) + n
BY SMT

\* A product of numbers that are not negative is not negative.
LEMMA Products ==
    ASSUME NEW x \in Nat, NEW y \in Nat
    PROVE  x * y \in Nat
BY SMT

\* A product grows with each of its factors.
LEMMA ProductGrows ==
    ASSUME NEW x \in Nat, NEW y \in Nat, NEW u \in Nat, NEW v \in Nat, x <= u, y <= v
    PROVE  x * y <= u * v
<1>1. u * v = x * y + x * (v - y) + (u - x) * v
  BY SMT
<1>2. x * (v - y) \in Nat /\ (u - x) * v \in Nat
  BY Products
<1>3. x * y \in Nat /\ u * v \in Nat
  BY Products
<1>. QED
  BY <1>1, <1>2, <1>3

\* Less than one step of n between two multiples of n leaves them in order.
LEMMA Cancel ==
    ASSUME NEW x \in Int, NEW y \in Int, NEW n \in Nat \ {0}, n * x < n * y + n
    PROVE  x <= y
BY SMT

\* The new mean lies between the old one and the new time, and rounding loses
\* less than n of the sum of n times.
LEMMA MeanBetween ==
    ASSUME NEW old \in Nat, NEW rtt \in Nat, NEW n \in Nat \ {0}
    PROVE  LET mean == Mean(old, rtt, n)
               exact == (n - 1) * old + rtt
           IN  /\ mean \in Int
               /\ Smaller(old, rtt) <= mean /\ mean <= Larger(old, rtt)
               /\ n * mean <= exact /\ exact < n * mean + n
               /\ n = 1 => mean = rtt
<1>. DEFINE mean == Mean(old, rtt, n)
            exact == (n - 1) * old + rtt
            lo == Smaller(old, rtt)
            hi == Larger(old, rtt)
<1>1. (n - 1) * old \in Nat
  BY Products
<1>2. exact \in Int /\ mean = exact \div n
  BY <1>1 DEF Mean
<1>3. mean \in Int /\ n * mean \in Int /\ n * mean <= exact /\ exact < n * mean + n
  <2>. HIDE DEF exact, mean
  <2>. QED BY <1>2, Division
<1>4. lo \in Nat /\ hi \in Nat /\ lo <= old /\ lo <= rtt /\ old <= hi /\ rtt <= hi
  BY DEF Smaller, Larger
<1>5. n * lo = (n - 1) * lo + lo /\ n * hi = (n - 1) * hi + hi
  <2>. HIDE DEF lo, hi
  <2>. QED BY <1>4, SMT
<1>6. (n - 1) * lo <= (n - 1) * old /\ (n - 1) * old <= (n - 1) * hi
  <2>. HIDE DEF lo, hi
  <2>1. n - 1 \in Nat
    OBVIOUS
  <2>. QED BY <1>4, <2>1, ProductGrows
<1>7. (n - 1) * lo \in Nat /\ (n - 1) * hi \in Nat
  <2>. HIDE DEF lo, hi
  <2>1. n - 1 \in Nat
    OBVIOUS
  <2>. QED BY <1>4, <2>1, Products
<1>8. n * lo < n * mean + n /\ n * mean < n * hi + n
  <2>. HIDE DEF lo, hi, mean
  <2>. QED BY <1>1, <1>3, <1>4, <1>5, <1>6, <1>7
<1>9. lo <= mean /\ mean <= hi
  <2>. HIDE DEF lo, hi, mean
  <2>. QED BY <1>3, <1>4, <1>8, Cancel
<1>10. n = 1 => mean = rtt
  <2>. SUFFICES ASSUME n = 1 PROVE mean = rtt
    OBVIOUS
  <2>1. exact = rtt
    BY SMT
  <2>2. n * mean = mean
    <3>. HIDE DEF mean
    <3>. QED BY <1>3
  <2>. QED
    <3>. HIDE DEF exact, mean
    <3>. QED BY <1>3, <2>1, <2>2
<1>. QED
  <2>. HIDE DEF mean, exact, lo, hi
  <2>1. /\ mean \in Int /\ lo <= mean /\ mean <= hi
        /\ n * mean <= exact /\ exact < n * mean + n
        /\ n = 1 => mean = rtt
    BY <1>3, <1>9, <1>10
  <2>. QED BY <2>1 DEF mean, exact, lo, hi

\* Division towards zero stays between zero and the number divided.
LEMMA TruncatedBetween ==
    ASSUME NEW x \in Int, NEW n \in Nat \ {0}
    PROVE  LET t == Truncated(x, n)
           IN  /\ t \in Int
               /\ x >= 0 => 0 <= t /\ t <= x
               /\ x < 0 => x <= t /\ t <= 0
               /\ n = 1 => t = x
<1>1. ASSUME NEW y \in Nat
      PROVE  /\ y \div n \in Int /\ 0 <= y \div n /\ y \div n <= y
             /\ n = 1 => y \div n = y
  <2>. DEFINE q == y \div n
  <2>1. q \in Int /\ n * q \in Int /\ n * q <= y /\ y < n * q + n
    BY Division
  <2>. HIDE DEF q
  <2>2. 0 <= q
    <3>1. n * 0 < n * q + n
      BY <2>1
    <3>. QED BY <2>1, <3>1, Cancel
  <2>3. q <= n * q
    <3>1. n * q = q + (n - 1) * q
      BY <2>1, SMT
    <3>2. (n - 1) * q \in Nat
      BY <2>1, <2>2, Products
    <3>. QED BY <2>1, <3>1, <3>2
  <2>4. n = 1 => n * q = q
    BY <2>1
  <2>5. q \in Int /\ 0 <= q /\ q <= y /\ (n = 1 => q = y)
    BY <2>1, <2>2, <2>3, <2>4
  <2>. QED BY <2>5 DEF q
<1>2. CASE x >= 0
  BY <1>1, <1>2 DEF Truncated
<1>3. CASE x < 0
  <2>1. -x \in Nat
    BY <1>3
  <2>2. /\ (-x) \div n \in Int /\ 0 <= (-x) \div n /\ (-x) \div n <= -x
        /\ n = 1 => (-x) \div n = -x
    BY <2>1, <1>1
  <2>3. Truncated(x, n) = -((-x) \div n)
    BY <1>3 DEF Truncated
  <2>. DEFINE q == (-x) \div n
  <2>. HIDE DEF q
  <2>4. q \in Int /\ 0 <= q /\ q <= -x /\ (n = 1 => q = -x) /\ Truncated(x, n) = -q
    BY <2>2, <2>3 DEF q
  <2>. QED BY <1>3, <2>4
<1>. QED BY <1>2, <1>3

\* The interarrival jitter, kept times 16, follows the worst jitter w.
LEMMA InterarrivalBounded ==
    ASSUME NEW old \in Nat, NEW jitter \in Nat, NEW w \in Nat,
           jitter <= w, old <= 16 * w + 7
    PROVE  /\ Interarrival(old, jitter) \in Int
           /\ 0 <= Interarrival(old, jitter)
           /\ Interarrival(old, jitter) <= 16 * w + 7
BY DEF Interarrival

-----------------------------------------------------------------------------
(* One reply *)

\* The figures of a hop after its first reply.
LEMMA FirstReplyFields ==
    ASSUME NEW s \in StatsRecords, NEW rtt, s.returned = 0
    PROVE  CountReply(s, rtt)
           = [xmit |-> s.xmit, returned |-> 1, transit |-> 0, last |-> rtt,
              best |-> Smaller(rtt, rtt), worst |-> Larger(rtt, rtt),
              avg |-> Mean(0, rtt, 1),
              ssd |-> 0 + (rtt - 0) * (rtt - Mean(0, rtt, 1)),
              jitter |-> Distance(rtt, rtt),
              jworst |-> Larger(Distance(rtt, rtt), 0),
              javg |-> s.javg + Truncated(Distance(rtt, rtt) - s.javg, 1),
              jinta |-> Interarrival(0, Distance(rtt, rtt))]
<1>. DEFINE first == FromFirst(s, rtt)
<1>1. s.returned < 1 /\ s.returned + 1 = 1
  OBVIOUS
<1>2. first = [last |-> rtt, best |-> rtt, worst |-> rtt, avg |-> 0, ssd |-> 0,
               jworst |-> 0, jinta |-> 0]
  BY <1>1, Zenon DEF FromFirst
<1>3. /\ first.last = rtt /\ first.best = rtt /\ first.worst = rtt
      /\ first.avg = 0 /\ first.ssd = 0 /\ first.jworst = 0 /\ first.jinta = 0
  BY <1>2
<1>. QED BY <1>1, <1>3, Zenon DEF CountReply

\* The figures of a hop after a later reply.
LEMMA LaterReplyFields ==
    ASSUME NEW s \in StatsRecords, NEW rtt, s.returned \in Nat \ {0}
    PROVE  CountReply(s, rtt)
           = [xmit |-> s.xmit, returned |-> s.returned + 1, transit |-> 0, last |-> rtt,
              best |-> Smaller(rtt, s.best), worst |-> Larger(rtt, s.worst),
              avg |-> Mean(s.avg, rtt, s.returned + 1),
              ssd |-> s.ssd + (rtt - s.avg) * (rtt - Mean(s.avg, rtt, s.returned + 1)),
              jitter |-> Distance(rtt, s.last),
              jworst |-> Larger(Distance(rtt, s.last), s.jworst),
              javg |-> s.javg + Truncated(Distance(rtt, s.last) - s.javg, s.returned + 1),
              jinta |-> Interarrival(s.jinta, Distance(rtt, s.last))]
<1>1. ~(s.returned < 1)
  OBVIOUS
<1>2. FromFirst(s, rtt) = s
  BY <1>1, Zenon DEF FromFirst
<1>. QED BY <1>2, Zenon DEF CountReply

\* The first reply makes all times the same and all deviations zero.
LEMMA FirstReplyBounded ==
    ASSUME NEW s \in StatsRecords, NEW rtt \in 0..MaxRtt, NEW sum \in Int,
           StatsBounded(s, sum), s.returned = 0, 1 <= s.xmit
    PROVE  /\ CountReply(s, rtt) \in StatsRecords
           /\ StatsBounded(CountReply(s, rtt), sum + rtt)
<1>. DEFINE r == CountReply(s, rtt)
<1>1. rtt \in Nat /\ rtt <= MaxRtt /\ MaxRtt \in Nat
  BY ReportAssumption
<1>2. sum = 0 /\ s.javg \in Int /\ s.xmit \in Int
  BY DEF StatsBounded, MeanBounded, StatsRecords
<1>3. Mean(0, rtt, 1) = rtt
  BY <1>1, MeanBetween
<1>4. Distance(rtt, rtt) = 0 /\ Larger(rtt, rtt) = rtt /\ Smaller(rtt, rtt) = rtt
      /\ Larger(0, 0) = 0
  BY <1>1 DEF Distance, Larger, Smaller
<1>5. Truncated(0 - s.javg, 1) = 0 - s.javg
  BY <1>2, TruncatedBetween
<1>6. Interarrival(0, 0) = 0
  BY DEF Interarrival
<1>7. r = [xmit |-> s.xmit, returned |-> 1, transit |-> 0, last |-> rtt, best |-> rtt,
           worst |-> rtt, avg |-> rtt, ssd |-> 0, jitter |-> 0, javg |-> 0,
           jworst |-> 0, jinta |-> 0]
  <2>1. 0 + (rtt - 0) * (rtt - rtt) = 0 /\ s.javg + (0 - s.javg) = 0
    BY <1>1, <1>2
  <2>2. r = [xmit |-> s.xmit, returned |-> 1, transit |-> 0, last |-> rtt,
             best |-> Smaller(rtt, rtt), worst |-> Larger(rtt, rtt),
             avg |-> Mean(0, rtt, 1),
             ssd |-> 0 + (rtt - 0) * (rtt - Mean(0, rtt, 1)),
             jitter |-> Distance(rtt, rtt),
             jworst |-> Larger(Distance(rtt, rtt), 0),
             javg |-> s.javg + Truncated(Distance(rtt, rtt) - s.javg, 1),
             jinta |-> Interarrival(0, Distance(rtt, rtt))]
    BY FirstReplyFields, Zenon
  <2>. HIDE DEF r
  <2>. QED BY <1>3, <1>4, <1>5, <1>6, <2>1, <2>2
<1>. HIDE DEF r
<1>8. r \in StatsRecords
  BY <1>1, <1>2, <1>7 DEF StatsRecords
<1>9. StatsBounded(r, sum + rtt)
  <2>1. CountsBounded(r)
    BY <1>2, <1>7 DEF CountsBounded
  <2>2. MeanBounded(r, sum + rtt)
    BY <1>1, <1>2, <1>7 DEF MeanBounded
  <2>3. DeviationBounded(r)
    BY <1>1, <1>7 DEF DeviationBounded, Spread
  <2>4. JitterBounded(r)
    BY <1>1, <1>7 DEF JitterBounded, Spread
  <2>. QED BY <2>1, <2>2, <2>3, <2>4 DEF StatsBounded
<1>. QED BY <1>8, <1>9 DEF r

\* The deviation of one reply is at most the spread, squared.
LEMMA DeviationOfReply ==
    ASSUME NEW rtt \in Nat, NEW old \in Nat, NEW mean \in Int, NEW spread \in Nat,
           Smaller(old, rtt) <= mean, mean <= Larger(old, rtt),
           Distance(rtt, old) <= spread
    PROVE  /\ (rtt - old) * (rtt - mean) \in Nat
           /\ (rtt - old) * (rtt - mean) <= spread * spread
<1>1. CASE rtt >= old
  <2>1. rtt - old \in Nat /\ rtt - mean \in Nat /\ rtt - old <= spread /\ rtt - mean <= spread
    BY <1>1 DEF Smaller, Larger, Distance
  <2>. DEFINE x == rtt - old
              y == rtt - mean
  <2>. HIDE DEF x, y
  <2>2. x * y \in Nat /\ x * y <= spread * spread
    BY <2>1, Products, ProductGrows DEF x, y
  <2>. QED BY <2>2 DEF x, y
<1>2. CASE rtt < old
  <2>1. old - rtt \in Nat /\ mean - rtt \in Nat /\ old - rtt <= spread /\ mean - rtt <= spread
    BY <1>2 DEF Smaller, Larger, Distance
  <2>. DEFINE x == old - rtt
              y == mean - rtt
  <2>2. (rtt - old) * (rtt - mean) = x * y
    BY SMT
  <2>. HIDE DEF x, y
  <2>3. x * y \in Nat /\ x * y <= spread * spread
    BY <2>1, Products, ProductGrows DEF x, y
  <2>. QED BY <2>2, <2>3
<1>. QED BY <1>1, <1>2

\* What the bounds say of the types of the figures.
LEMMA BoundedTypes ==
    ASSUME NEW s \in StatsRecords, NEW sum \in Int, StatsBounded(s, sum)
    PROVE  /\ s.xmit \in Nat /\ s.returned \in Nat /\ s.transit \in {0, 1}
           /\ s.best \in Nat /\ s.last \in Nat /\ s.worst \in Nat /\ s.avg \in Nat
           /\ s.jitter \in Nat /\ s.jworst \in Nat /\ s.javg \in Nat /\ s.jinta \in Nat
           /\ s.ssd \in Nat /\ Spread(s) \in Nat /\ s.returned * s.avg \in Nat
<1>1. /\ s.xmit \in Nat /\ s.returned \in Nat /\ s.transit \in {0, 1}
  BY DEF StatsBounded, CountsBounded, StatsRecords
<1>2. s.best \in Nat /\ s.last \in Nat /\ s.worst \in Nat /\ s.avg \in Nat
  BY DEF StatsBounded, MeanBounded, StatsRecords
<1>3. s.jitter \in Nat /\ s.jworst \in Nat /\ s.javg \in Nat /\ s.jinta \in Nat
  BY DEF StatsBounded, JitterBounded, StatsRecords
<1>4. s.ssd \in Nat
  BY DEF StatsBounded, DeviationBounded, StatsRecords
<1>5. Spread(s) \in Nat
  BY <1>2 DEF StatsBounded, MeanBounded, Spread
<1>6. s.returned * s.avg \in Nat
  BY <1>1, <1>2, Products
<1>. QED BY <1>1, <1>2, <1>3, <1>4, <1>5, <1>6

\* A later reply widens the spread at most to its own distance, and every
\* figure stays within it.
LEMMA LaterReplyBounded ==
    ASSUME NEW s \in StatsRecords, NEW rtt \in 0..MaxRtt, NEW sum \in Int,
           StatsBounded(s, sum), s.returned \in Nat \ {0}, s.returned + 1 <= s.xmit
    PROVE  /\ CountReply(s, rtt) \in StatsRecords
           /\ StatsBounded(CountReply(s, rtt), sum + rtt)
<1>. DEFINE r == CountReply(s, rtt)
            n == s.returned + 1
            mean == Mean(s.avg, rtt, n)
            dev == (rtt - s.avg) * (rtt - mean)
            jitter == Distance(rtt, s.last)
            jstep == Truncated(jitter - s.javg, n)
            jworst == Larger(jitter, s.jworst)
            inter == Interarrival(s.jinta, jitter)
            best == Smaller(rtt, s.best)
            worst == Larger(rtt, s.worst)
<1>1. rtt \in Nat /\ rtt <= MaxRtt /\ MaxRtt \in Nat /\ n \in Nat \ {0} /\ n - 1 = s.returned
  BY ReportAssumption
<1>2. /\ s.xmit \in Nat /\ s.best \in Nat /\ s.last \in Nat /\ s.worst \in Nat /\ s.avg \in Nat
      /\ s.jitter \in Nat /\ s.jworst \in Nat /\ s.javg \in Nat /\ s.jinta \in Nat
      /\ s.ssd \in Nat /\ Spread(s) \in Nat /\ s.returned * s.avg \in Nat
  BY BoundedTypes
<1>3. /\ s.best <= s.avg /\ s.avg <= s.worst /\ s.best <= s.last /\ s.last <= s.worst
      /\ s.worst <= MaxRtt /\ s.jworst <= s.worst - s.best /\ s.javg <= s.jworst
      /\ s.jinta <= 16 * s.jworst + 7
      /\ 0 <= sum - s.returned * s.avg
      /\ 2 * (sum - s.returned * s.avg) <= s.returned * (s.returned - 1)
  BY <1>2 DEF StatsBounded, MeanBounded, JitterBounded, Spread
<1>4. r = [xmit |-> s.xmit, returned |-> n, transit |-> 0, last |-> rtt,
           best |-> best, worst |-> worst, avg |-> mean, ssd |-> s.ssd + dev,
           jitter |-> jitter, jworst |-> jworst, javg |-> s.javg + jstep, jinta |-> inter]
  BY LaterReplyFields, Zenon
<1>5. /\ mean \in Int /\ Smaller(s.avg, rtt) <= mean /\ mean <= Larger(s.avg, rtt)
      /\ n * mean <= (n - 1) * s.avg + rtt /\ (n - 1) * s.avg + rtt < n * mean + n
  BY <1>1, <1>2, MeanBetween
<1>. HIDE DEF r, n, mean
<1>6. /\ best \in Nat /\ worst \in Nat /\ best <= s.best /\ s.worst <= worst
      /\ best <= rtt /\ rtt <= worst /\ worst <= MaxRtt
  BY <1>1, <1>2, <1>3 DEF Smaller, Larger
<1>. HIDE DEF best, worst
<1>7. jitter \in Nat /\ jitter <= worst - best
  BY <1>1, <1>2, <1>3, <1>6 DEF Distance
<1>8. jworst \in Nat /\ jitter <= jworst /\ s.jworst <= jworst /\ jworst <= worst - best
  BY <1>2, <1>3, <1>6, <1>7 DEF Larger
<1>. HIDE DEF jitter, jworst
<1>9. jstep \in Int /\ 0 <= s.javg + jstep /\ s.javg + jstep <= jworst
  <2>1. /\ jstep \in Int
        /\ jitter - s.javg >= 0 => 0 <= jstep /\ jstep <= jitter - s.javg
        /\ jitter - s.javg < 0 => jitter - s.javg <= jstep /\ jstep <= 0
    <3>. DEFINE d == jitter - s.javg
    <3>1. d \in Int
      BY <1>2, <1>7
    <3>. HIDE DEF d
    <3>2. /\ Truncated(d, n) \in Int
          /\ d >= 0 => 0 <= Truncated(d, n) /\ Truncated(d, n) <= d
          /\ d < 0 => d <= Truncated(d, n) /\ Truncated(d, n) <= 0
      BY <1>1, <3>1, TruncatedBetween
    <3>. QED BY <3>2 DEF d
  <2>. HIDE DEF jstep
  <2>. QED BY <1>2, <1>3, <1>7, <1>8, <2>1
<1>10. inter \in Int /\ 0 <= inter /\ inter <= 16 * jworst + 7
  <2>1. s.jinta <= 16 * jworst + 7
    BY <1>2, <1>3, <1>8
  <2>. QED BY <1>2, <1>7, <1>8, <2>1, InterarrivalBounded
<1>11. dev \in Nat /\ dev <= (worst - best) * (worst - best)
  <2>1. worst - best \in Nat /\ Distance(rtt, s.avg) <= worst - best
    BY <1>1, <1>2, <1>3, <1>6 DEF Distance
  <2>. QED BY <1>1, <1>2, <1>5, <2>1, DeviationOfReply
<1>. HIDE DEF jstep, inter, dev
<1>12. r \in StatsRecords
  BY <1>1, <1>2, <1>4, <1>5, <1>6, <1>7, <1>8, <1>9, <1>10, <1>11 DEF StatsRecords
<1>13. CountsBounded(r)
  BY <1>1, <1>2, <1>4 DEF CountsBounded, n
<1>14. MeanBounded(r, sum + rtt)
  <2>1. best <= mean /\ mean <= worst
    BY <1>1, <1>2, <1>3, <1>5, <1>6 DEF Smaller, Larger
  <2>2. n * mean \in Int /\ s.returned * s.avg \in Int /\ (n - 1) * s.avg = s.returned * s.avg
    BY <1>1, <1>2, <1>5
  <2>3. 0 <= (sum + rtt) - n * mean
        /\ (sum + rtt) - n * mean <= (sum - s.returned * s.avg) + (n - 1)
    <3>. DEFINE p == n * mean
                q == s.returned * s.avg
    <3>1. p \in Int /\ q \in Int /\ p <= q + rtt /\ q + rtt < p + n /\ 0 <= sum - q
      BY <1>3, <1>5, <2>2
    <3>. HIDE DEF p, q
    <3>2. 0 <= (sum + rtt) - p /\ (sum + rtt) - p <= (sum - q) + (n - 1)
      BY <1>1, <3>1
    <3>. QED BY <3>2 DEF p, q
  <2>4. n * (n - 1) = s.returned * (s.returned - 1) + 2 * (n - 1)
    BY <1>1 DEF n
  <2>5. 2 * ((sum + rtt) - n * mean) <= n * (n - 1)
    <3>. DEFINE p == n * mean
                q == s.returned * s.avg
                u == s.returned * (s.returned - 1)
                v == n * (n - 1)
    <3>1. p \in Int /\ q \in Int /\ u \in Int /\ v \in Int
      BY <1>1, <2>2
    <3>2. /\ (sum + rtt) - p <= (sum - q) + (n - 1) /\ 2 * (sum - q) <= u
          /\ v = u + 2 * (n - 1)
      BY <1>3, <2>3, <2>4
    <3>. HIDE DEF p, q, u, v
    <3>3. 2 * ((sum + rtt) - p) <= v
      BY <1>1, <3>1, <3>2
    <3>. QED BY <3>3 DEF p, v
  <2>6. r.returned = n /\ r.avg = mean /\ r.best = best /\ r.worst = worst /\ r.last = rtt
    BY <1>4
  <2>. QED BY <1>1, <1>6, <2>1, <2>3, <2>5, <2>6 DEF MeanBounded
<1>15. DeviationBounded(r)
  <2>. DEFINE w == worst - best
  <2>1. w \in Nat /\ Spread(s) <= w
    BY <1>2, <1>6 DEF Spread
  <2>2. s.ssd <= (s.returned - 1) * (Spread(s) * Spread(s))
    BY DEF StatsBounded, DeviationBounded
  <2>3. (s.returned - 1) * (Spread(s) * Spread(s)) <= (s.returned - 1) * (w * w)
    <3>1. Spread(s) * Spread(s) \in Nat /\ w * w \in Nat /\ Spread(s) * Spread(s) <= w * w
      <4>. HIDE DEF w
      <4>. QED BY <1>2, <2>1, Products, ProductGrows
    <3>2. s.returned - 1 \in Nat
      OBVIOUS
    <3>. DEFINE x == Spread(s) * Spread(s)
                y == w * w
    <3>. HIDE DEF x, y, w
    <3>3. (s.returned - 1) * x <= (s.returned - 1) * y
      BY <3>1, <3>2, ProductGrows DEF x, y
    <3>. QED BY <3>3 DEF x, y
  <2>4. dev \in Nat /\ dev <= w * w
    BY <1>11
  <2>5. Spread(r) = w /\ r.returned - 1 = s.returned /\ r.ssd = s.ssd + dev
    BY <1>1, <1>4 DEF Spread, n
  <2>6. s.ssd + dev <= s.returned * (w * w)
    <3>. DEFINE x == w * w
                y == Spread(s) * Spread(s)
    <3>1. x \in Nat /\ y \in Nat
      <4>. HIDE DEF w
      <4>. QED BY <1>2, <2>1, Products
    <3>. HIDE DEF w
    <3>2. s.returned * x = (s.returned - 1) * x + x
      <4>. HIDE DEF x
      <4>. QED BY <3>1
    <3>3. (s.returned - 1) * x \in Int /\ (s.returned - 1) * y \in Int
      <4>. HIDE DEF x, y
      <4>. QED BY <3>1
    <3>4. s.ssd <= (s.returned - 1) * y /\ (s.returned - 1) * y <= (s.returned - 1) * x
          /\ dev <= x
      BY <2>2, <2>3, <2>4
    <3>. HIDE DEF x, y
    <3>5. s.ssd + dev <= s.returned * x
      BY <1>2, <2>4, <3>1, <3>2, <3>3, <3>4
    <3>. QED BY <3>5 DEF x
  <2>7. 0 <= s.ssd + dev
    BY <1>2, <1>11
  <2>. QED
    <3>. HIDE DEF w
    <3>. QED BY <2>5, <2>6, <2>7 DEF DeviationBounded
<1>16. JitterBounded(r)
  BY <1>4, <1>6, <1>7, <1>8, <1>9, <1>10 DEF JitterBounded, Spread
<1>. QED BY <1>12, <1>13, <1>14, <1>15, <1>16 DEF r, StatsBounded

-----------------------------------------------------------------------------
(* The other steps of one hop *)

\* Nothing has been sent: every bound holds.
LEMMA NoStatsBounded == NoStats \in StatsRecords /\ StatsBounded(NoStats, 0)
<1>1. NoStats \in StatsRecords
  BY DEF NoStats, StatsRecords
<1>2. CountsBounded(NoStats)
  BY DEF NoStats, CountsBounded
<1>3. MeanBounded(NoStats, 0)
  BY ReportAssumption DEF NoStats, MeanBounded
<1>4. DeviationBounded(NoStats)
  BY DEF NoStats, DeviationBounded, Spread
<1>5. JitterBounded(NoStats)
  BY DEF NoStats, JitterBounded, Spread
<1>. QED BY <1>1, <1>2, <1>3, <1>4, <1>5 DEF StatsBounded

\* Only the counters of a hop's figures change.
SameFigures(r, s) ==
    /\ r.returned = s.returned /\ r.last = s.last /\ r.best = s.best /\ r.worst = s.worst
    /\ r.avg = s.avg /\ r.ssd = s.ssd /\ r.jitter = s.jitter /\ r.javg = s.javg
    /\ r.jworst = s.jworst /\ r.jinta = s.jinta

\* The bounds of the figures do not depend on the counters of probes.
LEMMA SameFiguresBounded ==
    ASSUME NEW s, NEW r, NEW sum, SameFigures(r, s), CountsBounded(r), StatsBounded(s, sum)
    PROVE  StatsBounded(r, sum)
<1>1. MeanBounded(r, sum)
  BY DEF SameFigures, StatsBounded, MeanBounded
<1>2. DeviationBounded(r)
  BY DEF SameFigures, StatsBounded, DeviationBounded, Spread
<1>3. JitterBounded(r)
  BY DEF SameFigures, StatsBounded, JitterBounded, Spread
<1>. QED BY <1>1, <1>2, <1>3 DEF StatsBounded

\* One more probe is sent and in flight.
LEMMA SendBounded ==
    ASSUME NEW s \in StatsRecords, NEW sum \in Int, StatsBounded(s, sum), s.returned <= s.xmit
    PROVE  /\ CountSend(s) \in StatsRecords
           /\ StatsBounded(CountSend(s), sum)
           /\ CountSend(s).xmit = s.xmit + 1 /\ CountSend(s).returned = s.returned
<1>. DEFINE r == CountSend(s)
            x == s.xmit + 1
<1>1. x \in Int /\ x = s.xmit + 1
  BY DEF StatsRecords
<1>2. r = [s EXCEPT !.xmit = x, !.transit = 1]
  BY DEF CountSend
<1>. HIDE DEF r, x
<1>3. r \in StatsRecords /\ SameFigures(r, s) /\ r.xmit = x /\ r.transit = 1
  <2>1. r \in StatsRecords
    <3>. DEFINE u == [s EXCEPT !.xmit = x]
    <3>1. u \in StatsRecords
      BY <1>1 DEF StatsRecords
    <3>2. r = [u EXCEPT !.transit = 1]
      BY <1>2
    <3>. HIDE DEF u
    <3>. QED BY <3>1, <3>2 DEF StatsRecords
  <2>2. r.xmit = x /\ r.transit = 1
    BY <1>2 DEF StatsRecords
  <2>3. /\ r.returned = s.returned /\ r.last = s.last /\ r.best = s.best
        /\ r.worst = s.worst /\ r.avg = s.avg /\ r.ssd = s.ssd
    BY <1>2 DEF StatsRecords
  <2>4. r.jitter = s.jitter /\ r.javg = s.javg /\ r.jworst = s.jworst /\ r.jinta = s.jinta
    BY <1>2 DEF StatsRecords
  <2>. QED BY <2>1, <2>2, <2>3, <2>4 DEF SameFigures
<1>4. CountsBounded(r)
  <2>1. s.returned \in Nat /\ s.xmit \in Nat
    BY BoundedTypes
  <2>2. r.returned = s.returned
    BY <1>3 DEF SameFigures
  <2>. QED BY <1>1, <1>3, <2>1, <2>2 DEF CountsBounded
<1>5. StatsBounded(r, sum)
  BY <1>3, <1>4, SameFiguresBounded
<1>. QED BY <1>1, <1>3, <1>5 DEF r, SameFigures

\* The last probe is no longer taken to be in flight.
LEMMA NotInFlightBounded ==
    ASSUME NEW s \in StatsRecords, NEW sum \in Int, StatsBounded(s, sum)
    PROVE  /\ NotInFlight(s) \in StatsRecords
           /\ StatsBounded(NotInFlight(s), sum)
           /\ NotInFlight(s).xmit = s.xmit /\ NotInFlight(s).returned = s.returned
<1>. DEFINE r == NotInFlight(s)
<1>1. r \in StatsRecords /\ SameFigures(r, s) /\ r.xmit = s.xmit /\ r.transit = 0
  BY DEF NotInFlight, StatsRecords, SameFigures
<1>. HIDE DEF r
<1>2. CountsBounded(r)
  <2>1. s.returned + s.transit <= s.xmit
    BY DEF StatsBounded, CountsBounded
  <2>2. s.returned \in Nat /\ s.xmit \in Nat /\ s.transit \in {0, 1}
    BY BoundedTypes
  <2>3. r.returned = s.returned
    BY <1>1 DEF SameFigures
  <2>. QED BY <1>1, <2>1, <2>2, <2>3 DEF CountsBounded
<1>3. StatsBounded(r, sum)
  BY <1>1, <1>2, SameFiguresBounded
<1>. QED BY <1>1, <1>3 DEF r, SameFigures

\* A reply, first or later, to a probe that was sent.
LEMMA ReplyBounded ==
    ASSUME NEW s \in StatsRecords, NEW rtt \in 0..MaxRtt, NEW sum \in Int,
           StatsBounded(s, sum), s.returned + 1 <= s.xmit
    PROVE  /\ CountReply(s, rtt) \in StatsRecords
           /\ StatsBounded(CountReply(s, rtt), sum + rtt)
           /\ CountReply(s, rtt).xmit = s.xmit
           /\ CountReply(s, rtt).returned = s.returned + 1
<1>1. s.returned \in Nat
  BY BoundedTypes
<1>2. CASE s.returned = 0
  <2>1. 1 <= s.xmit
    BY <1>2
  <2>2. CountReply(s, rtt) \in StatsRecords /\ StatsBounded(CountReply(s, rtt), sum + rtt)
    BY <1>2, <2>1, FirstReplyBounded
  <2>3. CountReply(s, rtt).xmit = s.xmit /\ CountReply(s, rtt).returned = 1
    BY <1>2 DEF CountReply
  <2>. QED BY <1>2, <2>2, <2>3
<1>3. CASE s.returned # 0
  <2>1. CountReply(s, rtt) \in StatsRecords /\ StatsBounded(CountReply(s, rtt), sum + rtt)
    BY <1>1, <1>3, LaterReplyBounded
  <2>2. CountReply(s, rtt).xmit = s.xmit /\ CountReply(s, rtt).returned = s.returned + 1
    BY <1>3 DEF CountReply
  <2>. QED BY <2>1, <2>2
<1>. QED BY <1>2, <1>3

-----------------------------------------------------------------------------
(* The specification *)

\* A hop has sent the probes it heard of and those that are open: an answer never
\* comes without a probe.
OpenCounted ==
    \A at \in DOMAIN hops : hops[at].stats.returned + open[at] <= hops[at].stats.xmit

IInv == TypeOK /\ OpenCounted /\ FiguresBounded

\* What IInv says of one hop.
HopInv(h, o, sum) ==
    /\ h \in HopRecords /\ o \in Nat /\ sum \in Nat
    /\ h.stats.returned + o <= h.stats.xmit
    /\ StatsBounded(h.stats, sum)

\* IInv, hop by hop.
LEMMA HopByHop ==
    IInv <=> /\ cfg \in Configs /\ DOMAIN hops \subseteq Nat
             /\ hops = [at \in DOMAIN hops |-> hops[at]]
             /\ open = [at \in DOMAIN hops |-> open[at]]
             /\ total = [at \in DOMAIN hops |-> total[at]]
             /\ heard \in [DOMAIN hops -> SUBSET (Addrs \X Seq(MplsLabels))]
             /\ printed \in BOOLEAN
             /\ \A at \in DOMAIN hops : HopInv(hops[at], open[at], total[at])
BY DEF IInv, TypeOK, OpenCounted, FiguresBounded, HopInv

\* The same after a step.
LEMMA HopByHopNext ==
    ASSUME cfg' \in Configs, DOMAIN hops' \subseteq Nat,
           hops' = [at \in DOMAIN hops' |-> hops'[at]],
           open' = [at \in DOMAIN hops' |-> open'[at]],
           total' = [at \in DOMAIN hops' |-> total'[at]],
           heard' \in [DOMAIN hops' -> SUBSET (Addrs \X Seq(MplsLabels))],
           printed' \in BOOLEAN,
           \A at \in DOMAIN hops' : HopInv(hops'[at], open'[at], total'[at])
    PROVE  IInv'
BY DEF IInv, TypeOK, OpenCounted, FiguresBounded, HopInv

\* A fresh hop.
LEMMA NewHopInv == HopInv(NewHop, 0, 0)
<1>1. NewHop \in HopRecords
  BY NoStatsBounded DEF NewHop, HopRecords
<1>2. NewHop.stats = NoStats /\ NoStats.returned = 0 /\ NoStats.xmit = 0
  BY DEF NewHop, NoStats
<1>. QED BY <1>1, <1>2, NoStatsBounded DEF HopInv

\* Sending a probe opens one more.
LEMMA SendHop ==
    ASSUME NEW h, NEW o, NEW sum, HopInv(h, o, sum)
    PROVE  HopInv(RecordSend(h), o + 1, sum)
<1>. DEFINE s == CountSend(h.stats)
<1>1. h.stats \in StatsRecords /\ o \in Nat /\ sum \in Nat
      /\ StatsBounded(h.stats, sum) /\ h.stats.returned + o <= h.stats.xmit
  BY DEF HopInv, HopRecords
<1>2. h.stats.returned \in Nat /\ h.stats.xmit \in Nat
  BY <1>1, BoundedTypes
<1>3. /\ s \in StatsRecords /\ StatsBounded(s, sum)
      /\ s.xmit = h.stats.xmit + 1 /\ s.returned = h.stats.returned
  BY <1>1, <1>2, SendBounded
<1>4. RecordSend(h) = [h EXCEPT !.stats = s]
  BY DEF RecordSend
<1>. HIDE DEF s
<1>5. RecordSend(h) \in HopRecords /\ RecordSend(h).stats = s
  BY <1>3, <1>4 DEF HopInv, HopRecords
<1>. QED BY <1>1, <1>2, <1>3, <1>5 DEF HopInv

\* An answer closes one.
LEMMA AnswerHop ==
    ASSUME NEW h, NEW o, NEW sum, HopInv(h, o, sum), o > 0,
           NEW from \in Addrs, NEW rtt \in 0..MaxRtt, NEW labels \in Seq(MplsLabels),
           NEW err \in Errors \cup {None}, NEW overwrite \in BOOLEAN
    PROVE  HopInv(RecordReply(h, from, rtt, labels, err, overwrite), o - 1, sum + rtt)
<1>. DEFINE s == CountReply(h.stats, rtt)
            r == RecordReply(h, from, rtt, labels, err, overwrite)
            addrs == NoteAddr(h.addrs, from, labels)
            ow == Overwrites(h, from, overwrite)
<1>1. h \in HopRecords /\ h.stats \in StatsRecords /\ o \in Nat /\ sum \in Nat
      /\ StatsBounded(h.stats, sum) /\ h.stats.returned + o <= h.stats.xmit
  BY DEF HopInv, HopRecords
<1>2. h.stats.returned \in Nat /\ h.stats.xmit \in Nat
  BY <1>1, BoundedTypes
<1>3. /\ s \in StatsRecords /\ StatsBounded(s, sum + rtt)
      /\ s.xmit = h.stats.xmit /\ s.returned = h.stats.returned + 1
  <2>1. h.stats.returned + 1 <= h.stats.xmit
    BY <1>1, <1>2
  <2>. QED BY <1>1, <2>1, ReplyBounded
<1>4. addrs \in Seq([addr : Addrs, mpls : Seq(MplsLabels)])
  <2>. DEFINE A == [addr : Addrs, mpls : Seq(MplsLabels)]
              entry == [addr |-> from, mpls |-> labels]
  <2>1. entry \in A /\ h.addrs \in Seq(A)
    BY <1>1 DEF HopRecords
  <2>2. addrs = h.addrs \/ addrs = Append(h.addrs, entry)
    BY DEF NoteAddr
  <2>. HIDE DEF A, entry, addrs
  <2>3. ASSUME NEW S, NEW q \in Seq(S), NEW x \in S
        PROVE  Append(q, x) \in Seq(S)
    OBVIOUS
  <2>4. addrs \in Seq(A)
    BY <2>1, <2>2, <2>3, Zenon
  <2>. QED BY <2>4 DEF A
<1>5. r = [err |-> err, addrs |-> addrs, addr |-> IF ow THEN from ELSE h.addr,
           mpls |-> IF ow THEN labels ELSE h.mpls, stats |-> s]
  BY DEF RecordReply
<1>. HIDE DEF r, s, addrs, ow
<1>6. r \in HopRecords /\ r.stats = s
  <2>1. h.addr \in Addrs \cup {None} /\ h.mpls \in Seq(MplsLabels)
    BY <1>1 DEF HopRecords
  <2>2. (IF ow THEN from ELSE h.addr) \in Addrs \cup {None}
        /\ (IF ow THEN labels ELSE h.mpls) \in Seq(MplsLabels)
    BY <2>1
  <2>. QED BY <1>3, <1>4, <1>5, <2>2 DEF HopRecords
<1>7. sum + rtt \in Nat /\ o - 1 \in Nat
  BY <1>1
<1>8. HopInv(r, o - 1, sum + rtt)
  BY <1>1, <1>2, <1>3, <1>6, <1>7 DEF HopInv
<1>. QED BY <1>8 DEF r

\* A send that failed, and the end of the session, leave the figures alone.
LEMMA QuietHop ==
    ASSUME NEW h, NEW o, NEW sum, HopInv(h, o, sum), NEW p \in Nat, p <= o
    PROVE  /\ HopInv([h EXCEPT !.stats = NotInFlight(@)], p, sum)
           /\ \A err \in Errors : HopInv(RecordSendError(h, err), p, sum)
<1>. DEFINE s == NotInFlight(h.stats)
<1>1. h \in HopRecords /\ h.stats \in StatsRecords /\ o \in Nat /\ sum \in Nat
      /\ StatsBounded(h.stats, sum) /\ h.stats.returned + o <= h.stats.xmit
  BY DEF HopInv, HopRecords
<1>2. h.stats.returned \in Nat /\ h.stats.xmit \in Nat
  BY <1>1, BoundedTypes
<1>3. /\ s \in StatsRecords /\ StatsBounded(s, sum)
      /\ s.xmit = h.stats.xmit /\ s.returned = h.stats.returned
  BY <1>1, NotInFlightBounded
<1>. HIDE DEF s
<1>4. s.returned + p <= s.xmit
  BY <1>1, <1>2, <1>3
<1>5. HopInv([h EXCEPT !.stats = s], p, sum)
  <2>1. [h EXCEPT !.stats = s] \in HopRecords /\ [h EXCEPT !.stats = s].stats = s
    BY <1>1, <1>3 DEF HopRecords
  <2>. QED BY <1>1, <1>3, <1>4, <2>1 DEF HopInv
<1>6. ASSUME NEW err \in Errors
      PROVE  HopInv([h EXCEPT !.err = err, !.stats = s], p, sum)
  <2>. DEFINE r == [h EXCEPT !.err = err, !.stats = s]
  <2>1. r \in HopRecords /\ r.stats = s
    BY <1>1, <1>3 DEF HopRecords
  <2>. HIDE DEF r
  <2>2. HopInv(r, p, sum)
    BY <1>1, <1>3, <1>4, <2>1 DEF HopInv
  <2>. QED BY <2>2 DEF r
<1>. QED BY <1>5, <1>6 DEF s, RecordSendError

\* The invariant holds at first: no hop has heard anything.
LEMMA InitInv == ASSUME Init PROVE IInv
<1>1. cfg \in Configs /\ DOMAIN hops \subseteq Nat
  BY ReportAssumption DEF Init
<1>2. /\ hops = [at \in DOMAIN hops |-> hops[at]]
      /\ open = [at \in DOMAIN hops |-> open[at]]
      /\ total = [at \in DOMAIN hops |-> total[at]]
      /\ heard \in [DOMAIN hops -> SUBSET (Addrs \X Seq(MplsLabels))]
      /\ printed \in BOOLEAN
  BY DEF Init
<1>3. \A at \in DOMAIN hops : hops[at] = NewHop /\ open[at] = 0 /\ total[at] = 0
  BY DEF Init
<1>4. \A at \in DOMAIN hops : HopInv(hops[at], open[at], total[at])
  BY <1>3, NewHopInv
<1>. QED BY <1>1, <1>2, <1>4, HopByHop

\* The user's TTLs stay a configuration.
LEMMA FirstTtlStays ==
    ASSUME NEW c \in Configs, NEW ttl \in Nat \ {0}
    PROVE  [c EXCEPT !.firstTtl = ttl] \in Configs
BY DEF Configs

\* And so they do when the last one changes.
LEMMA MaxTtlStays ==
    ASSUME NEW c \in Configs, NEW ttl \in Nat
    PROVE  [c EXCEPT !.maxTtl = ttl] \in Configs
BY DEF Configs

\* A step that changes one hop keeps the invariant when that hop's part holds.
LEMMA OneHop ==
    ASSUME IInv, UNCHANGED <<cfg, printed>>,
           NEW at \in DOMAIN hops, NEW h, NEW o, NEW sum,
           HopInv(h, o, sum),
           hops' = [hops EXCEPT ![at] = h], open' = [open EXCEPT ![at] = o],
           total' = [total EXCEPT ![at] = sum],
           heard' \in [DOMAIN hops -> SUBSET (Addrs \X Seq(MplsLabels))]
    PROVE  IInv'
<1>1. /\ cfg \in Configs /\ printed \in BOOLEAN /\ DOMAIN hops \subseteq Nat
      /\ hops = [b \in DOMAIN hops |-> hops[b]]
      /\ open = [b \in DOMAIN hops |-> open[b]]
      /\ total = [b \in DOMAIN hops |-> total[b]]
      /\ \A b \in DOMAIN hops : HopInv(hops[b], open[b], total[b])
  BY HopByHop
<1>2. /\ hops' = [b \in DOMAIN hops |-> IF b = at THEN h ELSE hops[b]]
      /\ open' = [b \in DOMAIN hops |-> IF b = at THEN o ELSE open[b]]
      /\ total' = [b \in DOMAIN hops |-> IF b = at THEN sum ELSE total[b]]
  BY <1>1
<1>3. DOMAIN hops' = DOMAIN hops
  BY <1>2
<1>4. ASSUME NEW b \in DOMAIN hops PROVE HopInv(hops'[b], open'[b], total'[b])
  BY <1>1, <1>2
<1>5. /\ hops' = [b \in DOMAIN hops' |-> hops'[b]]
      /\ open' = [b \in DOMAIN hops' |-> open'[b]]
      /\ total' = [b \in DOMAIN hops' |-> total'[b]]
  BY <1>2, <1>3
<1>. QED BY <1>1, <1>3, <1>4, <1>5, HopByHopNext

\* Every step of a running session keeps the invariant.
LEMMA StepInv == ASSUME IInv, [Next]_vars PROVE IInv'
<1>1. /\ cfg \in Configs /\ printed \in BOOLEAN /\ DOMAIN hops \subseteq Nat
      /\ hops = [at \in DOMAIN hops |-> hops[at]]
      /\ open = [at \in DOMAIN hops |-> open[at]]
      /\ total = [at \in DOMAIN hops |-> total[at]]
      /\ heard \in [DOMAIN hops -> SUBSET (Addrs \X Seq(MplsLabels))]
      /\ \A at \in DOMAIN hops : HopInv(hops[at], open[at], total[at])
  BY HopByHop
<1>2. ASSUME NEW at \in DOMAIN hops, Send(at) PROVE IInv'
  <2>1. HopInv(RecordSend(hops[at]), open[at] + 1, total[at])
    BY <1>1, SendHop
  <2>2. /\ hops' = [hops EXCEPT ![at] = RecordSend(hops[at])]
        /\ open' = [open EXCEPT ![at] = open[at] + 1]
        /\ total' = [total EXCEPT ![at] = total[at]]
        /\ UNCHANGED <<cfg, printed>> /\ heard' = heard
    BY <1>1, <1>2 DEF Send
  <2>. QED BY <1>1, <2>1, <2>2, OneHop
<1>3. ASSUME NEW at \in DOMAIN hops,
             NEW from \in cfg.froms, NEW rtt \in cfg.rtts, NEW labels \in cfg.labels,
             NEW err \in cfg.errs, Answer(at, from, rtt, labels, err)
      PROVE  IInv'
  <2>. DEFINE overwrite == MayShow(at, from)
  <2>1. /\ from \in Addrs /\ rtt \in 0..MaxRtt /\ labels \in Seq(MplsLabels)
        /\ err \in Errors \cup {None} /\ overwrite \in BOOLEAN
    BY <1>1 DEF Configs, MayShow
  <2>2. open[at] > 0
    BY <1>3 DEF Answer
  <2>. HIDE DEF overwrite
  <2>3. HopInv(RecordReply(hops[at], from, rtt, labels, err, overwrite),
               open[at] - 1, total[at] + rtt)
    BY <1>1, <2>1, <2>2, AnswerHop
  <2>4. /\ hops' = [hops EXCEPT ![at] =
                       RecordReply(hops[at], from, rtt, labels, err, overwrite)]
        /\ open' = [open EXCEPT ![at] = open[at] - 1]
        /\ total' = [total EXCEPT ![at] = total[at] + rtt]
        /\ UNCHANGED <<cfg, printed>>
    BY <1>3 DEF Answer, overwrite
  <2>5. heard' \in [DOMAIN hops -> SUBSET (Addrs \X Seq(MplsLabels))]
    BY <1>1, <1>3, <2>1 DEF Answer
  <2>. QED BY <2>3, <2>4, <2>5, OneHop
<1>4. ASSUME NEW at \in DOMAIN hops, NEW err \in cfg.errs \ {None}, SendFails(at, err)
      PROVE  IInv'
  <2>1. err \in Errors
    BY <1>1 DEF Configs
  <2>2. open[at] - 1 \in Nat /\ open[at] - 1 <= open[at]
    BY <1>1, <1>4 DEF SendFails, HopInv
  <2>3. HopInv(RecordSendError(hops[at], err), open[at] - 1, total[at])
    BY <1>1, <2>1, <2>2, QuietHop
  <2>4. /\ hops' = [hops EXCEPT ![at] = RecordSendError(hops[at], err)]
        /\ open' = [open EXCEPT ![at] = open[at] - 1]
        /\ total' = [total EXCEPT ![at] = total[at]]
        /\ UNCHANGED <<cfg, printed>> /\ heard' = heard
    BY <1>1, <1>4 DEF SendFails
  <2>. QED BY <1>1, <2>3, <2>4, OneHop
<1>5. ASSUME NEW at \in DOMAIN hops, SetFirstTtl(at) \/ SetMaxTtl(at)
      PROVE  IInv'
  <2>1. cfg.maxTtl \in Nat /\ cfg.firstTtl \in Nat \ {0} /\ at \in Nat
    BY <1>1 DEF Configs
  <2>2. cfg' \in Configs
    <3>1. CASE SetFirstTtl(at)
      <4>. DEFINE first == IF at > Larger(cfg.maxTtl, 1)
                           THEN Larger(cfg.maxTtl, 1) ELSE Larger(at, 1)
      <4>1. first \in Nat \ {0}
        BY <1>5, <2>1 DEF Larger
      <4>2. cfg' = [cfg EXCEPT !.firstTtl = first]
        BY <3>1 DEF SetFirstTtl
      <4>. HIDE DEF first
      <4>. QED BY <1>1, <4>1, <4>2, FirstTtlStays
    <3>2. CASE SetMaxTtl(at)
      <4>. DEFINE max == Larger(at, cfg.firstTtl)
      <4>1. max \in Nat
        BY <1>5, <2>1 DEF Larger
      <4>2. cfg' = [cfg EXCEPT !.maxTtl = max]
        BY <3>2 DEF SetMaxTtl
      <4>. HIDE DEF max
      <4>. QED BY <1>1, <4>1, <4>2, MaxTtlStays
    <3>. QED BY <1>5, <3>1, <3>2
  <2>3. UNCHANGED <<hops, open, heard, total, printed>>
    BY <1>5 DEF SetFirstTtl, SetMaxTtl
  <2>. QED BY <1>1, <2>2, <2>3, HopByHopNext
<1>6. ASSUME Reset PROVE IInv'
  <2>1. /\ hops' = [at \in DOMAIN hops |-> NewHop] /\ open' = [at \in DOMAIN hops |-> 0]
        /\ total' = [at \in DOMAIN hops |-> 0] /\ heard' = [at \in DOMAIN hops |-> {}]
        /\ UNCHANGED <<cfg, printed>>
    BY <1>6 DEF Reset, Cleared
  <2>2. \A at \in DOMAIN hops' : HopInv(hops'[at], open'[at], total'[at])
    BY <2>1, NewHopInv
  <2>. QED BY <1>1, <2>1, <2>2, HopByHopNext
<1>7. ASSUME End PROVE IInv'
  <2>1. /\ hops' = [at \in DOMAIN hops |-> [hops[at] EXCEPT !.stats = NotInFlight(@)]]
        /\ printed' = TRUE /\ UNCHANGED <<cfg, open, heard, total>>
    BY <1>7 DEF End
  <2>2. ASSUME NEW at \in DOMAIN hops PROVE HopInv(hops'[at], open'[at], total'[at])
    <3>1. open[at] \in Nat /\ open[at] <= open[at]
      BY <1>1 DEF HopInv
    <3>2. HopInv([hops[at] EXCEPT !.stats = NotInFlight(@)], open[at], total[at])
      BY <1>1, <3>1, QuietHop
    <3>. QED BY <2>1, <3>2
  <2>. QED BY <1>1, <2>1, <2>2, HopByHopNext
<1>8. CASE UNCHANGED vars
  BY <1>8 DEF vars, IInv, TypeOK, OpenCounted, FiguresBounded
<1>. QED BY <1>2, <1>3, <1>4, <1>5, <1>6, <1>7, <1>8 DEF Next, Running

\* The columns of every report keep the meaning stated by FiguresBounded, for
\* every number of hops, addresses and replies and every time up to MaxRtt.
THEOREM FiguresSafe == Spec => []FiguresBounded
<1>1. Init => IInv
  BY InitInv
<1>2. IInv /\ [Next]_vars => IInv'
  BY StepInv
<1>3. IInv => FiguresBounded
  BY DEF IInv
<1>. QED BY <1>1, <1>2, <1>3, PTL DEF Spec

-----------------------------------------------------------------------------
(* Who answered *)

\* What a hop remembers of the answers since the last reset: its address and the
\* labels with it come from one of them, and so does each entry of its list; the
\* list has each address once, and all of them while there is room.
Remembers(h, answers) ==
    /\ IsFiniteSet(answers)
    /\ IF h.addr = None THEN h.mpls = <<>> ELSE <<h.addr, h.mpls>> \in answers
    /\ Len(h.addrs) <= MaxPath
    /\ \A i \in DOMAIN h.addrs : <<h.addrs[i].addr, h.addrs[i].mpls>> \in answers
    /\ \A i, j \in DOMAIN h.addrs : h.addrs[i].addr = h.addrs[j].addr => i = j
    /\ Len(h.addrs) < MaxPath =>
          \A answer \in answers : \E i \in DOMAIN h.addrs : h.addrs[i].addr = answer[1]

\* Said of all hops.
AllRemembered == \A at \in DOMAIN hops : Remembers(hops[at], heard[at])

\* Who sent some answers, and whom a hop's list has.
Senders(answers) == {answer[1] : answer \in answers}
Listed(h) == {h.addrs[i].addr : i \in DOMAIN h.addrs}

\* Of a hop's list: each responder once and no other, and all while they are no more
\* than it holds, though the hop's own address is the latest and the list has the
\* first ones.  Labels, of the hop or in its list, are those the address sent.
RespondersKept ==
    \A at \in DOMAIN hops :
        LET h      == hops[at]
            listed == Listed(h)
        IN  /\ Cardinality(listed) = Len(h.addrs) /\ listed \subseteq Responders(at)
            /\ Cardinality(Responders(at)) <= MaxPath => listed = Responders(at)
            /\ \A i \in DOMAIN h.addrs : <<h.addrs[i].addr, h.addrs[i].mpls>> \in heard[at]
            /\ h.addr # None => h.addr \in Responders(at)
            /\ h.mpls # <<>> => <<h.addr, h.mpls>> \in heard[at]

\* An answer is remembered: by the list if it is new and there is room, by the hop
\* itself if it becomes its address.
LEMMA AnswerRemembered ==
    ASSUME NEW h \in HopRecords, NEW answers, Remembers(h, answers),
           NEW from \in Addrs, NEW rtt, NEW labels, NEW err, NEW overwrite \in BOOLEAN
    PROVE  Remembers(RecordReply(h, from, rtt, labels, err, overwrite),
                     answers \cup {<<from, labels>>})
<1> DEFINE r    == RecordReply(h, from, rtt, labels, err, overwrite)
           all  == answers \cup {<<from, labels>>}
           list == NoteAddr(h.addrs, from, labels)
           n    == Len(h.addrs)
<1>1. r.addrs = list
      /\ r.addr = (IF Overwrites(h, from, overwrite) THEN from ELSE h.addr)
      /\ r.mpls = (IF Overwrites(h, from, overwrite) THEN labels ELSE h.mpls)
  BY DEF RecordReply
<1>2. h.addrs \in Seq([addr : Addrs, mpls : Seq(MplsLabels)]) /\ n \in Nat
      /\ DOMAIN h.addrs = 1..n
  BY DEF HopRecords
<1>3. IsFiniteSet(all)
  BY FS_AddElement DEF Remembers
<1>4. IF r.addr = None THEN r.mpls = <<>> ELSE <<r.addr, r.mpls>> \in all
  <2>1. from # None
    BY ReportAssumption
  <2>. QED BY <1>1, <2>1 DEF Remembers
<1>5. /\ Len(list) <= MaxPath
      /\ \A i \in DOMAIN list : <<list[i].addr, list[i].mpls>> \in all
      /\ \A i, j \in DOMAIN list : list[i].addr = list[j].addr => i = j
      /\ Len(list) < MaxPath =>
            \A answer \in all : \E i \in DOMAIN list : list[i].addr = answer[1]
  <2>1. <<from, labels>>[1] = from
    OBVIOUS
  <2>2. CASE \E i \in DOMAIN h.addrs : h.addrs[i].addr = from
    <3>1. list = h.addrs
      BY <2>2 DEF NoteAddr
    <3>. QED BY <2>1, <2>2, <3>1 DEF Remembers
  <2>3. CASE n >= MaxPath
    <3>1. list = h.addrs
      BY <2>3 DEF NoteAddr
    <3>2. ~(n < MaxPath)
      BY <1>2, <2>3, ReportAssumption
    <3>. QED BY <3>1, <3>2 DEF Remembers
  <2>4. CASE ~(\E i \in DOMAIN h.addrs : h.addrs[i].addr = from) /\ ~(n >= MaxPath)
    <3> DEFINE entry == [addr |-> from, mpls |-> labels]
    <3>1. list = Append(h.addrs, entry)
      BY <2>4 DEF NoteAddr
    <3>2. /\ Len(list) = n + 1 /\ DOMAIN list = 1..(n + 1)
          /\ \A i \in 1..n : list[i] = h.addrs[i]
          /\ list[n + 1] = entry
      <4>. HIDE DEF entry
      <4>. QED BY <1>2, <3>1
    <3>3. list[n + 1].addr = from /\ list[n + 1].mpls = labels
      BY <3>2
    <3>. HIDE DEF list, entry
    <3>4. \A i \in 1..(n + 1) : i = n + 1 \/ i \in 1..n
      BY <1>2
    <3>5. n + 1 <= MaxPath
      BY <1>2, <2>4, ReportAssumption
    <3>6. ASSUME NEW i \in 1..(n + 1) PROVE <<list[i].addr, list[i].mpls>> \in all
      BY <1>2, <3>2, <3>3, <3>4 DEF Remembers
    <3>7. ASSUME NEW i \in 1..(n + 1), NEW j \in 1..(n + 1), list[i].addr = list[j].addr
          PROVE  i = j
      BY <1>2, <2>4, <3>2, <3>3, <3>4, <3>7 DEF Remembers
    <3>8. ASSUME NEW answer \in all
          PROVE  \E i \in 1..(n + 1) : list[i].addr = answer[1]
      <4>1. CASE answer = <<from, labels>>
        <5>1. n + 1 \in 1..(n + 1)
          BY <1>2
        <5>. QED BY <2>1, <3>3, <4>1, <5>1
      <4>2. CASE answer \in answers
        <5>1. n < MaxPath
          BY <1>2, <2>4, ReportAssumption
        <5>2. PICK i \in 1..n : h.addrs[i].addr = answer[1]
          BY <1>2, <4>2, <5>1 DEF Remembers
        <5>3. i \in 1..(n + 1)
          BY <1>2
        <5>. QED BY <3>2, <5>2, <5>3
      <4>. QED BY <4>1, <4>2
    <3>. QED BY <3>2, <3>5, <3>6, <3>7, <3>8
  <2>. QED BY <2>2, <2>3, <2>4
<1>. HIDE DEF r, list, all
<1>6. Remembers(r, all)
  BY <1>1, <1>3, <1>4, <1>5 DEF Remembers
<1>. QED BY <1>6 DEF r, all

\* The figures, the error and the flag of a probe in flight have no part in it.
LEMMA SameRemembered ==
    ASSUME NEW h, NEW k, NEW answers, Remembers(h, answers),
           k.addr = h.addr, k.addrs = h.addrs, k.mpls = h.mpls
    PROVE  Remembers(k, answers)
BY DEF Remembers

LEMMA NewRemembered == Remembers(NewHop, {})
<1>1. NewHop.addr = None /\ NewHop.addrs = <<>> /\ NewHop.mpls = <<>>
  BY DEF NewHop
<1>2. Len(NewHop.addrs) = 0 /\ DOMAIN NewHop.addrs = {}
  BY <1>1
<1>3. 0 <= MaxPath
  BY ReportAssumption
<1>. QED BY <1>1, <1>2, <1>3, FS_EmptySet DEF Remembers

\* Every step remembers.
LEMMA StepRemembered == ASSUME IInv, AllRemembered, [Next]_vars PROVE AllRemembered'
<1>1. /\ hops = [at \in DOMAIN hops |-> hops[at]]
      /\ heard \in [DOMAIN hops -> SUBSET (Addrs \X Seq(MplsLabels))]
      /\ cfg \in Configs
      /\ \A at \in DOMAIN hops : hops[at] \in HopRecords
  BY HopByHop DEF HopInv
<1>2. ASSUME NEW at \in DOMAIN hops, NEW h, NEW answers, Remembers(h, answers),
             hops' = [hops EXCEPT ![at] = h], heard' = [heard EXCEPT ![at] = answers]
      PROVE  AllRemembered'
  <2>1. DOMAIN hops' = DOMAIN hops
    BY <1>1, <1>2
  <2>2. ASSUME NEW b \in DOMAIN hops PROVE Remembers(hops'[b], heard'[b])
    <3>1. CASE b = at
      <4>1. hops'[b] = h /\ heard'[b] = answers
        BY <1>1, <1>2, <3>1
      <4>. QED BY <1>2, <4>1
    <3>2. CASE b # at
      <4>1. hops'[b] = hops[b] /\ heard'[b] = heard[b]
        BY <1>1, <1>2, <3>2
      <4>. QED BY <4>1 DEF AllRemembered
    <3>. QED BY <3>1, <3>2
  <2>. QED BY <2>1, <2>2 DEF AllRemembered
<1>3. ASSUME NEW at \in DOMAIN hops, NEW h,
             hops' = [hops EXCEPT ![at] = h], heard' = heard,
             h.addr = hops[at].addr, h.addrs = hops[at].addrs, h.mpls = hops[at].mpls
      PROVE  AllRemembered'
  <2>1. Remembers(h, heard[at])
    BY <1>3, SameRemembered DEF AllRemembered
  <2>2. heard' = [heard EXCEPT ![at] = heard[at]]
    BY <1>1, <1>3
  <2>. QED BY <1>2, <1>3, <2>1, <2>2
<1>4. ASSUME NEW at \in DOMAIN hops, Send(at) PROVE AllRemembered'
  <2>1. /\ hops' = [hops EXCEPT ![at] = RecordSend(hops[at])] /\ heard' = heard
    BY <1>4 DEF Send
  <2>2. LET h == RecordSend(hops[at])
        IN  h.addr = hops[at].addr /\ h.addrs = hops[at].addrs /\ h.mpls = hops[at].mpls
    BY <1>1 DEF RecordSend, HopRecords
  <2>. QED BY <1>3, <2>1, <2>2
<1>5. ASSUME NEW at \in DOMAIN hops,
             NEW from \in cfg.froms, NEW rtt \in cfg.rtts, NEW labels \in cfg.labels,
             NEW err \in cfg.errs, Answer(at, from, rtt, labels, err)
      PROVE  AllRemembered'
  <2> DEFINE overwrite == MayShow(at, from)
  <2>1. from \in Addrs /\ overwrite \in BOOLEAN
    <3>1. cfg.froms \subseteq Addrs
      BY <1>1 DEF Configs
    <3>. QED BY <3>1 DEF MayShow
  <2>2. /\ hops' = [hops EXCEPT ![at] =
                       RecordReply(hops[at], from, rtt, labels, err, overwrite)]
        /\ heard' = [heard EXCEPT ![at] = heard[at] \cup {<<from, labels>>}]
    BY <1>5 DEF Answer
  <2> HIDE DEF overwrite
  <2>3. Remembers(hops[at], heard[at])
    BY DEF AllRemembered
  <2>4. Remembers(RecordReply(hops[at], from, rtt, labels, err, overwrite),
                  heard[at] \cup {<<from, labels>>})
    BY <1>1, <2>1, <2>3, AnswerRemembered
  <2>. QED BY <1>2, <2>2, <2>4
<1>6. ASSUME NEW at \in DOMAIN hops, NEW err \in cfg.errs \ {None}, SendFails(at, err)
      PROVE  AllRemembered'
  <2>1. /\ hops' = [hops EXCEPT ![at] = RecordSendError(hops[at], err)] /\ heard' = heard
    BY <1>6 DEF SendFails
  <2>2. LET h == RecordSendError(hops[at], err)
        IN  h.addr = hops[at].addr /\ h.addrs = hops[at].addrs /\ h.mpls = hops[at].mpls
    BY <1>1 DEF RecordSendError, HopRecords
  <2>. QED BY <1>3, <2>1, <2>2
<1>7. ASSUME NEW at \in DOMAIN hops, SetFirstTtl(at) \/ SetMaxTtl(at) PROVE AllRemembered'
  BY <1>7 DEF SetFirstTtl, SetMaxTtl, AllRemembered
<1>8. ASSUME Reset PROVE AllRemembered'
  <2>1. /\ hops' = [at \in DOMAIN hops |-> NewHop] /\ heard' = [at \in DOMAIN hops |-> {}]
    BY <1>8 DEF Reset, Cleared
  <2>. QED BY <2>1, NewRemembered DEF AllRemembered
<1>9. ASSUME End PROVE AllRemembered'
  <2>1. /\ hops' = [at \in DOMAIN hops |-> [hops[at] EXCEPT !.stats = NotInFlight(@)]]
        /\ heard' = heard
    BY <1>9 DEF End
  <2>2. ASSUME NEW at \in DOMAIN hops PROVE Remembers(hops'[at], heard'[at])
    <3> DEFINE h == [hops[at] EXCEPT !.stats = NotInFlight(@)]
    <3>1. h.addr = hops[at].addr /\ h.addrs = hops[at].addrs /\ h.mpls = hops[at].mpls
      BY <1>1 DEF HopRecords
    <3>2. hops'[at] = h /\ heard'[at] = heard[at]
      BY <2>1
    <3> HIDE DEF h
    <3>. QED BY <3>1, <3>2, SameRemembered DEF AllRemembered
  <2>3. DOMAIN hops' = DOMAIN hops
    BY <2>1
  <2>. QED BY <2>2, <2>3 DEF AllRemembered
<1>10. CASE UNCHANGED vars
  BY <1>10 DEF vars, AllRemembered
<1>. QED BY <1>4, <1>5, <1>6, <1>7, <1>8, <1>9, <1>10 DEF Next, Running

\* What is remembered of one hop, counted.
LEMMA ListCounts ==
    ASSUME NEW h \in HopRecords, NEW answers, Remembers(h, answers)
    PROVE  /\ Cardinality(Listed(h)) = Len(h.addrs) /\ Listed(h) \subseteq Senders(answers)
           /\ Cardinality(Senders(answers)) <= MaxPath => Listed(h) = Senders(answers)
<1> DEFINE R == Senders(answers)
           listed == Listed(h)
           n == Len(h.addrs)
           f == [i \in 1..n |-> h.addrs[i].addr]
           g == [answer \in answers |-> answer[1]]
<1>1. n \in Nat /\ DOMAIN h.addrs = 1..n
  BY DEF HopRecords
<1>2. f \in Bijection(1..n, listed)
  <2>1. f \in [1..n -> listed]
    BY <1>1 DEF Listed
  <2>2. \A x \in listed : \E i \in 1..n : f[i] = x
    BY <1>1 DEF Listed
  <2>3. \A i, j \in 1..n : f[i] = f[j] => i = j
    BY <1>1 DEF Remembers
  <2>. QED BY <2>1, <2>2, <2>3, Fun_IsBij
<1>3. IsFiniteSet(listed) /\ Cardinality(listed) = n
  <2>1. IsFiniteSet(1..n) /\ Cardinality(1..n) = n
    <3>1. 1 \in Int /\ n \in Int /\ (IF 1 > n THEN 0 ELSE n - 1 + 1) = n
      BY <1>1
    <3>. HIDE DEF n
    <3>. QED BY <3>1, FS_Interval
  <2>2. ExistsBijection(1..n, listed)
    BY <1>2 DEF ExistsBijection
  <2>. HIDE DEF n
  <2>. QED BY <2>1, <2>2, FS_Bijection
<1>4. listed \subseteq R
  <2> SUFFICES ASSUME NEW i \in 1..n PROVE h.addrs[i].addr \in R
    BY <1>1 DEF Listed
  <2>1. <<h.addrs[i].addr, h.addrs[i].mpls>> \in answers
    BY <1>1 DEF Remembers
  <2>. QED BY <2>1 DEF Senders
<1>5. IsFiniteSet(R)
  <2>1. g \in [answers -> R] /\ \A x \in R : \E answer \in answers : g[answer] = x
    BY DEF Senders
  <2>2. g \in Surjection(answers, R)
    BY <2>1, Fun_IsSurj
  <2>. QED BY <2>2, FS_Surjection DEF Remembers
<1>6. ASSUME Cardinality(R) <= MaxPath PROVE listed = R
  <2>1. Cardinality(R) \in Nat /\ Cardinality(listed) <= Cardinality(R)
    <3>1. Cardinality(R) \in Nat
      BY <1>5, FS_CardinalityType
    <3>2. listed \in SUBSET R
      BY <1>4
    <3>. QED BY <1>5, <3>1, <3>2, FS_Subset
  <2>2. CASE n < MaxPath
    <3>1. ASSUME NEW x \in R PROVE x \in listed
      <4>1. PICK answer \in answers : x = answer[1]
        BY DEF Senders
      <4>2. \E i \in DOMAIN h.addrs : h.addrs[i].addr = answer[1]
        BY <2>2 DEF Remembers
      <4>. QED BY <4>1, <4>2 DEF Listed
    <3>. QED BY <1>4, <3>1
  <2>3. CASE ~(n < MaxPath)
    <3>1. Cardinality(listed) = Cardinality(R)
      BY <1>1, <1>3, <1>6, <2>1, <2>3, ReportAssumption
    <3>2. listed \in SUBSET R
      BY <1>4
    <3>. QED BY <1>5, <3>1, <3>2, FS_Subset
  <2>. QED BY <2>2, <2>3
<1>. QED BY <1>3, <1>4, <1>6

\* A hop's list accounts for its responders, and no labels are another's, for every
\* MaxPath and any answers, resets and changes of the TTLs.
THEOREM RespondersSafe == Spec => []RespondersKept
<1>1. Init => IInv /\ AllRemembered
  BY InitInv, NewRemembered DEF Init, AllRemembered
<1>2. IInv /\ AllRemembered /\ [Next]_vars => (IInv /\ AllRemembered)'
  BY StepInv, StepRemembered
<1>3. IInv /\ AllRemembered => RespondersKept
  <2> SUFFICES ASSUME IInv, AllRemembered, NEW at \in DOMAIN hops
               PROVE  LET h      == hops[at]
                          listed == Listed(h)
                      IN  /\ Cardinality(listed) = Len(h.addrs)
                          /\ listed \subseteq Responders(at)
                          /\ Cardinality(Responders(at)) <= MaxPath => listed = Responders(at)
                          /\ \A i \in DOMAIN h.addrs :
                                <<h.addrs[i].addr, h.addrs[i].mpls>> \in heard[at]
                          /\ h.addr # None => h.addr \in Responders(at)
                          /\ h.mpls # <<>> => <<h.addr, h.mpls>> \in heard[at]
    BY DEF RespondersKept
  <2>1. hops[at] \in HopRecords /\ Remembers(hops[at], heard[at])
    BY HopByHop DEF HopInv, AllRemembered
  <2>2. /\ Cardinality(Listed(hops[at])) = Len(hops[at].addrs)
        /\ Listed(hops[at]) \subseteq Senders(heard[at])
        /\ Cardinality(Senders(heard[at])) <= MaxPath =>
              Listed(hops[at]) = Senders(heard[at])
    BY <2>1, ListCounts
  <2>3. Senders(heard[at]) = Responders(at)
    BY DEF Responders, Senders
  <2>4. /\ \A i \in DOMAIN hops[at].addrs :
              <<hops[at].addrs[i].addr, hops[at].addrs[i].mpls>> \in heard[at]
        /\ hops[at].addr # None => <<hops[at].addr, hops[at].mpls>> \in heard[at]
        /\ hops[at].mpls # <<>> => hops[at].addr # None
    BY <2>1 DEF Remembers
  <2>5. hops[at].addr # None => hops[at].addr \in Responders(at)
    <3>1. <<hops[at].addr, hops[at].mpls>>[1] = hops[at].addr
      OBVIOUS
    <3>. QED BY <2>4, <3>1 DEF Responders
  <2>. QED BY <2>2, <2>4, <2>5, <2>3
<1>. QED BY <1>1, <1>2, <1>3, PTL DEF Spec

-----------------------------------------------------------------------------
(* Which hops *)

\* A set of numbers has a least one, and, below a bound, a greatest one.
LEMMA Least ==
    ASSUME NEW T, T \subseteq Nat, T # {}
    PROVE  \E x \in T : \A y \in T : x <= y
<1>1. OpToRel(<, Nat) = {pair \in Nat \X Nat : pair[1] < pair[2]}
  BY DEF OpToRel
<1>2. \E x \in T : \A y \in T : <<y, x>> \notin OpToRel(<, Nat)
  BY NatLessThanWellFounded, WFMin, Zenon
<1>3. PICK x \in T : \A y \in T : <<y, x>> \notin {pair \in Nat \X Nat : pair[1] < pair[2]}
  BY <1>1, <1>2
<1>4. ASSUME NEW y \in T PROVE x <= y
  <2>1. x \in Nat /\ y \in Nat
    OBVIOUS
  <2>2. <<y, x>> \in Nat \X Nat /\ <<y, x>>[1] = y /\ <<y, x>>[2] = x
    BY <2>1
  <2>3. ~(y < x)
    BY <1>3, <2>2
  <2>. QED BY <2>1, <2>3
<1>. QED BY <1>4

LEMMA Greatest ==
    ASSUME NEW n \in Nat, NEW T, T \subseteq 0..n, T # {}
    PROVE  \E x \in T : \A y \in T : y <= x
<1> DEFINE P == {k \in Nat : \A y \in T : y <= k}
<1>1. n \in P
  OBVIOUS
<1>2. PICK m \in P : \A k \in P : m <= k
  BY <1>1, Least
<1>3. m \in T
  <2> SUFFICES ASSUME m \notin T PROVE FALSE
    OBVIOUS
  <2>1. PICK z : z \in T
    OBVIOUS
  <2>2. m \in Nat /\ \A y \in T : y \in Nat /\ y <= m /\ y # m
    OBVIOUS
  <2>3. m - 1 \in Nat /\ \A y \in T : y <= m - 1
    BY <2>1, <2>2
  <2>4. m - 1 \in P
    BY <2>3
  <2>. QED BY <1>2, <2>2, <2>4
<1>. QED BY <1>3

\* Where the route ends first, if it ends; else every hop that is known lies before
\* the end or is the last of the path.
LEMMA RangeReaches ==
    ASSUME cfg \in Configs, NEW at \in Path, hops[at].addr # None, at \notin DisplayRange
    PROVE  at < cfg.firstTtl \/ \E b \in 1..(at - 1) : RouteEnds(b)
<1>1. cfg.firstTtl \in Nat /\ cfg.maxTtl \in Nat
  BY DEF Configs
<1>2. Path = 1..cfg.maxTtl /\ at \in Nat /\ at >= 1 /\ at <= cfg.maxTtl
  BY <1>1 DEF Path
<1>3. CASE \E b \in Path : RouteEnds(b)
  <2> DEFINE First(c) == RouteEnds(c) /\ \A b \in 1..(c - 1) : ~RouteEnds(b)
             E == {b \in Path : RouteEnds(b)}
  <2>1. E \subseteq Nat /\ E # {}
    BY <1>2, <1>3
  <2>2. PICK x \in E : \A y \in E : x <= y
    BY <2>1, Least
  <2>3. First(x)
    <3>1. ASSUME NEW b \in 1..(x - 1) PROVE ~RouteEnds(b)
      <4>1. b \in Path /\ ~(x <= b)
        BY <1>1, <1>2, <2>2
      <4>. QED BY <2>2, <4>1
    <3>. QED BY <3>1
  <2>4. MaxHop = CHOOSE c \in Path : First(c)
    BY <1>3 DEF MaxHop
  <2>5. MaxHop \in Path /\ First(MaxHop)
    <3>. HIDE DEF First
    <3>. QED BY <2>3, <2>4
  <2>6. CASE MaxHop < at
    <3>1. MaxHop \in 1..(at - 1)
      BY <1>1, <1>2, <2>5, <2>6
    <3>. QED BY <2>5, <3>1
  <2>7. CASE ~(MaxHop < at)
    <3>1. MaxHop \in Nat
      BY <1>2, <2>5
    <3>. QED BY <1>1, <1>2, <2>7, <3>1 DEF DisplayRange
  <2>. QED BY <2>6, <2>7
<1>4. CASE ~\E b \in Path : RouteEnds(b)
  <2> DEFINE Ends(c) == Known(c) /\ \A b \in (c + 1)..cfg.maxTtl : ~Known(b)
             K == {b \in Path : Known(b)}
  <2>1. at \in K
    BY DEF Known
  <2>2. K \subseteq 0..cfg.maxTtl
    BY <1>1, <1>2
  <2>3. PICK x \in K : \A y \in K : y <= x
    BY <1>1, <2>1, <2>2, Greatest
  <2>4. Ends(x)
    <3>1. ASSUME NEW b \in (x + 1)..cfg.maxTtl PROVE ~Known(b)
      <4>1. b \in Path /\ ~(b <= x)
        BY <1>1, <1>2, <2>3
      <4>. QED BY <2>3, <4>1
    <3>. QED BY <2>3, <3>1
  <2>5. MaxHop = Smaller(cfg.maxTtl, 1 + CHOOSE c \in Path : Ends(c))
    BY <1>4, <2>1 DEF MaxHop
  <2> DEFINE last == CHOOSE c \in Path : Ends(c)
  <2>6. last \in Path /\ Ends(last)
    <3>. HIDE DEF Ends
    <3>. QED BY <2>3, <2>4
  <2>7. last \in Nat /\ at <= last
    <3>1. last \in Nat /\ (at \in (last + 1)..cfg.maxTtl => ~Known(at))
      BY <1>2, <2>6
    <3>. HIDE DEF last
    <3>. QED BY <1>1, <1>2, <2>1, <3>1
  <2>8. MaxHop = Smaller(cfg.maxTtl, 1 + last)
    BY <2>5
  <2>. HIDE DEF last
  <2>9. MaxHop \in Nat /\ at <= MaxHop
    BY <1>1, <1>2, <2>7, <2>8 DEF Smaller
  <2>. QED BY <1>1, <1>2, <2>9 DEF DisplayRange
<1>. QED BY <1>3, <1>4

\* A report leaves out no hop that answered but for the three reasons there are,
\* whatever the TTLs have become meanwhile.
THEOREM HopsSafe == Spec => []HopsShown
<1>1. IInv => HopsShown
  BY HopByHop, RangeReaches DEF HopsShown
<1>. QED BY <1>1, InitInv, StepInv, PTL DEF Spec

=============================================================================
