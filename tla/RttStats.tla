------------------------------ MODULE RttStats --------------------------------
(***************************************************************************)
(* The figures of one hop, crates/mtr-core/src/stats.rs: counters and the   *)
(* integer recurrences for mean, deviation and jitter.  Round-trip times    *)
(* are microseconds.  A sum in f64 that is truncated to an integer is the    *)
(* truncated exact value, as it is while fewer than 2^20 replies are in      *)
(* and ssd is below 2^53.  gmean needs real roots and is left out.           *)
(***************************************************************************)
EXTENDS Integers

NoStats ==
    [ xmit |-> 0, returned |-> 0, transit |-> 0, last |-> 0, best |-> 0, worst |-> 0,
      avg |-> 0, ssd |-> 0, jitter |-> 0, javg |-> 0, jworst |-> 0, jinta |-> 0 ]

StatsRecords ==
    [ xmit : Int, returned : Int, transit : Int, last : Int, best : Int, worst : Int,
      avg : Int, ssd : Int, jitter : Int, javg : Int, jworst : Int, jinta : Int ]

Distance(a, b) == IF a >= b THEN a - b ELSE b - a
Larger(a, b)   == IF a >= b THEN a ELSE b
Smaller(a, b)  == IF a <= b THEN a ELSE b

\* Rust's integer division by a positive number: towards zero.
Truncated(a, n) == IF a >= 0 THEN a \div n ELSE -((-a) \div n)

CountSend(s) == [s EXCEPT !.xmit = @ + 1, !.transit = 1]

\* Mutant: the first reply is compared with a previous one of zero.
FromFirstAndZero(s, rtt) ==
    IF s.returned < 1
    THEN [last |-> s.last, best |-> rtt, worst |-> rtt, avg |-> 0, ssd |-> 0,
          jworst |-> 0, jinta |-> 0]
    ELSE s

\* The figures a reply is compared with: the first one starts them afresh and, as
\* its own predecessor, has no jitter.
FromFirst(s, rtt) ==
    IF s.returned < 1
    THEN [last |-> rtt, best |-> rtt, worst |-> rtt, avg |-> 0, ssd |-> 0,
          jworst |-> 0, jinta |-> 0]
    ELSE s

\* The running mean, truncated after every reply, over n replies.
Mean(old, rtt, n) == ((n - 1) * old + rtt) \div n

\* RFC 1889 A.8, times 16.
Interarrival(old, jitter) == old + jitter - ((old + 8) \div 16)

CountReply(s, rtt) ==
    LET h      == FromFirst(s, rtt)
        n      == s.returned + 1
        jitter == Distance(rtt, h.last)
        mean   == Mean(h.avg, rtt, n)
    IN  [ xmit     |-> s.xmit,
          returned |-> n,
          transit  |-> 0,
          last     |-> rtt,
          best     |-> Smaller(rtt, h.best),
          worst    |-> Larger(rtt, h.worst),
          avg      |-> mean,
          ssd      |-> h.ssd + (rtt - h.avg) * (rtt - mean),
          jitter   |-> jitter,
          jworst   |-> Larger(jitter, h.jworst),
          javg     |-> s.javg + Truncated(jitter - s.javg, n),
          jinta    |-> Interarrival(h.jinta, jitter) ]

\* end_transit, and the transit flag of a send that failed.
NotInFlight(s) == [s EXCEPT !.transit = 0]

\* Thousandths of a percent of the probes that are no longer in flight (computed
\* in f64, the code's figure may be one thousandth less).
Loss(s) ==
    LET sent == s.xmit - s.transit
    IN  IF sent = 0 THEN 0 ELSE (100000 * (sent - s.returned)) \div sent

Drop(s) == (s.xmit - s.transit) - s.returned

\* The square root of a natural number, rounded down.
Root(x) == CHOOSE r \in 0..x : r * r <= x /\ x < (r + 1) * (r + 1)

StDev(s) == IF s.returned > 1 THEN Root(s.ssd \div (s.returned - 1)) ELSE 0
=============================================================================
