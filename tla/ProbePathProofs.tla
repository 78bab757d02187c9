-------------------------- MODULE ProbePathProofs --------------------------
(***************************************************************************)
(* Proofs about ProbePath, for every session, every range of ports, every  *)
(* size of the table and every number of probes.                           *)
(*                                                                         *)
(* First what a line says: the words of a request or response give each    *)
(* key at most one value (Said), so that what is read back is what was     *)
(* written, whatever the order of the keys.  With that a probe is known by *)
(* three things, its token, its protocol and its sequence number: a Trail. *)
(* The session and the opened sockets say the rest, the entry in the       *)
(* helper's table (EntryOf) and the headers that routers quote (HeaderOf). *)
(*                                                                         *)
(* The invariant is that there is a log of trails, one to a token and one  *)
(* to a number, that everything under way is about (Fits): the table, the  *)
(* datagrams, the one to be repeated, and the messages that wait on error  *)
(* queues.  The numbers stay apart because the range of ports is longer    *)
(* than all that a session draws.  The rest keeps the answers (AnswersFit),*)
(* and the privileges that the handshake has promised (Able).              *)
(***************************************************************************)
EXTENDS ProbePath, NaturalsInduction, WellFoundedInduction, TLAPS

-----------------------------------------------------------------------------
(* The words of a line *)

\* Where a key stands among the words W.
Occ(W, key) == {i \in 1..(Len(W) \div 2) : W[2 * i - 1] = key}

\* The words W give the keys K the values D, each key at most once, and stand in
\* pairs.
Said(W, K, D) ==
    /\ \E S : W \in Seq(S)
    /\ \E n \in Nat : Len(W) = 2 * n
    /\ \A key : /\ key \notin K \/ D[key] = None => Occ(W, key) = {}
                /\ key \in K /\ D[key] # None =>
                      \E i : Occ(W, key) = {i} /\ W[2 * i] = D[key]

\* Writing argument after argument: each says its own key and leaves the others.
LEMMA NothingSaid ==
    ASSUME NEW D
    PROVE  Said(<<>>, {}, D)
<1>1. <<>> \in Seq({})
  OBVIOUS
<1>2. Len(<<>>) = 2 * 0
  OBVIOUS
<1>3. \A key : Occ(<<>>, key) = {}
  BY DEF Occ
<1>. QED BY <1>1, <1>2, <1>3 DEF Said

LEMMA SayNone ==
    ASSUME NEW W, NEW K, NEW D, NEW key, Said(W, K, D), key \notin K, D[key] = None
    PROVE  Said(W, K \cup {key}, D)
BY DEF Said

LEMMA SayOne ==
    ASSUME NEW W, NEW K, NEW D, NEW key, Said(W, K, D), key \notin K,
           D[key] # None
    PROVE  Said(W \o <<key, D[key]>>, K \cup {key}, D)
<1> DEFINE V == W \o <<key, D[key]>>
<1>1. PICK S : W \in Seq(S)
  BY DEF Said
<1>2. PICK n \in Nat : Len(W) = 2 * n
  BY DEF Said
<1> DEFINE T == S \cup {key, D[key]}
<1>3. W \in Seq(T) /\ <<key, D[key]>> \in Seq(T)
  BY <1>1
<1>4. /\ V \in Seq(T) /\ Len(V) = 2 * (n + 1)
      /\ \A i \in 1..Len(W) : V[i] = W[i]
      /\ V[2 * n + 1] = key /\ V[2 * n + 2] = D[key]
  BY <1>2, <1>3
<1>5. Len(W) \div 2 = n /\ Len(V) \div 2 = n + 1
  BY <1>2, <1>4
<1> HIDE DEF V
<1>6. \A i \in 1..n : V[2 * i - 1] = W[2 * i - 1] /\ V[2 * i] = W[2 * i]
  <2> SUFFICES ASSUME NEW i \in 1..n PROVE V[2 * i - 1] = W[2 * i - 1] /\ V[2 * i] = W[2 * i]
    OBVIOUS
  <2>1. 2 * i - 1 \in 1..Len(W) /\ 2 * i \in 1..Len(W)
    BY <1>2
  <2>. QED BY <1>4, <2>1
<1>7. \A k : k # key => Occ(V, k) = Occ(W, k)
  <2> SUFFICES ASSUME NEW k, k # key PROVE Occ(V, k) = Occ(W, k)
    OBVIOUS
  <2>1. Occ(V, k) \subseteq Occ(W, k)
    <3> SUFFICES ASSUME NEW i \in Occ(V, k) PROVE i \in Occ(W, k)
      OBVIOUS
    <3>1. i \in 1..(n + 1) /\ V[2 * i - 1] = k
      BY <1>5 DEF Occ
    <3>2. i # n + 1
      <4> SUFFICES ASSUME i = n + 1 PROVE FALSE
        OBVIOUS
      <4>1. 2 * i - 1 = 2 * n + 1
        OBVIOUS
      <4>. QED BY <1>4, <3>1, <4>1
    <3>. QED BY <1>5, <1>6, <3>1, <3>2 DEF Occ
  <2>2. Occ(W, k) \subseteq Occ(V, k)
    BY <1>5, <1>6 DEF Occ
  <2>. QED BY <2>1, <2>2
<1>8. Occ(W, key) = {}
  BY DEF Said
<1>9. Occ(V, key) = {n + 1}
  <2>1. Occ(V, key) \subseteq {n + 1}
    <3> SUFFICES ASSUME NEW i \in Occ(V, key), i # n + 1 PROVE FALSE
      OBVIOUS
    <3>1. i \in 1..n /\ V[2 * i - 1] = key
      BY <1>5 DEF Occ
    <3>. QED BY <1>5, <1>6, <1>8, <3>1 DEF Occ
  <2>2. n + 1 \in Occ(V, key)
    <3>1. 2 * (n + 1) - 1 = 2 * n + 1
      OBVIOUS
    <3>. QED BY <1>4, <1>5, <3>1 DEF Occ
  <2>. QED BY <2>1, <2>2
<1>10. V[2 * (n + 1)] = D[key]
  <2>1. 2 * (n + 1) = 2 * n + 2
    OBVIOUS
  <2>. QED BY <1>4, <2>1
<1>11. ASSUME NEW k
       PROVE  /\ k \notin K \cup {key} \/ D[k] = None => Occ(V, k) = {}
              /\ k \in K \cup {key} /\ D[k] # None => \E i : Occ(V, k) = {i} /\ V[2 * i] = D[k]
  <2>1. CASE k = key
    BY <1>9, <1>10, <2>1
  <2>2. CASE k # key
    <3>1. /\ k \notin K \/ D[k] = None => Occ(W, k) = {}
          /\ k \in K /\ D[k] # None => \E i : Occ(W, k) = {i} /\ W[2 * i] = D[k]
      BY DEF Said
    <3>2. \A i : Occ(W, k) = {i} => W[2 * i] = V[2 * i]
      BY <1>5, <1>6 DEF Occ
    <3>. QED BY <1>7, <2>2, <3>1, <3>2
  <2>. QED BY <2>1, <2>2
<1>12. (\E SS : V \in Seq(SS)) /\ (\E m \in Nat : Len(V) = 2 * m)
  BY <1>4
<1>13. Said(V, K \cup {key}, D)
  BY <1>11, <1>12 DEF Said
<1>. QED BY <1>13 DEF V

LEMMA SayArgument ==
    ASSUME NEW W, NEW K, NEW D, NEW key, Said(W, K, D), key \notin K
    PROVE  Said(W \o Argument(key, D[key]), K \cup {key}, D)
<1>1. CASE D[key] = None
  <2>1. PICK S : W \in Seq(S)
    BY DEF Said
  <2>2. W \o <<>> = W
    BY <2>1
  <2>. QED BY <1>1, <2>2, SayNone DEF Argument
<1>2. CASE D[key] # None
  BY <1>2, SayOne DEF Argument
<1>. QED BY <1>1, <1>2

LEMMA SayKeyed ==
    ASSUME NEW W, NEW K, NEW D, NEW key4, NEW key6, NEW addr, Said(W, K, D),
           key4 \notin K, key6 \notin K, key4 # key6,
           D[key4] = IF addr # None /\ addr.family = 4 THEN addr ELSE None,
           D[key6] = IF addr # None /\ addr.family # 4 THEN addr ELSE None
    PROVE  Said(W \o Keyed(key4, key6, addr), K \cup {key4, key6}, D)
<1>1. PICK S : W \in Seq(S)
  BY DEF Said
<1>2. (K \cup {key4}) \cup {key6} = K \cup {key4, key6}
  OBVIOUS
<1>3. (K \cup {key6}) \cup {key4} = K \cup {key4, key6}
  OBVIOUS
<1>4. CASE addr = None
  <2>1. D[key4] = None /\ D[key6] = None
    BY <1>4
  <2>2. Said(W, K \cup {key4}, D)
    BY <2>1, SayNone
  <2>3. Said(W, (K \cup {key4}) \cup {key6}, D)
    BY <2>1, <2>2, SayNone
  <2>4. W \o Keyed(key4, key6, addr) = W
    BY <1>1, <1>4 DEF Keyed
  <2>. QED BY <1>2, <2>3, <2>4
<1>5. CASE addr # None /\ addr.family = 4
  <2>1. D[key4] = addr /\ D[key6] = None
    BY <1>5
  <2>2. Said(W, K \cup {key6}, D)
    BY <2>1, SayNone
  <2>3. Said(W \o <<key4, D[key4]>>, (K \cup {key6}) \cup {key4}, D)
    BY <1>5, <2>1, <2>2, SayOne
  <2>. QED BY <1>3, <1>5, <2>1, <2>3 DEF Keyed
<1>6. CASE addr # None /\ addr.family # 4
  <2>1. D[key6] = addr /\ D[key4] = None
    BY <1>6
  <2>2. Said(W, K \cup {key4}, D)
    BY <2>1, SayNone
  <2>3. Said(W \o <<key6, D[key6]>>, (K \cup {key4}) \cup {key6}, D)
    BY <1>6, <2>1, <2>2, SayOne
  <2>. QED BY <1>2, <1>6, <2>1, <2>3 DEF Keyed
<1>. QED BY <1>4, <1>5, <1>6

LEMMA OccIsInt ==
    ASSUME NEW W, NEW K, NEW D, Said(W, K, D), NEW key, NEW i \in Occ(W, key)
    PROVE  i \in Int
<1>1. PICK n \in Nat : Len(W) = 2 * n
  BY DEF Said
<1>2. Len(W) \div 2 = n
  BY <1>1
<1>. QED BY <1>2 DEF Occ

\* What is read for a key is what was said for it.
LEMMA ReadFirst ==
    ASSUME NEW line, NEW K, NEW D, NEW key \in K, Said(line.words, K, D)
    PROVE  FirstOf(line, key) = D[key]
<1>1. Occurrences(line, key) = Occ(line.words, key)
  BY DEF Occurrences, Occ
<1>2. CASE D[key] = None
  <2>1. Occ(line.words, key) = {}
    BY <1>2 DEF Said
  <2>. QED BY <1>1, <1>2, <2>1 DEF FirstOf
<1>3. CASE D[key] # None
  <2>1. PICK i : Occ(line.words, key) = {i} /\ line.words[2 * i] = D[key]
    BY <1>3 DEF Said
  <2>2. i \in Int
    BY <2>1, OccIsInt
  <2>3. (CHOOSE a \in {i} : \A j \in {i} : a <= j) = i
    BY <2>2
  <2>. QED BY <1>1, <2>1, <2>3 DEF FirstOf, ValueAt
<1>. QED BY <1>2, <1>3

LEMMA LastIs ==
    ASSUME NEW line, NEW keys, NEW i \in Int,
           UNION {Occurrences(line, k) : k \in keys} = {i}
    PROVE  LastOf(line, keys) = line.words[2 * i]
<1>1. (CHOOSE a \in {i} : \A j \in {i} : j <= a) = i
  OBVIOUS
<1>. QED BY <1>1 DEF LastOf, ValueAt

LEMMA ReadLast ==
    ASSUME NEW line, NEW K, NEW D, NEW word, word \in K, Said(line.words, K, D)
    PROVE  LastOf(line, {word}) = D[word]
<1>1. UNION {Occurrences(line, k) : k \in {word}} = Occ(line.words, word)
  BY DEF Occurrences, Occ
<1>2. CASE D[word] = None
  <2>1. Occ(line.words, word) = {}
    BY <1>2 DEF Said
  <2>. QED BY <1>1, <1>2, <2>1 DEF LastOf
<1>3. CASE D[word] # None
  <2>1. PICK i : Occ(line.words, word) = {i} /\ line.words[2 * i] = D[word]
    BY <1>3 DEF Said
  <2>2. i \in Int
    BY <2>1, OccIsInt
  <2>3. (CHOOSE a \in {i} : \A j \in {i} : j <= a) = i
    BY <2>2
  <2>. QED BY <1>1, <2>1, <2>3 DEF LastOf, ValueAt
<1>. QED BY <1>2, <1>3

\* Of an address one of the two keys is said, and it is read by either.
LEMMA ReadEither ==
    ASSUME NEW line, NEW K, NEW D, NEW key4 \in K, NEW key6 \in K,
           Said(line.words, K, D), NEW addr,
           D[key4] = IF addr # None /\ addr.family = 4 THEN addr ELSE None,
           D[key6] = IF addr # None /\ addr.family # 4 THEN addr ELSE None
    PROVE  OrDefault(FirstOf(line, key4), FirstOf(line, key6)) = addr
<1>1. FirstOf(line, key4) = D[key4] /\ FirstOf(line, key6) = D[key6]
  BY ReadFirst
<1>. QED BY <1>1 DEF OrDefault

LEMMA ReadLastEither ==
    ASSUME NEW line, NEW K, NEW D, NEW key4 \in K, NEW key6 \in K,
           Said(line.words, K, D), NEW addr,
           D[key4] = IF addr # None /\ addr.family = 4 THEN addr ELSE None,
           D[key6] = IF addr # None /\ addr.family # 4 THEN addr ELSE None,
           NEW keys, keys = {key4, key6}
    PROVE  LastOf(line, keys) = addr
<1>1. UNION {Occurrences(line, k) : k \in keys}
         = Occ(line.words, key4) \cup Occ(line.words, key6)
  <2>1. \A k : Occurrences(line, k) = Occ(line.words, k)
    BY DEF Occurrences, Occ
  <2>2. UNION {Occurrences(line, k) : k \in keys}
           = Occurrences(line, key4) \cup Occurrences(line, key6)
    OBVIOUS
  <2>. QED BY <2>1, <2>2
<1>2. CASE addr = None
  <2>1. Occ(line.words, key4) = {} /\ Occ(line.words, key6) = {}
    BY <1>2 DEF Said
  <2>. QED BY <1>1, <1>2, <2>1 DEF LastOf
<1>3. CASE addr # None
  <2>1. PICK i : /\ Occ(line.words, key4) \cup Occ(line.words, key6) = {i}
                 /\ line.words[2 * i] = addr
    <3>1. CASE addr.family = 4
      <4>1. D[key4] = addr /\ D[key6] = None
        BY <1>3, <3>1
      <4>. QED BY <1>3, <4>1 DEF Said
    <3>2. CASE addr.family # 4
      <4>1. D[key6] = addr /\ D[key4] = None
        BY <1>3, <3>2
      <4>. QED BY <1>3, <4>1 DEF Said
    <3>. QED BY <3>1, <3>2
  <2>2. i \in Int
    BY <2>1, OccIsInt
  <2>3. LastOf(line, keys) = line.words[2 * i]
    BY <1>1, <2>1, <2>2, LastIs
  <2>. QED BY <2>1, <2>3
<1>. QED BY <1>2, <1>3

-----------------------------------------------------------------------------
(* The way of a request *)

\* What the helper makes of the request for token t's probe.
Asks(t, protocol) ==
    [family |-> asked.family, remote |-> Host(Target), localIp |-> asked.localIp,
     localDevice |-> asked.device, protocol |-> protocol, port |-> asked.port,
     localPort |-> asked.localPort, tos |-> asked.tos, mark |-> asked.mark, ttl |-> t,
     size |-> asked.size, bitPattern |-> asked.bitPattern, timeout |-> 10]

\* The keys of a request.
AddressKeys == {"ip-4", "ip-6", "local-ip-4", "local-ip-6"}
OtherKeys == {"protocol", "size", "bit-pattern", "tos", "ttl", "timeout", "port",
              "local-port", "mark", "local-device"}
\* What the parameters p say for each key.
Values(p) ==
    [key \in AddressKeys \cup OtherKeys |->
        CASE key = "ip-4" -> IF p.target # None /\ p.target.family = 4 THEN p.target ELSE None
          [] key = "ip-6" -> IF p.target # None /\ p.target.family # 4 THEN p.target ELSE None
          [] key = "local-ip-4" ->
                IF p.localIp # None /\ p.localIp.family = 4 THEN p.localIp ELSE None
          [] key = "local-ip-6" ->
                IF p.localIp # None /\ p.localIp.family # 4 THEN p.localIp ELSE None
          [] key = "protocol" -> p.protocol
          [] key = "size" -> p.size
          [] key = "bit-pattern" -> p.bitPattern
          [] key = "tos" -> p.tos
          [] key = "ttl" -> p.ttl
          [] key = "timeout" -> p.timeout
          [] key = "port" -> p.port
          [] key = "local-port" -> p.localPort
          [] key = "mark" -> p.mark
          [] key = "local-device" -> p.localDevice]

LEMMA ProbeSays ==
    ASSUME NEW token, NEW p
    PROVE  Said(EncodeProbe(token, p).words, AddressKeys \cup OtherKeys, Values(p))
<1> DEFINE D == Values(p)
           W0 == <<>>
           W1 == W0 \o Keyed("ip-4", "ip-6", p.target)
           W2 == W1 \o Keyed("local-ip-4", "local-ip-6", p.localIp)
           W3 == W2 \o Argument("protocol", D["protocol"])
           W4 == W3 \o Argument("size", D["size"])
           W5 == W4 \o Argument("bit-pattern", D["bit-pattern"])
           W6 == W5 \o Argument("tos", D["tos"])
           W7 == W6 \o Argument("ttl", D["ttl"])
           W8 == W7 \o Argument("timeout", D["timeout"])
           W9 == W8 \o Argument("port", D["port"])
           W10 == W9 \o Argument("local-port", D["local-port"])
           W11 == W10 \o Argument("mark", D["mark"])
           W12 == W11 \o Argument("local-device", D["local-device"])
           K2 == AddressKeys
           K3 == K2 \cup {"protocol"}
           K4 == K3 \cup {"size"}
           K5 == K4 \cup {"bit-pattern"}
           K6 == K5 \cup {"tos"}
           K7 == K6 \cup {"ttl"}
           K8 == K7 \cup {"timeout"}
           K9 == K8 \cup {"port"}
           K10 == K9 \cup {"local-port"}
           K11 == K10 \cup {"mark"}
           K12 == K11 \cup {"local-device"}
<1>1. /\ D["ip-4"] = IF p.target # None /\ p.target.family = 4 THEN p.target ELSE None
      /\ D["ip-6"] = IF p.target # None /\ p.target.family # 4 THEN p.target ELSE None
      /\ D["local-ip-4"] = IF p.localIp # None /\ p.localIp.family = 4 THEN p.localIp ELSE None
      /\ D["local-ip-6"] = IF p.localIp # None /\ p.localIp.family # 4 THEN p.localIp ELSE None
  BY DEF Values, AddressKeys
<1>2. /\ D["protocol"] = p.protocol
      /\ D["size"] = p.size
      /\ D["bit-pattern"] = p.bitPattern
      /\ D["tos"] = p.tos
      /\ D["ttl"] = p.ttl
      /\ D["timeout"] = p.timeout
      /\ D["port"] = p.port
      /\ D["local-port"] = p.localPort
      /\ D["mark"] = p.mark
      /\ D["local-device"] = p.localDevice
  BY DEF Values, OtherKeys
<1>3. EncodeProbe(token, p).words = W12
  <2>1. W1 = Keyed("ip-4", "ip-6", p.target)
    BY DEF Keyed
  <2>. QED BY <1>2, <2>1 DEF EncodeProbe, Line
<1> HIDE DEF D
<1>4. Said(W0, {}, D)
  BY NothingSaid
<1>5. Said(W1, {"ip-4", "ip-6"}, D)
  <2>1. {} \cup {"ip-4", "ip-6"} = {"ip-4", "ip-6"}
    OBVIOUS
  <2>2. Said(W1, {} \cup {"ip-4", "ip-6"}, D)
    <3> HIDE DEF W0
    <3>. QED BY <1>1, <1>4, SayKeyed
  <2>. QED BY <2>1, <2>2
<1>6. Said(W2, K2, D)
  <2>1. {"ip-4", "ip-6"} \cup {"local-ip-4", "local-ip-6"} = AddressKeys
    BY DEF AddressKeys
  <2>2. Said(W2, {"ip-4", "ip-6"} \cup {"local-ip-4", "local-ip-6"}, D)
    <3> HIDE DEF W1
    <3>. QED BY <1>1, <1>5, SayKeyed
  <2>. QED BY <2>1, <2>2
<1>7. Said(W3, K3, D)
  <2>1. "protocol" \notin K2
    BY DEF AddressKeys
  <2>. HIDE DEF W2, K2
  <2>. QED BY <1>6, <2>1, SayArgument
<1>8. Said(W4, K4, D)
  <2>1. "size" \notin K3
    BY DEF AddressKeys
  <2>. HIDE DEF W3, K3
  <2>. QED BY <1>7, <2>1, SayArgument
<1>9. Said(W5, K5, D)
  <2>1. "bit-pattern" \notin K4
    BY DEF AddressKeys
  <2>. HIDE DEF W4, K4
  <2>. QED BY <1>8, <2>1, SayArgument
<1>10. Said(W6, K6, D)
  <2>1. "tos" \notin K5
    BY DEF AddressKeys
  <2>. HIDE DEF W5, K5
  <2>. QED BY <1>9, <2>1, SayArgument
<1>11. Said(W7, K7, D)
  <2>1. "ttl" \notin K6
    BY DEF AddressKeys
  <2>. HIDE DEF W6, K6
  <2>. QED BY <1>10, <2>1, SayArgument
<1>12. Said(W8, K8, D)
  <2>1. "timeout" \notin K7
    BY DEF AddressKeys
  <2>. HIDE DEF W7, K7
  <2>. QED BY <1>11, <2>1, SayArgument
<1>13. Said(W9, K9, D)
  <2>1. "port" \notin K8
    BY DEF AddressKeys
  <2>. HIDE DEF W8, K8
  <2>. QED BY <1>12, <2>1, SayArgument
<1>14. Said(W10, K10, D)
  <2>1. "local-port" \notin K9
    BY DEF AddressKeys
  <2>. HIDE DEF W9, K9
  <2>. QED BY <1>13, <2>1, SayArgument
<1>15. Said(W11, K11, D)
  <2>1. "mark" \notin K10
    BY DEF AddressKeys
  <2>. HIDE DEF W10, K10
  <2>. QED BY <1>14, <2>1, SayArgument
<1>16. Said(W12, K12, D)
  <2>1. "local-device" \notin K11
    BY DEF AddressKeys
  <2>. HIDE DEF W11, K11
  <2>. QED BY <1>15, <2>1, SayArgument
<1>17. K12 = AddressKeys \cup OtherKeys
  BY DEF OtherKeys
<1>. QED BY <1>3, <1>16, <1>17 DEF D

LEMMA DecodeIs ==
    ASSUME asked \in Settings, NEW t \in Nat, NEW protocol \in Protocols
    PROVE  DecodeProbe(EncodeProbe(t, Params(t, protocol))) = Asks(t, protocol)
<1> DEFINE p    == Params(t, protocol)
           line == EncodeProbe(t, p)
           D    == Values(p)
           K    == AddressKeys \cup OtherKeys
<1>1. Said(line.words, K, D)
  BY ProbeSays
<1>2. /\ D["ip-4"] = IF p.target # None /\ p.target.family = 4 THEN p.target ELSE None
      /\ D["ip-6"] = IF p.target # None /\ p.target.family # 4 THEN p.target ELSE None
      /\ D["local-ip-4"] = IF p.localIp # None /\ p.localIp.family = 4 THEN p.localIp ELSE None
      /\ D["local-ip-6"] = IF p.localIp # None /\ p.localIp.family # 4 THEN p.localIp ELSE None
  BY DEF Values, AddressKeys
<1>3. /\ D["protocol"] = p.protocol /\ D["size"] = p.size
      /\ D["bit-pattern"] = p.bitPattern /\ D["tos"] = p.tos
      /\ D["ttl"] = p.ttl /\ D["timeout"] = p.timeout
      /\ D["port"] = p.port /\ D["local-port"] = p.localPort
      /\ D["mark"] = p.mark /\ D["local-device"] = p.localDevice
  BY DEF Values, OtherKeys
<1>4. \A key \in OtherKeys : key \in K
  OBVIOUS
<1>5. "ip-4" \in K /\ "ip-6" \in K /\ "local-ip-4" \in K /\ "local-ip-6" \in K
  BY DEF AddressKeys
<1> HIDE DEF line, D, K
<1>6. LastOf(line, {"ip-4", "ip-6"}) = p.target
  <2> DEFINE keys == {"ip-4", "ip-6"}
  <2>1. keys = {"ip-4", "ip-6"}
    OBVIOUS
  <2> HIDE DEF p, keys
  <2>2. /\ D["ip-4"] = IF p.target # None /\ p.target.family = 4 THEN p.target ELSE None
        /\ D["ip-6"] = IF p.target # None /\ p.target.family # 4 THEN p.target ELSE None
        /\ "ip-4" \in K /\ "ip-6" \in K
    BY <1>2, <1>5
  <2>3. LastOf(line, keys) = p.target
    BY <1>1, <2>1, <2>2, ReadLastEither
  <2>. QED BY <2>3 DEF keys
<1>7. LastOf(line, {"local-ip-4", "local-ip-6"}) = p.localIp
  <2> DEFINE keys == {"local-ip-4", "local-ip-6"}
  <2>1. keys = {"local-ip-4", "local-ip-6"}
    OBVIOUS
  <2> HIDE DEF p, keys
  <2>2. /\ D["local-ip-4"] = IF p.localIp # None /\ p.localIp.family = 4 THEN p.localIp ELSE None
        /\ D["local-ip-6"] = IF p.localIp # None /\ p.localIp.family # 4 THEN p.localIp ELSE None
        /\ "local-ip-4" \in K /\ "local-ip-6" \in K
    BY <1>2, <1>5
  <2>3. LastOf(line, keys) = p.localIp
    BY <1>1, <2>1, <2>2, ReadLastEither
  <2>. QED BY <2>3 DEF keys
<1>8. \A word \in OtherKeys : LastOf(line, {word}) = D[word]
  <2> SUFFICES ASSUME NEW word \in OtherKeys PROVE LastOf(line, {word}) = D[word]
    OBVIOUS
  <2>1. word \in K
    BY <1>4
  <2>. QED BY <1>1, <2>1, ReadLast
<1>9. /\ LastOf(line, {"protocol"}) = p.protocol /\ LastOf(line, {"size"}) = p.size
      /\ LastOf(line, {"bit-pattern"}) = p.bitPattern /\ LastOf(line, {"tos"}) = p.tos
      /\ LastOf(line, {"ttl"}) = p.ttl /\ LastOf(line, {"timeout"}) = p.timeout
      /\ LastOf(line, {"port"}) = p.port /\ LastOf(line, {"local-port"}) = p.localPort
      /\ LastOf(line, {"mark"}) = p.mark /\ LastOf(line, {"local-device"}) = p.localDevice
  <2> HIDE DEF p
  <2>. QED BY <1>3, <1>8 DEF OtherKeys
<1>10. /\ asked.family \in Families /\ asked.size \in Nat /\ asked.tos \in Nat
       /\ asked.mark \in Nat /\ asked.bitPattern # None /\ asked.port \in Nat
       /\ asked.localPort \in Nat
  BY SettingsAssumption
<1>11. /\ None \notin Nat /\ None \notin Protocols /\ Host(Target) # None
  <2>1. Host(Target) \in [family : Families, host : {Target, Router}]
    BY <1>10 DEF Host
  <2>. QED BY <2>1, NoneAssumption
<1>12. /\ p.target = Host(Target) /\ p.localIp = asked.localIp /\ p.protocol = protocol
       /\ p.size = asked.size /\ p.bitPattern = asked.bitPattern /\ p.tos = asked.tos
       /\ p.ttl = t /\ p.timeout = 10 /\ p.localDevice = asked.device
  BY DEF Params
<1>13. OrDefault(p.port, 0) = asked.port
  BY <1>10, <1>11 DEF Params, OrDefault
<1>14. OrDefault(p.localPort, 0) = asked.localPort
  BY <1>10, <1>11 DEF Params, OrDefault
<1>15. OrDefault(p.mark, 0) = asked.mark
  BY <1>10, <1>11 DEF Params, OrDefault
<1> HIDE DEF p
<1>16. /\ OrDefault(p.protocol, "icmp") = protocol /\ OrDefault(p.tos, 0) = asked.tos
       /\ OrDefault(p.ttl, 255) = t /\ OrDefault(p.size, 64) = asked.size
       /\ OrDefault(p.bitPattern, 0) = asked.bitPattern /\ OrDefault(p.timeout, 10) = 10
  BY <1>10, <1>11, <1>12 DEF OrDefault
<1>17. p.target # None /\ p.target.family = asked.family
  BY <1>11, <1>12 DEF Host
<1>18. DecodeProbe(line) = Asks(t, protocol)
  BY <1>6, <1>7, <1>9, <1>12, <1>13, <1>14, <1>15, <1>16, <1>17 DEF DecodeProbe, Asks
<1>. QED BY <1>18 DEF line, p

-----------------------------------------------------------------------------
(* The way of a response *)

\* What a router's labels may be.
Labels == Seq(Label)

\* A list of labels is read back as it was written.
LEMMA FormatIs ==
    ASSUME NEW labels \in Labels, NEW i \in 1..Len(labels)
    PROVE  /\ FormatLabels(labels)[4 * i - 3] = labels[i].label
           /\ FormatLabels(labels)[4 * i - 2] = labels[i].tc
           /\ FormatLabels(labels)[4 * i - 1] = labels[i].s
           /\ FormatLabels(labels)[4 * i] = labels[i].ttl
<1>1. Len(labels) \in Nat
  BY DEF Labels
<1>2. /\ 4 * i - 3 \in 1..(4 * Len(labels)) /\ 4 * i - 2 \in 1..(4 * Len(labels))
      /\ 4 * i - 1 \in 1..(4 * Len(labels)) /\ 4 * i \in 1..(4 * Len(labels))
  BY <1>1
<1>3. /\ (4 * i - 3 + 3) \div 4 = i /\ ((4 * i - 3 - 1) % 4) + 1 = 1
      /\ (4 * i - 2 + 3) \div 4 = i /\ ((4 * i - 2 - 1) % 4) + 1 = 2
      /\ (4 * i - 1 + 3) \div 4 = i /\ ((4 * i - 1 - 1) % 4) + 1 = 3
      /\ (4 * i + 3) \div 4 = i /\ ((4 * i - 1) % 4) + 1 = 4
  OBVIOUS
<1>4. ASSUME NEW k \in 1..(4 * Len(labels)), (k + 3) \div 4 = i
      PROVE  FormatLabels(labels)[k] =
                <<labels[i].label, labels[i].tc, labels[i].s, labels[i].ttl>>[((k - 1) % 4) + 1]
  BY <1>4 DEF FormatLabels
<1>5. FormatLabels(labels)[4 * i - 3] = labels[i].label
  BY <1>2, <1>3, <1>4
<1>6. FormatLabels(labels)[4 * i - 2] = labels[i].tc
  BY <1>2, <1>3, <1>4
<1>7. FormatLabels(labels)[4 * i - 1] = labels[i].s
  BY <1>2, <1>3, <1>4
<1>8. FormatLabels(labels)[4 * i] = labels[i].ttl
  <2> DEFINE k == 4 * i
  <2>1. k \in 1..(4 * Len(labels)) /\ (k + 3) \div 4 = i /\ ((k - 1) % 4) + 1 = 4
    BY <1>2, <1>3
  <2> HIDE DEF k
  <2>2. FormatLabels(labels)[k] = labels[i].ttl
    BY <1>4, <2>1
  <2>. QED BY <2>2 DEF k
<1>. QED BY <1>5, <1>6, <1>7, <1>8

LEMMA FormatType ==
    ASSUME NEW labels \in Labels
    PROVE  FormatLabels(labels) \in Seq(Nat) /\ Len(FormatLabels(labels)) = 4 * Len(labels)
<1>1. Len(labels) \in Nat
  BY DEF Labels
<1>2. ASSUME NEW k \in 1..(4 * Len(labels))
      PROVE  <<labels[(k + 3) \div 4].label, labels[(k + 3) \div 4].tc,
               labels[(k + 3) \div 4].s, labels[(k + 3) \div 4].ttl>>[((k - 1) % 4) + 1] \in Nat
  <2> DEFINE n == (k + 3) \div 4
             m == ((k - 1) % 4) + 1
  <2>1. n \in 1..Len(labels)
    BY <1>1
  <2>2. m \in 1..4
    OBVIOUS
  <2> HIDE DEF n, m
  <2>3. labels[n] \in Label
    BY <2>1 DEF Labels
  <2>4. /\ labels[n].label \in Nat /\ labels[n].tc \in Nat
        /\ labels[n].s \in Nat /\ labels[n].ttl \in Nat
    BY <2>3 DEF Label
  <2>5. m = 1 \/ m = 2 \/ m = 3 \/ m = 4
    BY <2>2
  <2>6. <<labels[n].label, labels[n].tc, labels[n].s, labels[n].ttl>>[m] \in Nat
    BY <2>4, <2>5
  <2>. QED BY <2>6 DEF n, m
<1>3. FormatLabels(labels) \in [1..(4 * Len(labels)) -> Nat]
  BY <1>2 DEF FormatLabels
<1>. QED BY <1>1, <1>3

LEMMA LabelsRead ==
    ASSUME NEW labels \in Labels, Len(labels) <= MaxLabels
    PROVE  ParseLabels(FormatLabels(labels)) = labels
<1> DEFINE F == FormatLabels(labels)
<1>1. Len(labels) \in Nat /\ MaxLabels \in Nat
  BY WireAssumption DEF Labels
<1>2. Len(F) \div 4 = Len(labels)
  BY <1>1, FormatType
<1>3. ASSUME NEW i \in 1..Len(labels)
      PROVE  [label |-> F[4 * i - 3], tc |-> F[4 * i - 2], s |-> F[4 * i - 1],
              ttl |-> F[4 * i]] = labels[i]
  <2>1. labels[i] \in Label
    BY DEF Labels
  <2>2. /\ F[4 * i - 3] = labels[i].label /\ F[4 * i - 2] = labels[i].tc
        /\ F[4 * i - 1] = labels[i].s /\ F[4 * i] = labels[i].ttl
    BY FormatIs
  <2> DEFINE l == labels[i]
  <2>3. l = [label |-> l.label, tc |-> l.tc, s |-> l.s, ttl |-> l.ttl]
    BY <2>1 DEF Label
  <2> HIDE DEF F, l
  <2>. QED BY <2>2, <2>3 DEF l
<1> HIDE DEF F
<1>4. ParseLabels(F) = [i \in 1..Len(labels) |->
                          [label |-> F[4 * i - 3], tc |-> F[4 * i - 2],
                           s |-> F[4 * i - 1], ttl |-> F[4 * i]]]
  BY <1>1, <1>2 DEF ParseLabels
<1>5. ParseLabels(F) = [i \in 1..Len(labels) |-> labels[i]]
  BY <1>3, <1>4
<1>6. labels = [i \in 1..Len(labels) |-> labels[i]]
  BY DEF Labels
<1>. QED BY <1>5, <1>6 DEF F

\* The keys of a result.
TargetKeys == {"ip-4", "ip-6"}
ResultKeys == TargetKeys \cup {"round-trip-time", "mpls"}
\* What a result with this address and these labels says for each key.
ResultValues(addr, labels) ==
    [key \in ResultKeys |->
        CASE key = "ip-4" -> IF addr # None /\ addr.family = 4 THEN addr ELSE None
          [] key = "ip-6" -> IF addr # None /\ addr.family # 4 THEN addr ELSE None
          [] key = "round-trip-time" -> "rtt"
          [] key = "mpls" -> IF labels = <<>> THEN None ELSE FormatLabels(labels)]

LEMMA ResultSays ==
    ASSUME NEW token, NEW kind, NEW addr, addr # None, NEW labels \in Labels
    PROVE  LET line == EncodeResponse(Response(token, kind, addr, labels, None))
           IN  /\ line.token = token /\ line.name = kind
               /\ Said(line.words, ResultKeys, ResultValues(addr, labels))
               /\ Len(line.words) <= 6
<1> DEFINE line == EncodeResponse(Response(token, kind, addr, labels, None))
           F    == FormatLabels(labels)
           D    == ResultValues(addr, labels)
           X    == Keyed("ip-4", "ip-6", addr)
           W0   == <<>>
           W1   == W0 \o X
           W2   == W1 \o Argument("round-trip-time", D["round-trip-time"])
           Y    == Argument("mpls", D["mpls"])
           W3   == W2 \o Y
<1>1. /\ D["ip-4"] = IF addr # None /\ addr.family = 4 THEN addr ELSE None
      /\ D["ip-6"] = IF addr # None /\ addr.family # 4 THEN addr ELSE None
      /\ D["round-trip-time"] = "rtt"
      /\ D["mpls"] = IF labels = <<>> THEN None ELSE F
  BY DEF ResultValues, ResultKeys, TargetKeys
<1>2. None # "rtt" /\ None \notin Seq(Nat)
  BY NoneAssumption
<1>3. F \in Seq(Nat) /\ F # None
  BY <1>2, FormatType
<1> HIDE DEF D, F
<1>4. X = W1
  BY DEF Keyed
<1>5. Argument("round-trip-time", D["round-trip-time"]) = <<"round-trip-time", "rtt">>
  BY <1>1, <1>2 DEF Argument
<1>6. Y = IF labels = <<>> THEN <<>> ELSE <<"mpls", F>>
  BY <1>1, <1>3 DEF Argument
<1>7. line.words = W3 /\ line.token = token /\ line.name = kind
  BY <1>4, <1>5, <1>6 DEF EncodeResponse, Line, Response, F
<1>8. Said(W1, TargetKeys, D)
  <2>1. {} \cup {"ip-4", "ip-6"} = TargetKeys
    BY DEF TargetKeys
  <2>2. Said(W0, {}, D)
    BY NothingSaid
  <2>3. Said(W1, {} \cup {"ip-4", "ip-6"}, D)
    <3> HIDE DEF W0
    <3>. QED BY <1>1, <2>2, SayKeyed
  <2>. QED BY <2>1, <2>3
<1>9. Said(W2, TargetKeys \cup {"round-trip-time"}, D)
  <2>1. "round-trip-time" \notin TargetKeys
    BY DEF TargetKeys
  <2> HIDE DEF W1
  <2>. QED BY <1>8, <2>1, SayArgument
<1>10. Said(W3, ResultKeys, D)
  <2>1. (TargetKeys \cup {"round-trip-time"}) \cup {"mpls"} = ResultKeys
    BY DEF ResultKeys
  <2>2. "mpls" \notin TargetKeys \cup {"round-trip-time"}
    BY DEF TargetKeys
  <2> HIDE DEF W2
  <2>3. Said(W3, (TargetKeys \cup {"round-trip-time"}) \cup {"mpls"}, D)
    BY <1>9, <2>2, SayArgument
  <2>. QED BY <2>1, <2>3
<1>11. Len(W3) <= 6
  <2> DEFINE S == {"ip-4", "ip-6", "round-trip-time", "rtt", addr, "mpls", F}
             P == <<"round-trip-time", "rtt">>
  <2>1. X \in Seq(S) /\ Len(X) <= 2
    BY DEF Keyed
  <2>2. P \in Seq(S) /\ Len(P) = 2
    OBVIOUS
  <2>3. Y \in Seq(S) /\ Len(Y) <= 2
    <3>1. <<"mpls", F>> \in Seq(S) /\ Len(<<"mpls", F>>) = 2
      OBVIOUS
    <3>2. <<>> \in Seq(S) /\ Len(<<>>) = 0
      OBVIOUS
    <3> HIDE DEF S, Y
    <3>. QED BY <1>6, <3>1, <3>2
  <2>4. W3 = (X \o P) \o Y
    BY <1>4, <1>5
  <2> HIDE DEF X, P, Y, S, W3
  <2>5. X \o P \in Seq(S)
    BY <2>1, <2>2
  <2>6. Len(X \o P) = Len(X) + Len(P)
    <3>1. X \in Seq(S)
      BY <2>1
    <3>2. P \in Seq(S)
      BY <2>2
    <3>. QED BY <3>1, <3>2
  <2>7. Len(W3) = Len(X \o P) + Len(Y)
    BY <2>3, <2>4, <2>5
  <2>8. Len(X) \in Nat /\ Len(Y) \in Nat
    BY <2>1, <2>3
  <2>. QED BY <2>1, <2>2, <2>3, <2>6, <2>7, <2>8
<1>. QED BY <1>7, <1>10, <1>11 DEF line, D

\* A result comes back as it was sent, with its address and its labels.
LEMMA ResultReads ==
    ASSUME NEW token, NEW kind \in ResultNames, NEW addr, addr # None,
           NEW labels \in Labels, Len(labels) <= MaxLabels
    PROVE  LET r == Response(token, kind, addr, labels, None)
           IN  ParseResponse(EncodeResponse(r)) = r
<1> DEFINE r     == Response(token, kind, addr, labels, None)
           line  == EncodeResponse(r)
           F     == FormatLabels(labels)
           D     == ResultValues(addr, labels)
<1>1. /\ line.token = token /\ line.name = kind
      /\ Said(line.words, ResultKeys, D) /\ Len(line.words) <= 6
  BY ResultSays
<1>2. /\ D["ip-4"] = IF addr # None /\ addr.family = 4 THEN addr ELSE None
      /\ D["ip-6"] = IF addr # None /\ addr.family # 4 THEN addr ELSE None
      /\ D["round-trip-time"] = "rtt"
      /\ D["mpls"] = IF labels = <<>> THEN None ELSE F
  BY DEF ResultValues, ResultKeys, TargetKeys
<1>3. None # "rtt" /\ F # None
  BY FormatType, NoneAssumption
<1> HIDE DEF line, D, F
<1>4. Tokenizes(line)
  <2>1. PICK n \in Nat : Len(line.words) = 2 * n
    BY <1>1 DEF Said
  <2>2. MaxArguments \in Nat /\ MaxArguments >= 3
    BY WireAssumption, ProbePathAssumption
  <2>3. Len(line.words) % 2 = 0
    BY <2>1
  <2>4. Len(line.words) <= 2 * MaxArguments
    BY <1>1, <2>1, <2>2
  <2>. QED BY <2>3, <2>4 DEF Tokenizes
<1>5. /\ "ip-4" \in ResultKeys /\ "ip-6" \in ResultKeys
      /\ "round-trip-time" \in ResultKeys /\ "mpls" \in ResultKeys
  BY DEF ResultKeys, TargetKeys
<1>a. \A key \in ResultKeys : FirstOf(line, key) = D[key]
  BY <1>1, ReadFirst
<1>6. OrDefault(FirstOf(line, "ip-4"), FirstOf(line, "ip-6")) = addr
  <2>1. FirstOf(line, "ip-4") = D["ip-4"] /\ FirstOf(line, "ip-6") = D["ip-6"]
    BY <1>5, <1>a
  <2>. QED BY <1>2, <2>1 DEF OrDefault
<1>7. FirstOf(line, "round-trip-time") = "rtt"
  BY <1>2, <1>5, <1>a
<1>8. FirstOf(line, "mpls") = IF labels = <<>> THEN None ELSE F
  BY <1>2, <1>5, <1>a
<1>9. ParseLabels(OrDefault(FirstOf(line, "mpls"), <<>>)) = labels
  <2>1. OrDefault(FirstOf(line, "mpls"), <<>>) = F
    <3>1. CASE labels = <<>>
      <4>1. F \in Seq(Nat) /\ Len(F) = 0
        BY <3>1, FormatType DEF F
      <4>. QED BY <1>8, <3>1, <4>1 DEF OrDefault
    <3>2. CASE labels # <<>>
      BY <1>3, <1>8, <3>2 DEF OrDefault
    <3>. QED BY <3>1, <3>2
  <2>. QED BY <2>1, LabelsRead DEF F
<1>10. ParseResponse(line) = Response(line.token, line.name, addr, labels, None)
  <2>1. /\ Tokenizes(line) /\ line.name \in ResultNames
        /\ FirstOf(line, "round-trip-time") # None
    BY <1>1, <1>3, <1>4, <1>7
  <2> DEFINE at   == OrDefault(FirstOf(line, "ip-4"), FirstOf(line, "ip-6"))
             mpls == OrDefault(FirstOf(line, "mpls"), <<>>)
  <2>2. ParseResponse(line) = Response(line.token, line.name, at, ParseLabels(mpls), None)
    <3>1. at # None
      BY <1>6
    <3>2. line.name \notin PlainNames /\ line.name \notin DetailedNames
      BY <2>1 DEF ResultNames, PlainNames, ErrorNames, DetailedNames
    <3>. QED BY <2>1, <3>1, <3>2 DEF ParseResponse
  <2>. QED BY <1>6, <1>9, <2>2
<1>11. ParseResponse(line) = r
  BY <1>1, <1>10
<1>. QED BY <1>11 DEF line, r

\* A response without an address and without a word comes back as it was sent.
LEMMA BareReads ==
    ASSUME NEW token, NEW kind \in PlainNames \cup {"no-route-host"}, NEW r,
           r.token = token, r.kind = kind, r.addr = None, r.detail = None
    PROVE  ParseResponse(EncodeResponse(r)) = Bare(token, kind)
<1> DEFINE line == EncodeResponse(r)
<1>1. line.token = token /\ line.name = kind /\ line.words = <<>>
  BY DEF EncodeResponse, Line, Argument
<1> HIDE DEF line
<1>2. \A key : Occurrences(line, key) = {}
  BY <1>1 DEF Occurrences
<1>3. \A key : FirstOf(line, key) = None
  BY <1>2 DEF FirstOf
<1>4. Tokenizes(line)
  BY <1>1, WireAssumption DEF Tokenizes
<1>5. OrDefault(FirstOf(line, "ip-4"), FirstOf(line, "ip-6")) = None
  BY <1>3 DEF OrDefault
<1>6. CASE kind = "no-route-host"
  <2>1. line.name = "no-route-host" /\ line.name \notin PlainNames /\ line.name \notin DetailedNames
    BY <1>1, <1>6 DEF PlainNames, ErrorNames, DetailedNames
  <2>2. ParseResponse(line) = Bare(line.token, line.name)
    BY <1>4, <1>5, <2>1 DEF ParseResponse
  <2>. QED BY <1>1, <2>2 DEF line
<1>7. CASE kind \in PlainNames
  <2>1. /\ line.name \in PlainNames /\ line.name \notin DetailedNames
        /\ line.name \notin ResultNames /\ line.name # "no-route-host"
    BY <1>1, <1>7 DEF PlainNames, ErrorNames, DetailedNames, ResultNames
  <2>2. ParseResponse(line) = Bare(line.token, line.name)
    BY <1>4, <2>1 DEF ParseResponse
  <2>. QED BY <1>1, <2>2 DEF line
<1>. QED BY <1>6, <1>7

\* What comes with a word keeps its kind.
LEMMA DetailReads ==
    ASSUME NEW r, r.addr = None, r.kind \in DetailedNames,
           r.kind = "feature-support" => r.detail # None
    PROVE  /\ ParseResponse(EncodeResponse(r)).kind = r.kind
           /\ ParseResponse(EncodeResponse(r)).detail = r.detail
<1> DEFINE line == EncodeResponse(r)
           key  == DetailKey(r.kind)
<1>1. /\ line.token = r.token /\ line.name = r.kind
      /\ line.words = IF r.detail = None THEN <<>> ELSE <<key, r.detail>>
  BY DEF EncodeResponse, Line, Argument
<1> HIDE DEF line
<1>2. FirstOf(line, key) = r.detail
  <2>1. CASE r.detail = None
    <3>1. Occurrences(line, key) = {}
      BY <1>1, <2>1 DEF Occurrences
    <3>. QED BY <2>1, <3>1 DEF FirstOf
  <2>2. CASE r.detail # None
    <3> DEFINE w == <<key, r.detail>>
    <3>1. line.words = w /\ Len(w) \div 2 = 1 /\ w[2 * 1 - 1] = key /\ w[2 * 1] = r.detail
      BY <1>1, <2>2
    <3> HIDE DEF w, key
    <3>2. Occurrences(line, key) = {1}
      <4>1. Occurrences(line, key) = {i \in 1..1 : w[2 * i - 1] = key}
        BY <3>1 DEF Occurrences
      <4>2. \A i \in 1..1 : i = 1
        OBVIOUS
      <4>3. 1 \in 1..1
        OBVIOUS
      <4>. QED BY <3>1, <4>1, <4>2, <4>3
    <3>3. (CHOOSE a \in {1} : \A j \in {1} : a <= j) = 1
      OBVIOUS
    <3>. QED BY <3>1, <3>2, <3>3 DEF FirstOf, ValueAt
  <2>. QED BY <2>1, <2>2
<1>3. Tokenizes(line)
  <2>1. MaxArguments \in Nat /\ MaxArguments >= 3
    BY WireAssumption, ProbePathAssumption
  <2>2. Len(line.words) = 0 \/ Len(line.words) = 2
    BY <1>1
  <2>3. 0 % 2 = 0 /\ 2 % 2 = 0
    OBVIOUS
  <2>4. 0 <= 2 * MaxArguments /\ 2 <= 2 * MaxArguments
    BY <2>1
  <2>. QED BY <2>2, <2>3, <2>4 DEF Tokenizes
<1>4. /\ line.name \in DetailedNames /\ line.name \notin PlainNames
      /\ line.name \notin ResultNames /\ line.name # "no-route-host"
  BY <1>1 DEF PlainNames, ErrorNames, DetailedNames, ResultNames
<1>5. line.name = "feature-support" => FirstOf(line, "support") # None
  <2>1. line.name = "feature-support" => key = "support"
    BY <1>1 DEF DetailKey
  <2> HIDE DEF key
  <2>. QED BY <1>1, <1>2, <2>1
<1>6. ParseResponse(line) = Response(line.token, line.name, None, <<>>,
                                     FirstOf(line, DetailKey(line.name)))
  BY <1>3, <1>4, <1>5 DEF ParseResponse
<1>. QED BY <1>1, <1>2, <1>6 DEF Response, line

\* The client reads the kind of every failure; it is a missing privilege only
\* if the errno says so.
LEMMA ErrorReads ==
    ASSUME NEW token, NEW errno, errno # "EPERM"
    PROVE  ParseResponse(EncodeResponse(ErrorResponse(token, errno))).kind
              # "permission-denied"
<1> DEFINE r == ErrorResponse(token, errno)
<1>1. /\ r.token = token /\ r.kind = ErrorKind(errno) /\ r.addr = None
      /\ r.detail = IF ErrorKind(errno) = "unexpected-error" THEN errno ELSE None
  BY DEF ErrorResponse, Response
<1>2. ErrorKind(errno) \in (ErrorNames \ {"permission-denied"})
         \cup {"no-route-host", "invalid-argument", "unexpected-error"}
  BY DEF ErrorKind, ErrorNames
<1> HIDE DEF r
<1>3. CASE r.kind \in ErrorNames \cup {"no-route-host"}
  <2>1. r.detail = None /\ r.kind \in PlainNames \cup {"no-route-host"}
    BY <1>1, <1>3 DEF PlainNames, ErrorNames
  <2>2. ParseResponse(EncodeResponse(r)) = Bare(token, r.kind)
    BY <1>1, <2>1, BareReads
  <2>3. r.kind # "permission-denied"
    BY <1>1, <1>2
  <2>. QED BY <2>2, <2>3 DEF Bare, Response, r
<1>4. CASE r.kind \in {"invalid-argument", "unexpected-error"}
  <2>1. r.kind \in DetailedNames /\ r.kind # "feature-support"
    BY <1>4 DEF DetailedNames
  <2>2. ParseResponse(EncodeResponse(r)).kind = r.kind
    BY <1>1, <2>1, DetailReads
  <2>. QED BY <1>4, <2>2 DEF r
<1>. QED BY <1>1, <1>2, <1>3, <1>4

\* The helper is asked for a mark only where it can set one.
LEMMA MarkAgreed ==
    ASSUME NEW opened, NEW kept, NEW hasSctp, Agreed("mark", opened, kept, hasSctp)
    PROVE  "admin" \in kept
<1> DEFINE line == EncodeCheckSupport(1, "mark")
           word == IF Supports(FirstOf(line, "feature"), opened, kept, hasSctp)
                   THEN "ok" ELSE "no"
           r    == Response(line.token, "feature-support", None, <<>>, word)
<1>1. line.words = <<"feature", "mark">>
  BY DEF EncodeCheckSupport, Line
<1>2. FirstOf(line, "feature") = "mark"
  <2> DEFINE w == <<"feature", "mark">>
  <2>1. line.words = w /\ Len(w) \div 2 = 1 /\ w[2 * 1 - 1] = "feature" /\ w[2 * 1] = "mark"
    BY <1>1
  <2> HIDE DEF w, line
  <2>2. Occurrences(line, "feature") = {1}
    <3>1. Occurrences(line, "feature") = {i \in 1..1 : w[2 * i - 1] = "feature"}
      BY <2>1 DEF Occurrences
    <3>2. \A i \in 1..1 : i = 1
      OBVIOUS
    <3>3. 1 \in 1..1
      OBVIOUS
    <3>. QED BY <2>1, <3>1, <3>2, <3>3
  <2>3. (CHOOSE a \in {1} : \A j \in {1} : a <= j) = 1
    OBVIOUS
  <2>. QED BY <2>1, <2>2, <2>3 DEF FirstOf, ValueAt
<1>3. Supports("mark", opened, kept, hasSctp) = MarkSupported(kept)
  BY DEF Supports
<1>4. ParseResponse(EncodeResponse(r)).detail = "ok"
  BY DEF Agreed
<1>5. r.addr = None /\ r.kind = "feature-support" /\ r.detail = word
  BY DEF Response
<1>6. None \notin {"ok", "no"}
  BY NoneAssumption
<1> HIDE DEF r, line
<1>7. word # None
  BY <1>6
<1>8. r.kind \in DetailedNames
  BY <1>5 DEF DetailedNames
<1>9. ParseResponse(EncodeResponse(r)).detail = r.detail
  BY <1>5, <1>7, <1>8, DetailReads
<1>. QED BY <1>2, <1>3, <1>4, <1>5, <1>9 DEF MarkSupported

-----------------------------------------------------------------------------
(* Probes and the datagrams that quote them *)

\* A probe is known by its token, its protocol and its sequence number; the
\* session and the helper's sockets say the rest.
Trails == [token : Tokens, protocol : Protocols, seq : Ports]
\* Its entry in the table, its headers with checksum sum, and where it comes from.
EntryOf(x) == Entry(x.token, Asks(x.token, x.protocol), x.seq)
HeaderOf(x, sum) == Header(EntryOf(x), Asks(x.token, x.protocol), sum)
Source == IF asked.localIp = None THEN Me ELSE asked.localIp.host

\* h quotes the datagram of x, whatever its addresses are now.
Quotes(h, x) ==
    \E sum : LET own == HeaderOf(x, sum) IN
        /\ h.protocol = own.protocol /\ h.id = own.id /\ h.seq = own.seq
        /\ h.srcPort = own.srcPort /\ h.dstPort = own.dstPort /\ h.sum = own.sum

\* No two probes of the log share a token or a number.
Separate(log) ==
    \A x, y \in log : x.token = y.token \/ x.seq = y.seq => x = y
\* The entries that a table may hold.
Entries(log) == {EntryOf(x) : x \in log}

LEMMA EntryIs ==
    ASSUME NEW x
    PROVE  /\ EntryOf(x).token = x.token /\ EntryOf(x).seq = x.seq
           /\ EntryOf(x).protocol = x.protocol
           /\ EntryOf(x).remote.host = Target /\ EntryOf(x).local.host = Source
<1>1. Asks(x.token, x.protocol).localIp = asked.localIp
  BY DEF Asks
<1>2. Asks(x.token, x.protocol).remote.host = Target
  BY DEF Asks, Host
<1>3. Asks(x.token, x.protocol).protocol = x.protocol
  BY DEF Asks
<1>. QED BY <1>1, <1>2, <1>3 DEF EntryOf, Entry, LocalHost, Source

LEMMA UdpPortsAre ==
    ASSUME asked \in Settings, NEW x
    PROVE  LET ports == UdpPorts(Asks(x.token, x.protocol), x.seq)
           IN  /\ asked.port # 0 /\ asked.localPort # 0 =>
                     ports = [src |-> asked.localPort, dst |-> asked.port, fixed |-> TRUE]
               /\ asked.port # 0 /\ asked.localPort = 0 =>
                     ports = [src |-> x.seq, dst |-> asked.port, fixed |-> FALSE]
               /\ asked.port = 0 =>
                     ports = [src |-> IF asked.localPort # 0 THEN asked.localPort ELSE PidPort,
                              dst |-> x.seq, fixed |-> FALSE]
<1>1. /\ Asks(x.token, x.protocol).port = asked.port
      /\ Asks(x.token, x.protocol).localPort = asked.localPort
  BY DEF Asks
<1>. QED BY <1>1 DEF UdpPorts

LEMMA UdpEntryIs ==
    ASSUME asked \in Settings, NEW x, x.protocol = "udp", NEW sum
    PROVE  LET e == EntryOf(x)
               h == HeaderOf(x, sum)
           IN  /\ asked.port # 0 /\ asked.localPort # 0 =>
                     /\ e.local.port = asked.localPort /\ e.remote.port = asked.port
                     /\ h.sum = x.seq
               /\ asked.port # 0 /\ asked.localPort = 0 =>
                     e.local.port = x.seq /\ e.remote.port = asked.port
               /\ asked.port = 0 =>
                     /\ e.local.port = IF asked.localPort # 0 THEN asked.localPort ELSE PidPort
                     /\ e.remote.port = x.seq
               /\ h.srcPort = e.local.port /\ h.dstPort = e.remote.port
<1> DEFINE p     == Asks(x.token, x.protocol)
           ports == UdpPorts(p, x.seq)
           e     == EntryOf(x)
           h     == HeaderOf(x, sum)
<1>1. p.protocol = "udp"
  BY DEF Asks
<1>2. e.protocol = "udp" /\ e.seq = x.seq
  BY EntryIs
<1>3. e.local.port = ports.src /\ e.remote.port = ports.dst
  BY <1>1 DEF EntryOf, Entry
<1>4. h.srcPort = e.local.port /\ h.dstPort = e.remote.port
  BY <1>2 DEF HeaderOf, Header
<1>5. ports.fixed = TRUE => h.sum = x.seq
  BY <1>2 DEF HeaderOf, Header
<1> HIDE DEF p, ports, e, h
<1>6. /\ asked.port # 0 /\ asked.localPort # 0 =>
            ports = [src |-> asked.localPort, dst |-> asked.port, fixed |-> TRUE]
      /\ asked.port # 0 /\ asked.localPort = 0 =>
            ports = [src |-> x.seq, dst |-> asked.port, fixed |-> FALSE]
      /\ asked.port = 0 =>
            ports = [src |-> IF asked.localPort # 0 THEN asked.localPort ELSE PidPort,
                     dst |-> x.seq, fixed |-> FALSE]
  BY UdpPortsAre DEF ports, p
<1>. QED BY <1>3, <1>4, <1>5, <1>6 DEF e, h

LEMMA HeaderIs ==
    ASSUME NEW x \in Trails, NEW sum
    PROVE  LET h == HeaderOf(x, sum)
           IN  /\ h.protocol = x.protocol /\ h.src = Source /\ h.dst = Target
               /\ x.protocol = "icmp" => h.id = IcmpId /\ h.seq = x.seq
               /\ x.protocol \notin {"icmp", "udp"} => h.srcPort = x.seq
<1> DEFINE e == EntryOf(x)
<1>1. /\ e.protocol = x.protocol /\ e.seq = x.seq
      /\ e.remote.host = Target /\ e.local.host = Source
  BY EntryIs
<1>2. x.protocol \notin {"icmp", "udp"} => e.local.port = x.seq
  BY DEF EntryOf, Entry, Asks
<1> HIDE DEF e
<1>3. HeaderOf(x, sum) = Header(e, Asks(x.token, x.protocol), sum)
  BY DEF HeaderOf, e
<1>. QED BY <1>1, <1>2, <1>3 DEF Header

LEMMA SamePorts ==
    ASSUME asked \in Settings, NEW x \in Trails, NEW y, x.protocol = "udp",
           y.protocol = "udp", NEW h, Quotes(h, x),
           h.dstPort = EntryOf(y).remote.port, h.srcPort = EntryOf(y).local.port
    PROVE  \/ x.seq = y.seq
           \/ /\ asked.port # 0 /\ asked.localPort # 0
              /\ h.dstPort = asked.port /\ h.srcPort = asked.localPort /\ h.sum = x.seq
<1>1. PICK sum : LET own == HeaderOf(x, sum) IN
         /\ h.protocol = own.protocol /\ h.id = own.id /\ h.seq = own.seq
         /\ h.srcPort = own.srcPort /\ h.dstPort = own.dstPort /\ h.sum = own.sum
  BY DEF Quotes
<1>2. asked.port \in Nat /\ asked.localPort \in Nat
  BY SettingsAssumption
<1>3. /\ asked.port # 0 /\ asked.localPort # 0 =>
            /\ EntryOf(x).local.port = asked.localPort /\ EntryOf(x).remote.port = asked.port
            /\ h.sum = x.seq
      /\ asked.port # 0 /\ asked.localPort = 0 => EntryOf(x).local.port = x.seq
      /\ asked.port = 0 => EntryOf(x).remote.port = x.seq
      /\ h.srcPort = EntryOf(x).local.port /\ h.dstPort = EntryOf(x).remote.port
  BY <1>1, UdpEntryIs
<1>4. /\ asked.port # 0 /\ asked.localPort = 0 => EntryOf(y).local.port = y.seq
      /\ asked.port = 0 => EntryOf(y).remote.port = y.seq
  BY UdpEntryIs
<1>. QED BY <1>2, <1>3, <1>4

-----------------------------------------------------------------------------
(* Finding the probe *)

\* What a number finds is an entry of the table, and this a probe of the log.
LEMMA TableHolds ==
    ASSUME NEW log, table \in Seq(Entries(log)), NEW i \in DOMAIN table
    PROVE  \E y \in log : table[i] = EntryOf(y)
<1>1. table[i] \in Entries(log)
  OBVIOUS
<1>. QED BY <1>1 DEF Entries

LEMMA DecidingIs ==
    ASSUME NEW h, NEW i \in Deciding(h)
    PROVE  /\ i \in DOMAIN table
           /\ \/ table[i].seq = h.dstPort
              \/ table[i].seq = h.srcPort
              \/ table[i].seq = h.sum
BY DEF Deciding, FindBySequence

\* A quote of a probe's datagram finds that probe or, with both ports fixed, the
\* one whose number is among them.
LEMMA MatchSound ==
    ASSUME asked \in Settings, NEW log, log \subseteq Trails, Separate(log),
           table \in Seq(Entries(log)), NEW x \in log, NEW h, Quotes(h, x),
           NEW addressed, NEW i \in Matches(h, addressed)
    PROVE  /\ i \in DOMAIN table
           /\ \/ table[i].token = x.token
              \/ /\ asked.port # 0 /\ asked.localPort # 0
                 /\ table[i].seq \in {asked.port, asked.localPort}
<1>1. PICK sum : LET own == HeaderOf(x, sum) IN
         /\ h.protocol = own.protocol /\ h.id = own.id /\ h.seq = own.seq
         /\ h.srcPort = own.srcPort /\ h.dstPort = own.dstPort /\ h.sum = own.sum
  BY DEF Quotes
<1>2. x \in Trails
  OBVIOUS
<1>3. /\ h.protocol = x.protocol
      /\ x.protocol = "icmp" => h.seq = x.seq
      /\ x.protocol \notin {"icmp", "udp"} => h.srcPort = x.seq
  BY <1>1, <1>2, HeaderIs
<1>4. i \in DOMAIN table
  BY DecidingIs DEF Matches, FindBySequence, MatchUdp
<1>5. PICK y \in log : table[i] = EntryOf(y)
  BY <1>4, TableHolds
<1>6. table[i].token = y.token /\ table[i].seq = y.seq /\ table[i].protocol = y.protocol
  BY <1>5, EntryIs
<1>7. ASSUME y.seq = x.seq
      PROVE  table[i].token = x.token
  BY <1>6, <1>7 DEF Separate
<1>8. CASE x.protocol = "icmp"
  <2>1. table[i].seq = x.seq
    BY <1>3, <1>8 DEF Matches, FindBySequence
  <2>. QED BY <1>4, <1>6, <1>7, <2>1
<1>9. CASE x.protocol \notin {"icmp", "udp"}
  <2>1. table[i].seq = x.seq
    BY <1>3, <1>9 DEF Matches, FindBySequence
  <2>. QED BY <1>4, <1>6, <1>7, <2>1
<1>10. CASE x.protocol = "udp"
  <2>1. i \in MatchUdp(h, addressed)
    BY <1>3, <1>10 DEF Matches
  <2>2. /\ i \in Deciding(h) /\ table[i].protocol = "udp"
        /\ h.dstPort = table[i].remote.port /\ h.srcPort = table[i].local.port
    BY <2>1 DEF MatchUdp
  <2>3. \/ x.seq = y.seq
        \/ /\ asked.port # 0 /\ asked.localPort # 0
           /\ h.dstPort = asked.port /\ h.srcPort = asked.localPort /\ h.sum = x.seq
    <3>1. /\ y.protocol = "udp" /\ h.dstPort = EntryOf(y).remote.port
          /\ h.srcPort = EntryOf(y).local.port
      BY <1>5, <1>6, <2>2
    <3>. QED BY <1>2, <1>10, <3>1, SamePorts
  <2>4. table[i].seq = h.dstPort \/ table[i].seq = h.srcPort \/ table[i].seq = h.sum
    BY <2>2, DecidingIs
  <2>. QED BY <1>4, <1>6, <1>7, <2>3, <2>4
<1>. QED BY <1>8, <1>9, <1>10

\* A quote with the probe's own addresses finds the probe, unless a fixed port
\* shadows it.
LEMMA MatchComplete ==
    ASSUME asked \in Settings, NEW log, log \subseteq Trails, Separate(log),
           table \in Seq(Entries(log)), NEW x \in log, NEW h, Quotes(h, x),
           h.src = Source, h.dst = Target, NEW addressed,
           NEW i \in DOMAIN table, table[i].token = x.token, ~Shadowed(x.token)
    PROVE  Matches(h, addressed) # {}
<1>1. PICK sum : LET own == HeaderOf(x, sum) IN
         /\ h.protocol = own.protocol /\ h.id = own.id /\ h.seq = own.seq
         /\ h.srcPort = own.srcPort /\ h.dstPort = own.dstPort /\ h.sum = own.sum
  BY DEF Quotes
<1>2. x \in Trails
  OBVIOUS
<1>3. /\ h.protocol = x.protocol
      /\ x.protocol = "icmp" => h.id = IcmpId /\ h.seq = x.seq
      /\ x.protocol \notin {"icmp", "udp"} => h.srcPort = x.seq
  BY <1>1, <1>2, HeaderIs
<1>4. ASSUME NEW j \in DOMAIN table, table[j].token = x.token
      PROVE  table[j] = EntryOf(x)
  <2>1. PICK y \in log : table[j] = EntryOf(y)
    BY TableHolds
  <2>2. y.token = x.token
    BY <1>4, <2>1, EntryIs
  <2>. QED BY <2>1, <2>2 DEF Separate
<1>5. table[i] = EntryOf(x)
  BY <1>4
<1>6. /\ table[i].seq = x.seq /\ table[i].protocol = x.protocol
      /\ table[i].remote.host = Target /\ table[i].local.host = Source
  BY <1>5, EntryIs
<1>7. i \in FindBySequence(x.seq)
  BY <1>6 DEF FindBySequence
<1>8. CASE x.protocol = "icmp"
  BY <1>3, <1>7, <1>8 DEF Matches
<1>9. CASE x.protocol \notin {"icmp", "udp"}
  BY <1>3, <1>7, <1>9 DEF Matches
<1>10. CASE x.protocol = "udp"
  <2>1. /\ asked.port # 0 /\ asked.localPort # 0 =>
              /\ EntryOf(x).local.port = asked.localPort
              /\ EntryOf(x).remote.port = asked.port
              /\ h.sum = x.seq
        /\ asked.port # 0 /\ asked.localPort = 0 =>
              EntryOf(x).local.port = x.seq /\ EntryOf(x).remote.port = asked.port
        /\ asked.port = 0 => EntryOf(x).remote.port = x.seq
        /\ h.srcPort = EntryOf(x).local.port /\ h.dstPort = EntryOf(x).remote.port
    BY <1>1, <1>10, UdpEntryIs
  <2>2. ASSUME asked.port # 0, NEW n, n = asked.port \/ n = asked.localPort,
               NEW j \in FindBySequence(n)
        PROVE  FindBySequence(n) = FindBySequence(x.seq)
    <3>1. j \in DOMAIN table /\ table[j].seq = n
      BY DEF FindBySequence
    <3>2. table[j].token = x.token
      BY <2>2, <3>1 DEF Shadowed
    <3>3. table[j] = EntryOf(x)
      BY <1>4, <3>1, <3>2
    <3>. QED BY <3>1, <3>3, EntryIs
  <2>3. asked.port \in Nat /\ asked.localPort \in Nat
    BY SettingsAssumption
  <2>4. i \in Deciding(h)
    <3>1. CASE asked.port = 0
      BY <1>7, <2>1, <3>1 DEF Deciding
    <3>2. CASE asked.port # 0 /\ asked.localPort = 0
      <4>1. h.dstPort = asked.port /\ h.srcPort = x.seq
        BY <2>1, <3>2
      <4>2. CASE FindBySequence(h.dstPort) # {}
        BY <1>7, <2>2, <3>2, <4>1, <4>2 DEF Deciding
      <4>3. CASE FindBySequence(h.dstPort) = {}
        BY <1>7, <4>1, <4>3 DEF Deciding
      <4>. QED BY <4>2, <4>3
    <3>3. CASE asked.port # 0 /\ asked.localPort # 0
      <4>1. h.dstPort = asked.port /\ h.srcPort = asked.localPort /\ h.sum = x.seq
        BY <2>1, <3>3
      <4>2. CASE FindBySequence(h.dstPort) # {}
        BY <1>7, <2>2, <3>3, <4>1, <4>2 DEF Deciding
      <4>3. CASE FindBySequence(h.dstPort) = {} /\ FindBySequence(h.srcPort) # {}
        BY <1>7, <2>2, <3>3, <4>1, <4>3 DEF Deciding
      <4>4. CASE FindBySequence(h.dstPort) = {} /\ FindBySequence(h.srcPort) = {}
        BY <1>7, <4>1, <4>4 DEF Deciding
      <4>. QED BY <4>2, <4>3, <4>4
    <3>. QED BY <2>3, <3>1, <3>2, <3>3
  <2>5. i \in MatchUdp(h, addressed)
    BY <1>5, <1>6, <1>10, <2>1, <2>4 DEF MatchUdp
  <2>6. Matches(h, addressed) = MatchUdp(h, addressed)
    BY <1>3, <1>10 DEF Matches
  <2>. QED BY <2>5, <2>6
<1>. QED BY <1>8, <1>9, <1>10

\* Of the other programs' datagrams only a TCP header finds a probe, by its
\* source port.
LEMMA ForeignMatch ==
    ASSUME asked \in Settings, NEW log, log \subseteq Trails,
           table \in Seq(Entries(log)), NEW quote \in OtherHeaders,
           NEW i \in Matches(quote, TRUE)
    PROVE  i \in DOMAIN table /\ quote.protocol = "tcp" /\ quote.srcPort = table[i].seq
<1>1. \/ quote.protocol = "icmp" /\ quote.id = IcmpId + 1
      \/ quote.protocol = "udp" /\ quote.srcPort = OtherPort
      \/ quote.protocol = "udp" /\ quote.dst = Stranger
      \/ quote.protocol = "tcp"
  <2> DEFINE h == [protocol |-> "icmp", src |-> Me, dst |-> Target, id |-> 0, seq |-> 0,
                   srcPort |-> 0, dstPort |-> 0, sum |-> 0]
             Of(p) == {[h EXCEPT !.id = IcmpId + 1, !.seq = p],
                       [h EXCEPT !.protocol = "udp", !.srcPort = OtherPort, !.dstPort = p],
                       [h EXCEPT !.protocol = "udp", !.srcPort = PidPort, !.dstPort = p,
                                 !.dst = Stranger],
                       [h EXCEPT !.protocol = "tcp", !.srcPort = p, !.dstPort = 80]}
  <2>1. OtherHeaders = UNION {Of(p) : p \in MinPort..(nextSequence - 1)}
    BY DEF OtherHeaders
  <2> HIDE DEF Of
  <2>2. PICK p : quote \in Of(p)
    BY <2>1
  <2>. QED BY <2>2 DEF Of
<1>2. i \in DOMAIN table
  BY DecidingIs DEF Matches, FindBySequence, MatchUdp
<1>3. PICK y \in log : table[i] = EntryOf(y)
  BY <1>2, TableHolds
<1>4. table[i].seq = y.seq /\ table[i].protocol = y.protocol /\ table[i].remote.host = Target
  BY <1>3, EntryIs
<1>5. IcmpId \in Nat /\ OtherPort \notin Ports \cup {PidPort} /\ Stranger # Target
  BY ProbePathAssumption
<1>6. ~(quote.protocol = "icmp" /\ quote.id = IcmpId + 1)
  <2>1. IcmpId + 1 # IcmpId
    BY <1>5
  <2>. QED BY <2>1 DEF Matches
<1>7. CASE quote.protocol = "udp"
  <2>1. /\ table[i].protocol = "udp" /\ quote.srcPort = table[i].local.port
        /\ quote.dst = table[i].remote.host
    BY <1>7 DEF Matches, MatchUdp
  <2>2. quote.srcPort = OtherPort
    BY <1>1, <1>4, <1>5, <1>7, <2>1
  <2>3. y.seq \in Ports
    BY DEF Trails
  <2>4. asked.localPort # OtherPort
    BY SettingsAssumption
  <2>5. EntryOf(y).local.port \in {asked.localPort, y.seq, PidPort}
    BY <1>3, <1>4, <2>1, UdpEntryIs
  <2>. QED BY <1>3, <1>5, <2>1, <2>2, <2>3, <2>4, <2>5
<1>8. CASE quote.protocol = "tcp"
  BY <1>2, <1>8 DEF Matches, FindBySequence
<1>. QED BY <1>1, <1>6, <1>7, <1>8

-----------------------------------------------------------------------------
(* The invariant *)

\* A datagram on its way is that of a probe in the log, and as it was asked for.
Leaves(f, log) ==
    /\ \E x \in log, sum \in Sums \cup {0} : f.token = x.token /\ f.header = HeaderOf(x, sum)
    /\ LeftAsAsked(f)

\* What may wait on an error queue.
Messages(log) ==
    {Message(says, from, HeaderOf(x, sum), x.token) :
        says \in {"exceeded", "port", "other"}, from \in {Target, Router},
        x \in log, sum \in Sums \cup {0}}
\* The state of a send socket whose queue nobody has read from.
Waiting(log) == [message : Messages(log), left : {FALSE}]
SocketsOf(log) ==
    [device : {None, asked.device}, bound : BOOLEAN, tos : Nat, ttl : Nat,
     error : {None} \cup UnreachableErrors \cup QueueErrors, queue : Seq(Waiting(log))]

\* An error that a socket will report is on its queue, and only a "ping" socket
\* has one.
Reported(s) == /\ s.queue # <<>> => ~IsRaw
               /\ s.error # None => s.queue # <<>>

\* The tokens and numbers drawn so far; after the last token no number is drawn.
Counts ==
    /\ sent \in 0..MaxTokens
    /\ sent < MaxTokens => nextSequence \in MinPort..(MinPort + sent * (MaxSkipped + 1))
\* The log holds what has been drawn and nothing that is yet to be drawn.
Drawn(log) ==
    /\ log \subseteq Trails /\ Separate(log)
    /\ \A x \in log : /\ x.token <= sent
                      /\ sent < MaxTokens => x.seq < nextSequence

\* Everything that is about a probe is about one of the log.
Fits(log) ==
    /\ Drawn(log)
    /\ table \in Seq(Entries(log))
    /\ \A f \in flights : Leaves(f, log)
    /\ \A f : pc = "resend" /\ f = resend =>
                 Leaves(f, log) /\ f.header.protocol \in SendSockets
    /\ socket \in [SendSockets -> SocketsOf(log)]
    /\ \A k \in SendSockets : Reported(socket[k])

\* Answer a is token t's: as the property has it, for each answer given so far.
AnswerFits(t, a) ==
    /\ a.response.kind # "permission-denied"
    /\ a.message # None =>
          /\ a.message.of = t \/ Mistaken(a.message, a.seq)
          /\ a.response # None /\ a.response.token = t
          /\ a.response.kind = Meant(a.message.says)
          /\ a.response.addr = Host(a.message.from)
          /\ a.response.labels \in {<<>>, DecodeMpls(Objects[a.message.from])}
          /\ IsRaw => a.response.labels = DecodeMpls(Objects[a.message.from])
AnswersFit ==
    /\ answers = [t \in Tokens |-> answers[t]]
    /\ \A t \in Tokens : \A a : a = answers[t] /\ a # None => AnswerFits(t, a)

\* Before the sockets are open nothing is under way.
Quiet == pc = "start" =>
    /\ table = <<>> /\ flights = {} /\ socket = [k \in SendSockets |-> FreshSocket]
    /\ answers = [t \in Tokens |-> None]
\* The handshake has ended a session whose marks the helper may not set.
Able == pc \notin {"start", "ended"} /\ asked.mark # 0 => "admin" \in caps

\* The inductive invariant.
IInv ==
    /\ asked \in Settings /\ Counts /\ Quiet /\ Able /\ AnswersFit /\ missed = {}
    /\ \E log : Fits(log)

-----------------------------------------------------------------------------
(* What only the session and the opened sockets decide stays as it is *)

LEMMA SameEntry ==
    ASSUME UNCHANGED <<asked, mode>>, NEW x
    PROVE  EntryOf(x)' = EntryOf(x)
<1>1. IsRaw' = IsRaw
  BY DEF IsRaw
<1>2. Asks(x.token, x.protocol)' = Asks(x.token, x.protocol)
  BY DEF Asks, Host
<1>. QED BY <1>1, <1>2 DEF EntryOf, Entry, LocalHost, UdpPorts

LEMMA SameHeader ==
    ASSUME UNCHANGED <<asked, mode>>, NEW x, NEW sum
    PROVE  HeaderOf(x, sum)' = HeaderOf(x, sum)
<1>1. EntryOf(x)' = EntryOf(x)
  BY SameEntry
<1>2. Asks(x.token, x.protocol)' = Asks(x.token, x.protocol)
  BY DEF Asks, Host
<1>. QED BY <1>1, <1>2 DEF HeaderOf, Header, UdpPorts

LEMMA SameEntries ==
    ASSUME UNCHANGED <<asked, mode>>, NEW log
    PROVE  Entries(log)' = Entries(log)
BY SameEntry DEF Entries

LEMMA SameLeaves ==
    ASSUME UNCHANGED <<asked, mode>>, NEW f, NEW log
    PROVE  Leaves(f, log)' <=> Leaves(f, log)
<1>1. LeftAsAsked(f)' <=> LeftAsAsked(f)
  BY DEF LeftAsAsked, IsRaw
<1>2. \A x, sum : HeaderOf(x, sum)' = HeaderOf(x, sum)
  BY SameHeader
<1>. QED BY <1>1, <1>2 DEF Leaves

LEMMA SameSockets ==
    ASSUME UNCHANGED <<asked, mode>>, NEW log
    PROVE  SocketsOf(log)' = SocketsOf(log)
<1>1. \A x, sum : HeaderOf(x, sum)' = HeaderOf(x, sum)
  BY SameHeader
<1>2. \A says, from, h, of : Message(says, from, h, of)' = Message(says, from, h, of)
  BY DEF Message
<1>3. Messages(log)' = Messages(log)
  <2>1. \A x, sum, says, from :
           Message(says, from, HeaderOf(x, sum), x.token)'
              = Message(says, from, HeaderOf(x, sum), x.token)
    BY <1>1 DEF Message
  <2>2. \A m : m \in Messages(log)' <=>
                \E says \in {"exceeded", "port", "other"}, from \in {Target, Router},
                   x \in log, sum \in Sums \cup {0} :
                      m = Message(says, from, HeaderOf(x, sum), x.token)'
    BY DEF Messages
  <2>3. \A m : m \in Messages(log) <=>
                \E says \in {"exceeded", "port", "other"}, from \in {Target, Router},
                   x \in log, sum \in Sums \cup {0} :
                      m = Message(says, from, HeaderOf(x, sum), x.token)
    BY DEF Messages
  <2>4. \A m : m \in Messages(log)' <=> m \in Messages(log)
    <3> SUFFICES ASSUME NEW m PROVE m \in Messages(log)' <=> m \in Messages(log)
      OBVIOUS
    <3>1. ASSUME m \in Messages(log)'
          PROVE  m \in Messages(log)
      <4>1. PICK says \in {"exceeded", "port", "other"}, from \in {Target, Router},
                 x \in log, sum \in Sums \cup {0} :
                    m = Message(says, from, HeaderOf(x, sum), x.token)'
        BY <2>2, <3>1
      <4>2. m = Message(says, from, HeaderOf(x, sum), x.token)
        BY <2>1, <4>1
      <4>. QED BY <2>3, <4>2
    <3>2. ASSUME m \in Messages(log)
          PROVE  m \in Messages(log)'
      <4>1. PICK says \in {"exceeded", "port", "other"}, from \in {Target, Router},
                 x \in log, sum \in Sums \cup {0} :
                    m = Message(says, from, HeaderOf(x, sum), x.token)
        BY <2>3, <3>2
      <4>2. m = Message(says, from, HeaderOf(x, sum), x.token)'
        BY <2>1, <4>1
      <4>. QED BY <2>2, <4>2
    <3>. QED BY <3>1, <3>2
  <2>. QED BY <2>4
<1>4. Waiting(log)' = Waiting(log)
  BY <1>3 DEF Waiting
<1>. QED BY <1>4 DEF SocketsOf

LEMMA SameReported ==
    ASSUME UNCHANGED <<asked, mode>>, NEW s
    PROVE  Reported(s)' <=> Reported(s)
BY DEF Reported, IsRaw

LEMMA SameAnswer ==
    ASSUME UNCHANGED <<asked, mode>>, NEW t, NEW a
    PROVE  AnswerFits(t, a)' <=> AnswerFits(t, a)
<1>1. /\ IsRaw' <=> IsRaw
      /\ \A m, seq : Mistaken(m, seq)' <=> Mistaken(m, seq)
      /\ \A h : Host(h)' = Host(h)
  BY DEF IsRaw, Mistaken, Host
<1>. QED BY <1>1 DEF AnswerFits

-----------------------------------------------------------------------------
(* A larger log fits as well *)

LEMMA MoreLeaves ==
    ASSUME NEW log, NEW more, log \subseteq more, NEW f, Leaves(f, log)
    PROVE  Leaves(f, more)
BY DEF Leaves

LEMMA MoreEntries ==
    ASSUME NEW log, NEW more, log \subseteq more, table \in Seq(Entries(log))
    PROVE  table \in Seq(Entries(more))
<1>1. Entries(log) \subseteq Entries(more)
  BY DEF Entries
<1> HIDE DEF Entries
<1>. QED BY <1>1

LEMMA MoreSockets ==
    ASSUME NEW log, NEW more, log \subseteq more
    PROVE  SocketsOf(log) \subseteq SocketsOf(more)
<1>1. Messages(log) \subseteq Messages(more)
  BY DEF Messages
<1>2. Waiting(log) \subseteq Waiting(more)
  BY <1>1 DEF Waiting
<1>3. Seq(Waiting(log)) \subseteq Seq(Waiting(more))
  BY <1>2
<1>. QED BY <1>3 DEF SocketsOf

\* What a step has to show of the new state, in terms of the old session.
LEMMA Refit ==
    ASSUME UNCHANGED <<asked, mode>>, NEW log, NEW more, Fits(log), log \subseteq more,
           Drawn(more)', table' \in Seq(Entries(more)),
           \A f \in flights' : f \in flights \/ Leaves(f, more),
           \A f : pc' = "resend" /\ f = resend' =>
                     Leaves(f, more) /\ f.header.protocol \in SendSockets,
           socket' \in [SendSockets -> SocketsOf(more)],
           \A k \in SendSockets : \A s : s = socket'[k] => Reported(s)
    PROVE  Fits(more)'
<1>1. (table \in Seq(Entries(more)))'
  BY SameEntries
<1>2. \A f \in flights' : Leaves(f, more)'
  <2>1. \A f \in flights' : Leaves(f, more)
    BY MoreLeaves DEF Fits
  <2>. QED BY <2>1, SameLeaves
<1>3. \A f : pc' = "resend" /\ f = resend' =>
                Leaves(f, more)' /\ f.header.protocol \in SendSockets
  BY SameLeaves
<1>4. (socket \in [SendSockets -> SocketsOf(more)])'
  BY SameSockets
<1>5. (\A k \in SendSockets : Reported(socket[k]))'
  BY DEF Reported, IsRaw
<1>. QED BY <1>1, <1>2, <1>3, <1>4, <1>5 DEF Fits

\* Of the numbers nothing changes.
LEMMA SameDrawn ==
    ASSUME UNCHANGED <<sent, nextSequence>>, NEW log, Drawn(log)
    PROVE  Drawn(log)'
BY DEF Drawn

-----------------------------------------------------------------------------
(* What a message comes to *)

\* A set of numbers has a least.
LEMMA Least ==
    ASSUME NEW T, T \subseteq Nat, T # {}
    PROVE  \E x \in T : \A y \in T : x <= y
<1>1. OpToRel(<, Nat) = {ss \in Nat \X Nat : ss[1] < ss[2]}
  BY DEF OpToRel
<1>2. \E x \in T : \A y \in T : <<y, x>> \notin OpToRel(<, Nat)
  BY NatLessThanWellFounded, WFMin, Zenon
<1>3. PICK x \in T : \A y \in T : <<y, x>> \notin {ss \in Nat \X Nat : ss[1] < ss[2]}
  BY <1>1, <1>2
<1>4. ASSUME NEW y \in T PROVE x <= y
  <2>1. x \in Nat /\ y \in Nat
    OBVIOUS
  <2>2. <<y, x>> \in Nat \X Nat /\ <<y, x>>[1] = y /\ <<y, x>>[2] = x
    BY <2>1
  <2>3. ~(y < x)
    BY <1>3, <2>2
  <2>. QED BY <2>1, <2>3
<1>. QED BY <1>4

\* The labels of a message fit a response.
LEMMA MplsFits ==
    ASSUME NEW host \in {Target, Router}
    PROVE  /\ DecodeMpls(Objects[host]) \in Labels
           /\ Len(DecodeMpls(Objects[host])) <= MaxLabels
<1> DEFINE objects == Objects[host]
           mpls    == {i \in DOMAIN objects : objects[i].mpls}
<1>1. objects \in Seq([mpls : BOOLEAN, labels : Labels])
  BY ProbePathAssumption DEF Labels, Label
<1>2. MaxLabels \in Nat
  BY WireAssumption
<1>3. CASE mpls = {}
  <2>1. DecodeMpls(objects) = <<>>
    BY <1>3 DEF DecodeMpls
  <2>2. <<>> \in Labels /\ Len(<<>>) = 0
    BY DEF Labels
  <2>. QED BY <1>2, <2>1, <2>2
<1>4. CASE mpls # {}
  <2> DEFINE i == CHOOSE i \in mpls : \A j \in mpls : i <= j
             labels == objects[i].labels
             n == IF Len(labels) <= MaxLabels THEN Len(labels) ELSE MaxLabels
  <2>1. mpls \subseteq Nat
    BY <1>1
  <2>2. \E k \in mpls : \A j \in mpls : k <= j
    BY <1>4, <2>1, Least
  <2>3. i \in mpls
    BY <2>2
  <2>4. i \in DOMAIN objects
    BY <2>3
  <2> HIDE DEF i
  <2>5. labels \in Labels
    <3> DEFINE R == [mpls : BOOLEAN, labels : Labels]
    <3>1. objects \in Seq(R)
      BY <1>1
    <3> HIDE DEF R, objects
    <3>2. objects[i] \in R
      BY <2>4, <3>1
    <3>. QED BY <3>2 DEF R
  <2>6. DecodeMpls(objects) = SubSeq(labels, 1, n)
    BY <1>4 DEF DecodeMpls, i
  <2> HIDE DEF objects, labels
  <2>7. Len(labels) \in Nat
    BY <2>5 DEF Labels
  <2>8. n \in 0..Len(labels) /\ n <= MaxLabels
    BY <1>2, <2>7
  <2> HIDE DEF n
  <2>9. SubSeq(labels, 1, n) \in Labels /\ Len(SubSeq(labels, 1, n)) = n
    BY <2>5, <2>7, <2>8 DEF Labels
  <2>. QED BY <2>6, <2>8, <2>9 DEF objects
<1>. QED BY <1>3, <1>4

\* What a message can say.
Says == {"echo", "exceeded", "port", "other"}
\* m is a message as a host of the family sends it.
Tells(m) ==
    /\ m.says \in Says /\ m.from \in {Target, Router}
    /\ m.objects = Objects[m.from]
    /\ Verdict(asked.family, m.type, m.code) = Meant(m.says)

LEMMA MessageTells ==
    ASSUME asked \in Settings, NEW says \in Says, NEW from \in {Target, Router},
           NEW header, NEW of
    PROVE  LET m == Message(says, from, header, of)
           IN  Tells(m) /\ m.header = header /\ m.of = of
<1> DEFINE m == Message(says, from, header, of)
<1>1. /\ m.says = says /\ m.from = from /\ m.objects = Objects[from]
      /\ m.header = header /\ m.of = of
      /\ m.type = Number(asked.family, says)[1] /\ m.code = Number(asked.family, says)[2]
  BY DEF Message
<1> HIDE DEF m
<1>2. asked.family = 4 \/ asked.family = 6
  BY SettingsAssumption DEF Families
<1>3. CASE asked.family = 4
  <2>1. /\ says = "echo" => m.type = 0 /\ m.code = 0
        /\ says = "exceeded" => m.type = 11 /\ m.code = 0
        /\ says = "port" => m.type = 3 /\ m.code = 3
        /\ says = "other" => m.type = 3 /\ m.code = 4
    BY <1>1, <1>3 DEF Number, Says
  <2>2. Verdict(asked.family, m.type, m.code) = Meant(says)
    BY <1>3, <2>1 DEF Says, Meant, Verdict, PortCode
  <2>. QED BY <1>1, <2>2 DEF m, Tells
<1>4. CASE asked.family = 6
  <2>1. /\ says = "echo" => m.type = 129 /\ m.code = 0
        /\ says = "exceeded" => m.type = 3 /\ m.code = 0
        /\ says = "port" => m.type = 1 /\ m.code = 4
        /\ says = "other" => m.type = 1 /\ m.code = 3
    BY <1>1, <1>4 DEF Number, Says
  <2>2. Verdict(asked.family, m.type, m.code) = Meant(says)
    BY <1>4, <2>1 DEF Says, Meant, Verdict, PortCode
  <2>. QED BY <1>1, <2>2 DEF m, Tells
<1>. QED BY <1>2, <1>3, <1>4

\* The answer that a message makes, once the probe is found.
LEMMA ResultFits ==
    ASSUME asked \in Settings, NEW t \in Tokens, NEW m, Tells(m), NEW seq,
           m.of = t \/ Mistaken(m, seq), NEW labels,
           labels \in {<<>>, DecodeMpls(Objects[m.from])},
           IsRaw => labels = DecodeMpls(Objects[m.from])
    PROVE  AnswerFits(t,
              [response |-> ParseResponse(EncodeResponse(
                   Response(t, Verdict(asked.family, m.type, m.code), Host(m.from),
                            labels, None))),
               message |-> m, seq |-> seq, error |-> None])
<1> DEFINE kind == Verdict(asked.family, m.type, m.code)
           addr == Host(m.from)
           r    == Response(t, kind, addr, labels, None)
<1>1. kind = Meant(m.says) /\ m.says \in Says /\ m.from \in {Target, Router}
  BY DEF Tells
<1>2. kind \in ResultNames /\ kind # "permission-denied"
  BY <1>1 DEF Meant, Says, ResultNames
<1>3. addr \in [family : Families, host : {Target, Router}] /\ addr # None
  <2>1. asked.family \in Families
    BY SettingsAssumption
  <2>2. addr \in [family : Families, host : {Target, Router}]
    BY <1>1, <2>1 DEF Host
  <2>. QED BY <2>2, NoneAssumption
<1>4. labels \in Labels /\ Len(labels) <= MaxLabels
  <2>1. <<>> \in Labels /\ Len(<<>>) = 0 /\ MaxLabels \in Nat
    BY WireAssumption DEF Labels
  <2>2. DecodeMpls(Objects[m.from]) \in Labels /\ Len(DecodeMpls(Objects[m.from])) <= MaxLabels
    BY <1>1, MplsFits
  <2>. QED BY <2>1, <2>2
<1> HIDE DEF kind, addr
<1>5. ParseResponse(EncodeResponse(r)) = r
  BY <1>2, <1>3, <1>4, ResultReads
<1>6. /\ r.token = t /\ r.kind = kind /\ r.addr = addr /\ r.labels = labels
  BY DEF Response
<1>7. r # None
  <2>1. r \in [token : Tokens, kind : ResultNames,
               addr : [family : Families, host : {Target, Router}],
               labels : Seq(Label), detail : {None}]
    BY <1>2, <1>3, <1>4 DEF Response, Labels
  <2>. QED BY <2>1, NoneAssumption
<1> HIDE DEF r
<1>. QED BY <1>1, <1>2, <1>5, <1>6, <1>7 DEF AnswerFits, kind, addr, r

-----------------------------------------------------------------------------
(* Answers *)

LEMMA GiveAnswer ==
    ASSUME AnswersFit, UNCHANGED <<asked, mode>>, NEW t \in Tokens, NEW answer,
           AnswerFits(t, answer), answers' = [answers EXCEPT ![t] = answer]
    PROVE  AnswersFit'
<1>1. answers = [u \in Tokens |-> answers[u]]
  BY DEF AnswersFit
<1>2. /\ answers' = [u \in Tokens |-> answers'[u]]
      /\ answers'[t] = answer
      /\ \A u \in Tokens : u # t => answers'[u] = answers[u]
  BY <1>1
<1>3. ASSUME NEW u \in Tokens, NEW a, a = answers'[u], a # None
      PROVE  AnswerFits(u, a)
  <2>1. CASE u = t
    BY <1>2, <1>3, <2>1
  <2>2. CASE u # t
    <3>1. a = answers[u]
      BY <1>2, <1>3, <2>2
    <3>. QED BY <1>3, <3>1 DEF AnswersFit
  <2>. QED BY <2>1, <2>2
<1>4. \A u \in Tokens : \A a : a = answers'[u] /\ a # None => AnswerFits(u, a)'
  BY <1>3, SameAnswer
<1>. QED BY <1>2, <1>4 DEF AnswersFit

LEMMA SameAnswers ==
    ASSUME AnswersFit, UNCHANGED <<asked, mode, answers>>
    PROVE  AnswersFit'
<1>1. \A u \in Tokens : \A a : a = answers[u] /\ a # None => AnswerFits(u, a)'
  BY SameAnswer DEF AnswersFit
<1>. QED BY <1>1 DEF AnswersFit

\* An answer that no message is behind has only a kind to be looked at.
LEMMA PlainFits ==
    ASSUME NEW t, NEW response, NEW seq, NEW error,
           ParseResponse(EncodeResponse(response)).kind # "permission-denied"
    PROVE  AnswerFits(t, [response |-> ParseResponse(EncodeResponse(response)),
                          message |-> None, seq |-> seq, error |-> error])
BY DEF AnswerFits

LEMMA PlainAnswer ==
    ASSUME AnswersFit, UNCHANGED <<asked, mode>>, NEW t \in Tokens, NEW response,
           NEW seq, NEW error, Answered(t, response, None, seq, error),
           ParseResponse(EncodeResponse(response)).kind # "permission-denied"
    PROVE  AnswersFit'
<1> DEFINE answer == [response |-> ParseResponse(EncodeResponse(response)),
                      message |-> None, seq |-> seq, error |-> error]
<1>1. AnswerFits(t, answer)
  BY PlainFits
<1>2. answers' = [answers EXCEPT ![t] = answer]
  BY DEF Answered
<1> HIDE DEF answer
<1>. QED BY <1>1, <1>2, GiveAnswer

\* A failure whose errno is not that of a missing privilege.
LEMMA FailureAnswer ==
    ASSUME AnswersFit, UNCHANGED <<asked, mode>>, NEW t \in Tokens, NEW errno,
           errno # "EPERM", NEW seq, NEW error,
           Answered(t, ErrorResponse(t, errno), None, seq, error)
    PROVE  AnswersFit'
<1>1. ParseResponse(EncodeResponse(ErrorResponse(t, errno))).kind # "permission-denied"
  BY ErrorReads
<1>. QED BY <1>1, PlainAnswer

LEMMA FewerFits ==
    ASSUME NEW S, table \in Seq(S), NEW i
    PROVE  WithoutEntry(i) \in Seq(S)
<1>1. Len(table) \in Nat
  OBVIOUS
<1>2. CASE Len(table) = 0
  <2>1. 1..(Len(table) - 1) = 1..0
    BY <1>2
  <2> DEFINE k == 0
             T == 1..(Len(table) - 1)
  <2>2. T = 1..k /\ \A j \in T : FALSE
    BY <1>2, <2>1
  <2>3. WithoutEntry(i) = [j \in T |-> IF j = i THEN table[Len(table)] ELSE table[j]]
    BY DEF WithoutEntry
  <2>4. k \in Nat
    OBVIOUS
  <2> HIDE DEF k, T
  <2>5. WithoutEntry(i) \in [T -> S]
    BY <2>2, <2>3
  <2>6. WithoutEntry(i) \in [1..k -> S]
    BY <2>2, <2>5
  <2>. QED BY <2>4, <2>6
<1>3. CASE Len(table) # 0
  <2> DEFINE n == Len(table) - 1
  <2>1. n \in Nat /\ Len(table) \in DOMAIN table /\ \A j \in 1..n : j \in DOMAIN table
    BY <1>1, <1>3
  <2>2. WithoutEntry(i) = [j \in 1..n |-> IF j = i THEN table[Len(table)] ELSE table[j]]
    BY DEF WithoutEntry
  <2> HIDE DEF n
  <2>3. \A j \in 1..n : (IF j = i THEN table[Len(table)] ELSE table[j]) \in S
    BY <2>1
  <2>4. WithoutEntry(i) \in [1..n -> S]
    BY <2>2, <2>3
  <2>. QED BY <2>1, <2>4
<1>. QED BY <1>2, <1>3

\* What a message may be about: a probe of the log, or another program's datagram.
Heard(m, log, addressed) ==
    \/ \E x \in log : /\ Quotes(m.header, x) /\ m.of = x.token
                      /\ m.header.src = Stranger
                            \/ (m.header.src = Source /\ m.header.dst = Target)
    \/ m.header \in OtherHeaders /\ m.of = 0 /\ addressed = TRUE

\* Delivering a message leaves a table of known probes, an answer that fits, and
\* nothing missed.
LEMMA DeliverFits ==
    ASSUME asked \in Settings, AnswersFit, missed = {}, UNCHANGED <<asked, mode>>,
           NEW log, Fits(log), NEW m, Tells(m), NEW addressed, Heard(m, log, addressed),
           NEW labels, labels \in {<<>>, DecodeMpls(Objects[m.from])},
           IsRaw => labels = DecodeMpls(Objects[m.from]),
           Deliver(m, addressed, labels)
    PROVE  table' \in Seq(Entries(log)) /\ AnswersFit' /\ missed' = {}
<1>1. log \subseteq Trails /\ Separate(log) /\ table \in Seq(Entries(log))
  BY DEF Fits, Drawn
<1>2. ASSUME NEW i \in Matches(m.header, addressed)
      PROVE  /\ i \in DOMAIN table
             /\ m.of = table[i].token \/ Mistaken(m, table[i].seq)
  <2>1. ASSUME NEW x \in log, Quotes(m.header, x), m.of = x.token
        PROVE  /\ i \in DOMAIN table
               /\ m.of = table[i].token \/ Mistaken(m, table[i].seq)
    <3>1. /\ i \in DOMAIN table
          /\ \/ table[i].token = x.token
             \/ /\ asked.port # 0 /\ asked.localPort # 0
                /\ table[i].seq \in {asked.port, asked.localPort}
      BY <1>1, <1>2, <2>1, MatchSound
    <3>. QED BY <2>1, <3>1 DEF Mistaken
  <2>2. ASSUME m.header \in OtherHeaders, m.of = 0, addressed = TRUE
        PROVE  /\ i \in DOMAIN table
               /\ m.of = table[i].token \/ Mistaken(m, table[i].seq)
    <3>1. i \in Matches(m.header, TRUE)
      BY <1>2, <2>2
    <3>2. i \in DOMAIN table /\ m.header.protocol = "tcp" /\ m.header.srcPort = table[i].seq
      BY <1>1, <2>2, <3>1, ForeignMatch
    <3>. QED BY <2>2, <3>2 DEF Mistaken
  <2>. QED BY <2>1, <2>2 DEF Heard
<1>3. CASE \E i \in Matches(m.header, addressed) :
              /\ table' = WithoutEntry(i)
              /\ Answered(table[i].token,
                          Response(table[i].token, Verdict(asked.family, m.type, m.code),
                                   Host(m.from), labels, None),
                          m, table[i].seq, None)
              /\ UNCHANGED missed
  <2>1. PICK i \in Matches(m.header, addressed) :
              /\ table' = WithoutEntry(i)
              /\ Answered(table[i].token,
                          Response(table[i].token, Verdict(asked.family, m.type, m.code),
                                   Host(m.from), labels, None),
                          m, table[i].seq, None)
              /\ UNCHANGED missed
    BY <1>3
  <2>2. /\ i \in DOMAIN table
        /\ m.of = table[i].token \/ Mistaken(m, table[i].seq)
    BY <1>2
  <2>3. table[i].token \in Tokens
    <3>1. PICK y \in log : table[i] = EntryOf(y)
      BY <1>1, <2>2, TableHolds
    <3>2. table[i].token = y.token
      BY <3>1, EntryIs
    <3>. QED BY <1>1, <3>2 DEF Trails
  <2> DEFINE t == table[i].token
             seq == table[i].seq
             answer == [response |-> ParseResponse(EncodeResponse(
                           Response(t, Verdict(asked.family, m.type, m.code), Host(m.from),
                                    labels, None))),
                        message |-> m, seq |-> seq, error |-> None]
  <2>4. answers' = [answers EXCEPT ![t] = answer]
    BY <2>1 DEF Answered
  <2>5. AnswerFits(t, answer)
    <3> HIDE DEF t, seq
    <3>. QED BY <2>2, <2>3, ResultFits DEF t, seq
  <2> HIDE DEF answer, t
  <2>6. AnswersFit'
    BY <2>3, <2>4, <2>5, GiveAnswer DEF t
  <2>. QED BY <1>1, <2>1, <2>6, FewerFits
<1>4. CASE /\ Matches(m.header, addressed) = {}
           /\ missed' = IF Outstanding(m.of) /\ ~Explained(m)
                        THEN missed \cup {m.of} ELSE missed
           /\ UNCHANGED <<table, answers>>
  <2>1. ~(Outstanding(m.of) /\ ~Explained(m))
    <3> SUFFICES ASSUME Outstanding(m.of), ~Explained(m) PROVE FALSE
      OBVIOUS
    <3>1. PICK i \in DOMAIN table : table[i].token = m.of
      BY DEF Outstanding
    <3>2. m.of # 0
      <4>1. PICK y \in log : table[i] = EntryOf(y)
        BY <1>1, TableHolds
      <4>2. y.token \in Tokens /\ table[i].token = y.token
        BY <1>1, <4>1, EntryIs DEF Trails
      <4>. QED BY <3>1, <4>2 DEF Tokens
    <3>3. ~Shadowed(m.of) /\ m.header.src # Stranger
      BY DEF Explained
    <3>4. PICK x \in log : /\ Quotes(m.header, x) /\ m.of = x.token
                           /\ m.header.src = Source /\ m.header.dst = Target
      BY <3>2, <3>3 DEF Heard
    <3>5. Matches(m.header, addressed) # {}
      BY <1>1, <3>1, <3>3, <3>4, MatchComplete
    <3>. QED BY <1>4, <3>5
  <2>2. missed' = {} /\ table' = table
    BY <1>4, <2>1
  <2>3. AnswersFit'
    BY <1>4, SameAnswers
  <2>. QED BY <1>1, <2>2, <2>3
<1>. QED BY <1>3, <1>4 DEF Deliver

-----------------------------------------------------------------------------
(* The beginning *)

LEMMA FreshFits ==
    ASSUME NEW log
    PROVE  FreshSocket \in SocketsOf(log) /\ Reported(FreshSocket)
<1>1. <<>> \in Seq(Waiting(log))
  OBVIOUS
<1>. QED BY <1>1 DEF FreshSocket, SocketsOf, Reported

LEMMA InitFits ==
    ASSUME Init
    PROVE  IInv
<1>1. asked \in Settings /\ Counts /\ Quiet /\ Able /\ missed = {}
  BY ProbePathAssumption DEF Init, Counts, Quiet, Able
<1>2. AnswersFit
  BY DEF Init, AnswersFit
<1>3. Fits({})
  <2>1. Drawn({})
    BY DEF Drawn, Separate
  <2>2. table \in Seq(Entries({})) /\ flights = {} /\ pc = "start"
    BY DEF Init
  <2>3. FreshSocket \in SocketsOf({}) /\ Reported(FreshSocket)
    BY FreshFits
  <2>4. socket = [k \in SendSockets |-> FreshSocket]
    BY DEF Init
  <2>5. /\ socket \in [SendSockets -> SocketsOf({})]
        /\ \A k \in SendSockets : Reported(socket[k])
    BY <2>3, <2>4
  <2>. QED BY <2>1, <2>2, <2>5 DEF Fits
<1>. QED BY <1>1, <1>2, <1>3 DEF IInv

\* The handshake has asked for the mark if there is one.
LEMMA StartKeeps ==
    ASSUME IInv, Start
    PROVE  IInv'
<1>1. /\ table = <<>> /\ flights = {} /\ socket = [k \in SendSockets |-> FreshSocket]
      /\ answers = [t \in Tokens |-> None] /\ asked \in Settings /\ Counts /\ missed = {}
  BY DEF IInv, Quiet, Start
<1>2. UNCHANGED <<asked, table, nextSequence, socket, sent, flights, answers, missed>>
  BY DEF Start
<1>3. pc' \in {"drain", "ended"} /\ (pc' = "drain" /\ asked.mark # 0 => "admin" \in caps')
  <2>1. PICK granted :
           /\ caps' = Kept(granted)
           /\ pc' = IF \A f \in Required :
                          Agreed(f, Opened(granted), Kept(granted), CheckSctpSupport(granted))
                    THEN "drain" ELSE "ended"
    BY DEF Start
  <2>2. ASSUME pc' = "drain", asked.mark # 0
        PROVE  "admin" \in caps'
    <3>1. \A f \in Required :
             Agreed(f, Opened(granted), Kept(granted), CheckSctpSupport(granted))
      BY <2>1, <2>2
    <3>2. "mark" \in Required
      BY <2>2 DEF Required
    <3>3. Agreed("mark", Opened(granted), Kept(granted), CheckSctpSupport(granted))
      BY <3>1, <3>2
    <3>4. "admin" \in Kept(granted)
      BY <3>3, MarkAgreed
    <3>. QED BY <2>1, <3>4
  <2>. QED BY <2>1, <2>2
<1>4. asked' \in Settings /\ Counts' /\ Quiet' /\ Able' /\ missed' = {}
  BY <1>1, <1>2, <1>3 DEF Counts, Quiet, Able
<1>5. AnswersFit'
  BY <1>1, <1>2 DEF AnswersFit
<1>6. Fits({})'
  <2>1. Drawn({})'
    BY DEF Drawn, Separate
  <2>2. (table \in Seq(Entries({})))' /\ flights' = {} /\ pc' # "resend"
    BY <1>1, <1>2, <1>3
  <2>3. (FreshSocket \in SocketsOf({}) /\ Reported(FreshSocket))'
    <3>1. (<<>> \in Seq(Waiting({})))'
      OBVIOUS
    <3>. QED BY <3>1 DEF FreshSocket, SocketsOf, Reported
  <2>4. /\ (socket \in [SendSockets -> SocketsOf({})])'
        /\ (\A k \in SendSockets : Reported(socket[k]))'
    <3>1. \A k \in SendSockets : socket'[k] = FreshSocket
      BY <1>1, <1>2
    <3>2. (FreshSocket)' = FreshSocket
      BY DEF FreshSocket
    <3>3. \A k \in SendSockets : Reported(socket[k])'
      BY <2>3, <3>1, <3>2 DEF Reported, IsRaw
    <3>. QED BY <1>1, <1>2, <2>3, <3>2, <3>3
  <2>. QED BY <2>1, <2>2, <2>4 DEF Fits
<1>. QED BY <1>4, <1>5, <1>6 DEF IInv

-----------------------------------------------------------------------------
(* Sockets and datagrams *)

\* The session goes on.
LEMMA Going ==
    ASSUME UNCHANGED <<asked, caps>>, pc \notin {"start", "ended"}, pc' # "start", Able
    PROVE  Quiet' /\ Able'
BY DEF Quiet, Able

LEMMA SameCounts ==
    ASSUME UNCHANGED <<sent, nextSequence>>, Counts
    PROVE  Counts'
BY DEF Counts

\* One socket changes.
LEMMA SetSocket ==
    ASSUME NEW log, socket \in [SendSockets -> SocketsOf(log)],
           \A k \in SendSockets : Reported(socket[k]), NEW key \in SendSockets,
           NEW s \in SocketsOf(log), Reported(s), socket' = [socket EXCEPT ![key] = s]
    PROVE  /\ socket' \in [SendSockets -> SocketsOf(log)]
           /\ \A k \in SendSockets : \A r : r = socket'[k] => Reported(r)
OBVIOUS

LEMMA SameSocket ==
    ASSUME NEW log, socket \in [SendSockets -> SocketsOf(log)],
           \A k \in SendSockets : Reported(socket[k]), UNCHANGED socket
    PROVE  /\ socket' \in [SendSockets -> SocketsOf(log)]
           /\ \A k \in SendSockets : \A r : r = socket'[k] => Reported(r)
OBVIOUS

\* An error that has been reported is gone; it was not one of a missing privilege.
LEMMA Cleared ==
    ASSUME NEW log, NEW s \in SocketsOf(log), Reported(s)
    PROVE  /\ [s EXCEPT !.error = None] \in SocketsOf(log)
           /\ Reported([s EXCEPT !.error = None])
           /\ s.error # "EPERM"
<1> DEFINE Q == Seq(Waiting(log))
<1>1. s \in [device : {None, asked.device}, bound : BOOLEAN, tos : Nat, ttl : Nat,
             error : {None} \cup UnreachableErrors \cup QueueErrors, queue : Q]
  BY DEF SocketsOf
<1>2. "EPERM" # None /\ "EPERM" \notin UnreachableErrors \cup QueueErrors
  BY NoneAssumption, ProbePathAssumption DEF QueueErrors
<1>3. [s EXCEPT !.error = None] \in SocketsOf(log)
  <2> HIDE DEF Q
  <2>. QED BY <1>1 DEF SocketsOf, Q
<1>4. Reported([s EXCEPT !.error = None])
  <2>1. /\ [s EXCEPT !.error = None].queue = s.queue
        /\ [s EXCEPT !.error = None].error = None
    <3> HIDE DEF Q
    <3>. QED BY <1>1
  <2>. QED BY <2>1 DEF Reported
<1>. QED BY <1>1, <1>2, <1>3, <1>4

\* A datagram's token is drawn, and its quote is one of a probe in the log.
LEMMA LeavesAre ==
    ASSUME NEW log, log \subseteq Trails, NEW f, Leaves(f, log)
    PROVE  /\ f.token \in Tokens
           /\ \E x \in log, sum \in Sums \cup {0} :
                 /\ f.token = x.token /\ f.header = HeaderOf(x, sum)
                 /\ Quotes(f.header, x)
                 /\ f.header.src = Source /\ f.header.dst = Target
<1>1. PICK x \in log, sum \in Sums \cup {0} :
         f.token = x.token /\ f.header = HeaderOf(x, sum)
  BY DEF Leaves
<1>2. x \in Trails /\ x.token \in Tokens
  BY DEF Trails
<1>3. f.header.src = Source /\ f.header.dst = Target
  BY <1>1, <1>2, HeaderIs
<1>4. Quotes(f.header, x)
  BY <1>1 DEF Quotes
<1>. QED BY <1>1, <1>2, <1>3, <1>4

\* What a turn that asks for no probe has to show.
LEMMA Closing ==
    ASSUME IInv, NEW log, Fits(log), UNCHANGED <<asked, mode, caps, sctp, nextSequence, sent>>,
           pc \notin {"start", "ended"}, pc' # "start",
           table' \in Seq(Entries(log)), AnswersFit', missed' = {},
           \A f \in flights' : f \in flights \/ Leaves(f, log),
           \A f : pc' = "resend" /\ f = resend' =>
                     Leaves(f, log) /\ f.header.protocol \in SendSockets,
           socket' \in [SendSockets -> SocketsOf(log)],
           \A k \in SendSockets : \A s : s = socket'[k] => Reported(s)
    PROVE  IInv'
<1>1. asked \in Settings /\ Counts /\ Able
  BY DEF IInv
<1>2. Drawn(log)'
  BY SameDrawn DEF Fits
<1>3. Fits(log)'
  BY <1>2, Refit
<1>4. Quiet' /\ Able'
  BY <1>1, Going
<1>5. Counts'
  BY <1>1, SameCounts
<1>. QED BY <1>1, <1>3, <1>4, <1>5 DEF IInv

\* What the invariant has for every turn.
LEMMA Opening ==
    ASSUME IInv
    PROVE  /\ asked \in Settings /\ AnswersFit /\ missed = {}
           /\ \E log :
                 /\ Fits(log) /\ log \subseteq Trails /\ table \in Seq(Entries(log))
                 /\ \A f \in flights : Leaves(f, log)
                 /\ \A f : pc = "resend" /\ f = resend =>
                              Leaves(f, log) /\ f.header.protocol \in SendSockets
                 /\ socket \in [SendSockets -> SocketsOf(log)]
                 /\ \A k \in SendSockets : Reported(socket[k])
<1>1. PICK log : Fits(log)
  BY DEF IInv
<1>2. /\ Fits(log) /\ log \subseteq Trails /\ table \in Seq(Entries(log))
      /\ \A f \in flights : Leaves(f, log)
      /\ \A f : pc = "resend" /\ f = resend =>
                   Leaves(f, log) /\ f.header.protocol \in SendSockets
      /\ socket \in [SendSockets -> SocketsOf(log)]
      /\ \A k \in SendSockets : Reported(socket[k])
  BY <1>1 DEF Fits, Drawn
<1>3. asked \in Settings /\ AnswersFit /\ missed = {}
  BY DEF IInv
<1>. QED BY <1>2, <1>3

-----------------------------------------------------------------------------
(* The turns of the helper keep the invariant *)

LEMMA ResendKeeps ==
    ASSUME IInv, Resend
    PROVE  IInv'
<1>1. PICK log :
         /\ Fits(log) /\ log \subseteq Trails /\ table \in Seq(Entries(log))
         /\ \A f \in flights : Leaves(f, log)
         /\ \A f : pc = "resend" /\ f = resend =>
                      Leaves(f, log) /\ f.header.protocol \in SendSockets
         /\ socket \in [SendSockets -> SocketsOf(log)]
         /\ \A k \in SendSockets : Reported(socket[k])
  BY Opening
<1>2. asked \in Settings /\ AnswersFit /\ missed = {}
  BY Opening
<1>3. UNCHANGED <<asked, mode, caps, sctp, nextSequence, sent, missed>> /\ pc = "resend"
  BY DEF Resend
<1> DEFINE key == resend.header.protocol
           s   == socket[key]
           t   == resend.token
<1>4. Leaves(resend, log) /\ key \in SendSockets
  BY <1>1, <1>3
<1>5. t \in Tokens
  BY <1>1, <1>4, LeavesAre
<1>6. s \in SocketsOf(log) /\ Reported(s)
  BY <1>1, <1>4
<1>7. /\ [s EXCEPT !.error = None] \in SocketsOf(log)
      /\ Reported([s EXCEPT !.error = None]) /\ s.error # "EPERM"
  <2> HIDE DEF s
  <2>. QED BY <1>6, Cleared
<1>8. socket' = [socket EXCEPT ![key] = [s EXCEPT !.error = None]]
  BY DEF Resend
<1>9. /\ socket' \in [SendSockets -> SocketsOf(log)]
       /\ \A k \in SendSockets : \A r : r = socket'[k] => Reported(r)
  <2> DEFINE new == [s EXCEPT !.error = None]
  <2>1. new \in SocketsOf(log) /\ Reported(new) /\ socket' = [socket EXCEPT ![key] = new]
    BY <1>7, <1>8
  <2> HIDE DEF new, key
  <2>. QED BY <1>1, <1>4, <2>1, SetSocket
<1>10. /\ pc' \in {"dispatch", "ended"}
       /\ table' \in Seq(Entries(log)) /\ AnswersFit'
       /\ \A f \in flights' : f \in flights \/ Leaves(f, log)
  <2>1. CASE flights' = flights \cup {resend} /\ pc' = "dispatch" /\ UNCHANGED <<table, answers>>
    <3>1. AnswersFit'
      BY <1>2, <1>3, <2>1, SameAnswers
    <3>. QED BY <1>1, <1>4, <2>1, <3>1
  <2>2. ASSUME NEW errno \in (IF s.error = None THEN SendErrors ELSE {s.error}),
               table' = WithoutEntry(Len(table)),
               Answered(t, ErrorResponse(t, errno), None, 0,
                        IF s.error = None THEN errno ELSE Stray),
               pc' = NextStep(ErrorResponse(t, errno), "dispatch"),
               UNCHANGED flights
        PROVE  /\ pc' \in {"dispatch", "ended"}
               /\ table' \in Seq(Entries(log)) /\ AnswersFit'
               /\ \A f \in flights' : f \in flights \/ Leaves(f, log)
    <3>1. errno # "EPERM"
      <4>1. CASE s.error = None
        BY <2>2, <4>1, ProbePathAssumption
      <4>2. CASE s.error # None
        BY <1>7, <2>2, <4>2
      <4>. QED BY <4>1, <4>2
    <3>2. AnswersFit'
      <4> HIDE DEF t, s
      <4>. QED BY <1>2, <1>3, <1>5, <2>2, <3>1, FailureAnswer
    <3>3. table' \in Seq(Entries(log))
      BY <1>1, <2>2, FewerFits
    <3>4. pc' \in {"dispatch", "ended"}
      BY <2>2 DEF NextStep
    <3>. QED BY <2>2, <3>2, <3>3, <3>4
  <2>. QED BY <2>1, <2>2 DEF Resend
<1>. QED BY <1>1, <1>2, <1>3, <1>9, <1>10, Closing

\* What a datagram draws is about the datagram's probe.
LEMMA DrawsHeard ==
    ASSUME asked \in Settings, NEW log, log \subseteq Trails, NEW f, Leaves(f, log),
           NEW m \in Errors(f) \cup Rewritten(f) \cup Echoes(f), NEW addressed
    PROVE  Tells(m) /\ Heard(m, log, addressed)
<1>1. PICK x \in log, sum \in Sums \cup {0} :
         /\ f.token = x.token /\ f.header = HeaderOf(x, sum)
         /\ Quotes(f.header, x)
         /\ f.header.src = Source /\ f.header.dst = Target
  BY LeavesAre
<1> DEFINE rewritten == [f.header EXCEPT !.src = Stranger]
<1>2. PICK says \in Says, from \in {Target, Router}, header \in {f.header, rewritten} :
         m = Message(says, from, header, f.token)
  <2>1. \/ m = Message("exceeded", Router, f.header, f.token)
        \/ m = Message("other", Router, f.header, f.token)
        \/ m = Message("port", Target, f.header, f.token)
        \/ m = Message("exceeded", Router, rewritten, f.token)
        \/ m = Message("echo", Target, f.header, f.token)
    BY DEF Errors, Rewritten, Echoes
  <2>2. {"exceeded", "other", "port", "echo"} \subseteq Says
    BY DEF Says
  <2> HIDE DEF rewritten
  <2>. QED BY <2>1, <2>2
<1>3. Tells(m) /\ m.header = header /\ m.of = f.token
  BY <1>2, MessageTells
<1>4. Quotes(header, x) /\ (header.src = Stranger \/ (header.src = Source /\ header.dst = Target))
  <2>1. CASE header = f.header
    BY <1>1, <2>1
  <2>2. CASE header = rewritten
    <3>1. LET own == HeaderOf(x, sum)
          IN  /\ rewritten.protocol = own.protocol /\ rewritten.id = own.id
              /\ rewritten.seq = own.seq /\ rewritten.srcPort = own.srcPort
              /\ rewritten.dstPort = own.dstPort /\ rewritten.sum = own.sum
              /\ rewritten.src = Stranger
      BY <1>1 DEF HeaderOf, Header
    <3>2. Quotes(rewritten, x)
      BY <3>1 DEF Quotes
    <3>3. rewritten.src = Stranger
      BY <3>1
    <3> HIDE DEF rewritten
    <3>4. Quotes(header, x)
      BY <2>2, <3>2, Zenon
    <3>5. header.src = Stranger
      BY <2>2, <3>3, Zenon
    <3>. QED BY <3>4, <3>5
  <2>. QED BY <1>2, <2>1, <2>2
<1>. QED BY <1>1, <1>3, <1>4 DEF Heard

LEMMA ReceiveKeeps ==
    ASSUME IInv, Receive
    PROVE  IInv'
<1>1. PICK log :
         /\ Fits(log) /\ log \subseteq Trails /\ table \in Seq(Entries(log))
         /\ \A f \in flights : Leaves(f, log)
         /\ \A f : pc = "resend" /\ f = resend =>
                      Leaves(f, log) /\ f.header.protocol \in SendSockets
         /\ socket \in [SendSockets -> SocketsOf(log)]
         /\ \A k \in SendSockets : Reported(socket[k])
  BY Opening
<1>2. asked \in Settings /\ AnswersFit /\ missed = {}
  BY Opening
<1>3. /\ UNCHANGED <<asked, pc, mode, caps, sctp, nextSequence, socket, resend, sent>>
      /\ pc = "drain"
  BY DEF Receive
<1>4. PICK f \in flights : \E m \in Errors(f) \cup Rewritten(f) \cup Echoes(f) :
         flights' = flights \ {f} /\ Deliver(m, TRUE, DecodeMpls(m.objects))
  BY DEF Receive
<1>5. PICK m \in Errors(f) \cup Rewritten(f) \cup Echoes(f) :
         flights' = flights \ {f} /\ Deliver(m, TRUE, DecodeMpls(m.objects))
  BY <1>4
<1>6. Leaves(f, log)
  BY <1>1
<1>7. Tells(m) /\ Heard(m, log, TRUE)
  BY <1>2, <1>1, <1>6, DrawsHeard
<1>8. m.objects = Objects[m.from]
  BY <1>7 DEF Tells
<1>9. table' \in Seq(Entries(log)) /\ AnswersFit' /\ missed' = {}
  <2> DEFINE labels == DecodeMpls(m.objects)
             yes    == TRUE
  <2>1. /\ labels = DecodeMpls(Objects[m.from]) /\ Deliver(m, yes, labels)
        /\ Heard(m, log, yes)
    BY <1>5, <1>7, <1>8
  <2> HIDE DEF labels, yes
  <2>. QED BY <1>1, <1>2, <1>3, <1>7, <2>1, DeliverFits
<1>10. /\ socket' \in [SendSockets -> SocketsOf(log)]
       /\ \A k \in SendSockets : \A r : r = socket'[k] => Reported(r)
  BY <1>1, <1>3, SameSocket
<1>. QED BY <1>1, <1>3, <1>5, <1>9, <1>10, Closing

LEMMA ForeignKeeps ==
    ASSUME IInv, ReceiveForeign
    PROVE  IInv'
<1>1. PICK log :
         /\ Fits(log) /\ log \subseteq Trails /\ table \in Seq(Entries(log))
         /\ \A f \in flights : Leaves(f, log)
         /\ \A f : pc = "resend" /\ f = resend =>
                      Leaves(f, log) /\ f.header.protocol \in SendSockets
         /\ socket \in [SendSockets -> SocketsOf(log)]
         /\ \A k \in SendSockets : Reported(socket[k])
  BY Opening
<1>2. asked \in Settings /\ AnswersFit /\ missed = {}
  BY Opening
<1>3. /\ UNCHANGED <<asked, pc, mode, caps, sctp, nextSequence, socket, resend, sent, flights>>
      /\ pc = "drain" /\ IsRaw
  BY DEF ReceiveForeign
<1>4. PICK h \in OtherHeaders :
         Deliver(Message("exceeded", Router, h, 0), TRUE, DecodeMpls(Objects[Router]))
  BY DEF ReceiveForeign
<1> DEFINE m      == Message("exceeded", Router, h, 0)
           labels == DecodeMpls(Objects[Router])
           yes    == TRUE
<1>5. Tells(m) /\ m.header = h /\ m.of = 0 /\ m.from = Router
  <2>1. "exceeded" \in Says /\ Router \in {Target, Router}
    BY DEF Says
  <2>2. LET n == Message("exceeded", Router, h, 0) IN Tells(n) /\ n.header = h /\ n.of = 0
    BY <1>2, <2>1, MessageTells
  <2>3. m.from = Router
    BY DEF Message
  <2>. QED BY <2>2, <2>3
<1>6. Heard(m, log, yes)
  BY <1>5 DEF Heard
<1>7. table' \in Seq(Entries(log)) /\ AnswersFit' /\ missed' = {}
  <2>1. /\ labels = DecodeMpls(Objects[m.from]) /\ Deliver(m, yes, labels)
    BY <1>4, <1>5
  <2> HIDE DEF labels, yes, m
  <2>. QED BY <1>1, <1>2, <1>3, <1>5, <1>6, <2>1, DeliverFits
<1>8. /\ socket' \in [SendSockets -> SocketsOf(log)]
      /\ \A k \in SendSockets : \A r : r = socket'[k] => Reported(r)
  BY <1>1, <1>3, SameSocket
<1>. QED BY <1>1, <1>3, <1>7, <1>8, Closing

\* What may wait on an error queue is about a probe of the log.
LEMMA WaitsHeard ==
    ASSUME asked \in Settings, NEW log, log \subseteq Trails, NEW m \in Messages(log),
           NEW addressed
    PROVE  Tells(m) /\ Heard(m, log, addressed)
<1>1. PICK says \in {"exceeded", "port", "other"}, from \in {Target, Router},
           x \in log, sum \in Sums \cup {0} :
              m = Message(says, from, HeaderOf(x, sum), x.token)
  BY DEF Messages
<1>2. says \in Says
  BY DEF Says
<1>3. Tells(m) /\ m.header = HeaderOf(x, sum) /\ m.of = x.token
  <2> DEFINE h == HeaderOf(x, sum)
  <2>1. m = Message(says, from, h, x.token)
    BY <1>1
  <2> HIDE DEF h
  <2>2. Tells(m) /\ m.header = h /\ m.of = x.token
    BY <1>2, <2>1, MessageTells
  <2>. QED BY <2>2 DEF h
<1>4. x \in Trails
  OBVIOUS
<1>5. m.header.src = Source /\ m.header.dst = Target
  BY <1>3, <1>4, HeaderIs
<1>6. Quotes(m.header, x)
  BY <1>3 DEF Quotes
<1>. QED BY <1>3, <1>5, <1>6 DEF Heard

\* An error that a datagram draws fits the queue of its socket.
LEMMA ErrorWaits ==
    ASSUME asked \in Settings, NEW log, log \subseteq Trails, NEW f, Leaves(f, log),
           NEW m \in Errors(f)
    PROVE  m \in Messages(log) /\ m.says \in {"exceeded", "port", "other"}
<1>1. PICK x \in log, sum \in Sums \cup {0} :
         f.token = x.token /\ f.header = HeaderOf(x, sum)
  BY DEF Leaves
<1>2. PICK says \in {"exceeded", "port", "other"}, from \in {Target, Router} :
         m = Message(says, from, f.header, f.token)
  <2>1. \/ m = Message("exceeded", Router, f.header, f.token)
        \/ m = Message("other", Router, f.header, f.token)
        \/ m = Message("port", Target, f.header, f.token)
    BY DEF Errors
  <2>. QED BY <2>1
<1>3. m = Message(says, from, HeaderOf(x, sum), x.token)
  BY <1>1, <1>2
<1>4. m \in Messages(log)
  BY <1>3 DEF Messages
<1>5. m.says = says
  BY <1>2 DEF Message
<1>. QED BY <1>4, <1>5

LEMMA ErrorArrivesKeeps ==
    ASSUME IInv, ErrorArrives
    PROVE  IInv'
<1>1. PICK log :
         /\ Fits(log) /\ log \subseteq Trails /\ table \in Seq(Entries(log))
         /\ \A f \in flights : Leaves(f, log)
         /\ \A f : pc = "resend" /\ f = resend =>
                      Leaves(f, log) /\ f.header.protocol \in SendSockets
         /\ socket \in [SendSockets -> SocketsOf(log)]
         /\ \A k \in SendSockets : Reported(socket[k])
  BY Opening
<1>2. asked \in Settings /\ AnswersFit /\ missed = {}
  BY Opening
<1>3. /\ UNCHANGED <<asked, pc, mode, caps, sctp, table, nextSequence, resend, sent, answers,
                     missed>>
      /\ pc \notin {"start", "ended", "fatal"} /\ ~IsRaw
  BY DEF ErrorArrives
<1>4. PICK f \in flights : \E m \in Errors(f) :
          /\ f.header.protocol \in SendSockets
          /\ flights' = flights \ {f}
          /\ \E errno \in (CASE m.says = "port"     -> {"ECONNREFUSED"}
                              [] m.says = "exceeded" -> {"EHOSTUNREACH"}
                              [] m.says = "other"    -> UnreachableErrors) :
             LET s == socket[f.header.protocol] IN
             socket' = [socket EXCEPT ![f.header.protocol] =
                           [s EXCEPT !.error = errno,
                                     !.queue = Append(@, [message |-> m, left |-> FALSE])]]
  BY DEF ErrorArrives
<1> DEFINE key == f.header.protocol
           s   == socket[key]
<1>5. PICK m \in Errors(f) :
          /\ key \in SendSockets
          /\ flights' = flights \ {f}
          /\ \E errno \in (CASE m.says = "port"     -> {"ECONNREFUSED"}
                              [] m.says = "exceeded" -> {"EHOSTUNREACH"}
                              [] m.says = "other"    -> UnreachableErrors) :
             socket' = [socket EXCEPT ![key] =
                           [s EXCEPT !.error = errno,
                                     !.queue = Append(@, [message |-> m, left |-> FALSE])]]
  BY <1>4
<1>6. PICK errno \in (CASE m.says = "port"     -> {"ECONNREFUSED"}
                         [] m.says = "exceeded" -> {"EHOSTUNREACH"}
                         [] m.says = "other"    -> UnreachableErrors) :
             socket' = [socket EXCEPT ![key] =
                           [s EXCEPT !.error = errno,
                                     !.queue = Append(@, [message |-> m, left |-> FALSE])]]
  BY <1>5
<1>7. m \in Messages(log) /\ m.says \in {"exceeded", "port", "other"}
  BY <1>1, <1>2, ErrorWaits
<1>8. errno \in {None} \cup UnreachableErrors \cup QueueErrors
  <2>1. errno \in {"ECONNREFUSED"} \cup {"EHOSTUNREACH"} \cup UnreachableErrors
    BY <1>6, <1>7
  <2>. QED BY <2>1 DEF QueueErrors
<1> DEFINE new == [s EXCEPT !.error = errno,
                            !.queue = Append(@, [message |-> m, left |-> FALSE])]
<1>9. new \in SocketsOf(log) /\ Reported(new)
  <2> DEFINE W == Waiting(log)
             w == [message |-> m, left |-> FALSE]
             E == {None} \cup UnreachableErrors \cup QueueErrors
  <2>1. s \in SocketsOf(log)
    BY <1>1, <1>5
  <2>2. s \in [device : {None, asked.device}, bound : BOOLEAN, tos : Nat, ttl : Nat,
               error : E, queue : Seq(W)]
    BY <2>1 DEF SocketsOf
  <2>3. w \in W
    BY <1>7 DEF Waiting
  <2>4. s.queue \in Seq(W)
    <3> HIDE DEF W, s, E
    <3>. QED BY <2>2
  <2>5. Append(s.queue, w) \in Seq(W) /\ Append(s.queue, w) # <<>>
    <3> HIDE DEF w, W, s
    <3>1. Append(s.queue, w) \in Seq(W) /\ Len(Append(s.queue, w)) = Len(s.queue) + 1
      BY <2>3, <2>4
    <3>2. Len(s.queue) \in Nat
      BY <2>4
    <3>. QED BY <3>1, <3>2
  <2>6. new = [s EXCEPT !.error = errno, !.queue = Append(s.queue, w)]
    <3> HIDE DEF w, W, s, E
    <3>. QED BY <2>2 DEF w
  <2>7. errno \in E
    BY <1>8
  <2> DEFINE q == Append(s.queue, w)
  <2> HIDE DEF w, W, s, E, q
  <2>8. /\ [s EXCEPT !.error = errno, !.queue = q] \in
              [device : {None, asked.device}, bound : BOOLEAN, tos : Nat, ttl : Nat,
               error : E, queue : Seq(W)]
        /\ [s EXCEPT !.error = errno, !.queue = q].queue = q
    BY <2>2, <2>5, <2>7 DEF q
  <2>9. new = [s EXCEPT !.error = errno, !.queue = q]
    BY <2>6 DEF q
  <2>10. new \in SocketsOf(log)
    BY <2>8, <2>9 DEF SocketsOf, W, E
  <2>11. new.queue = q /\ q # <<>>
    BY <2>5, <2>8, <2>9 DEF q
  <2> HIDE DEF new
  <2>. QED BY <1>3, <2>10, <2>11 DEF Reported
<1>10. socket' = [socket EXCEPT ![key] = new]
  BY <1>6
<1>11. /\ socket' \in [SendSockets -> SocketsOf(log)]
       /\ \A k \in SendSockets : \A r : r = socket'[k] => Reported(r)
  <2> HIDE DEF new, key
  <2>. QED BY <1>1, <1>5, <1>9, <1>10, SetSocket
<1>12. AnswersFit'
  BY <1>2, <1>3, SameAnswers
<1>. QED BY <1>1, <1>2, <1>3, <1>5, <1>11, <1>12, Closing

LEMMA ReadKeeps ==
    ASSUME IInv, NEW key \in SendSockets, ReadErrorQueue(key)
    PROVE  IInv'
<1>1. PICK log :
         /\ Fits(log) /\ log \subseteq Trails /\ table \in Seq(Entries(log))
         /\ \A f \in flights : Leaves(f, log)
         /\ \A f : pc = "resend" /\ f = resend =>
                      Leaves(f, log) /\ f.header.protocol \in SendSockets
         /\ socket \in [SendSockets -> SocketsOf(log)]
         /\ \A k \in SendSockets : Reported(socket[k])
  BY Opening
<1>2. asked \in Settings /\ AnswersFit /\ missed = {}
  BY Opening
<1> DEFINE s == socket[key]
<1>3. /\ UNCHANGED <<asked, mode, caps, sctp, nextSequence, resend, sent, flights>>
      /\ pc = "drain" /\ Unread(s)
  BY DEF ReadErrorQueue
<1>4. s \in SocketsOf(log) /\ Reported(s)
  BY <1>1
<1>5. s.queue # <<>> /\ ~IsRaw
  <2> HIDE DEF s
  <2>. QED BY <1>3, <1>4 DEF Unread, Reported
<1>6. CASE /\ socket' = [socket EXCEPT ![key] =
                            [s EXCEPT !.error = None, !.queue = Tail(@)]]
           /\ Deliver(Head(s.queue).message, FALSE, <<>>)
           /\ UNCHANGED pc
  <2> DEFINE W   == Waiting(log)
             E   == {None} \cup UnreachableErrors \cup QueueErrors
             new == [s EXCEPT !.error = None, !.queue = Tail(@)]
             m   == Head(s.queue).message
  <2>1. s \in [device : {None, asked.device}, bound : BOOLEAN, tos : Nat, ttl : Nat,
               error : E, queue : Seq(W)]
    BY <1>4 DEF SocketsOf
  <2>2. s.queue \in Seq(W)
    <3> HIDE DEF W, s, E
    <3>. QED BY <2>1
  <2>3. Head(s.queue) \in W /\ Tail(s.queue) \in Seq(W)
    <3> HIDE DEF W, s
    <3>. QED BY <1>5, <2>2
  <2>4. m \in Messages(log)
    BY <2>3 DEF Waiting
  <2>5. new \in SocketsOf(log) /\ Reported(new)
    <3> DEFINE q == Tail(s.queue)
    <3>1. new = [s EXCEPT !.error = None, !.queue = q]
      <4> HIDE DEF W, s, E
      <4>. QED BY <2>1 DEF q
    <3>2. q \in Seq(W) /\ None \in E
      BY <2>3
    <3>3. /\ [s EXCEPT !.error = None, !.queue = q] \in
                [device : {None, asked.device}, bound : BOOLEAN, tos : Nat, ttl : Nat,
                 error : E, queue : Seq(W)]
          /\ [s EXCEPT !.error = None, !.queue = q].error = None
      <4> HIDE DEF W, s, E, q
      <4>. QED BY <2>1, <3>2
    <3>4. new \in SocketsOf(log)
      BY <3>1, <3>3 DEF SocketsOf
    <3>5. new.error = None
      BY <3>1, <3>3
    <3> HIDE DEF new
    <3>. QED BY <1>5, <3>4, <3>5 DEF Reported
  <2>6. /\ socket' \in [SendSockets -> SocketsOf(log)]
        /\ \A k \in SendSockets : \A r : r = socket'[k] => Reported(r)
    <3>1. socket' = [socket EXCEPT ![key] = new]
      BY <1>6
    <3> HIDE DEF new
    <3>. QED BY <1>1, <2>5, <3>1, SetSocket
  <2>7. table' \in Seq(Entries(log)) /\ AnswersFit' /\ missed' = {}
    <3> DEFINE labels == <<>>
               no     == FALSE
    <3>1. labels \in {<<>>, DecodeMpls(Objects[m.from])} /\ Deliver(m, no, labels)
      BY <1>6
    <3> HIDE DEF labels, no, m
    <3>2. Tells(m) /\ Heard(m, log, no)
      BY <1>1, <1>2, <2>4, WaitsHeard
    <3>. QED BY <1>1, <1>2, <1>3, <1>5, <3>1, <3>2, DeliverFits
  <2>. QED BY <1>1, <1>3, <1>6, <2>6, <2>7, Closing
<1>7. CASE pc' = "fatal" /\ UNCHANGED <<socket, table, answers, missed>>
  <2>1. /\ socket' \in [SendSockets -> SocketsOf(log)]
        /\ \A k \in SendSockets : \A r : r = socket'[k] => Reported(r)
    BY <1>1, <1>7, SameSocket
  <2>2. AnswersFit'
    BY <1>2, <1>3, <1>7, SameAnswers
  <2>. QED BY <1>1, <1>2, <1>3, <1>7, <2>1, <2>2, Closing
<1>. QED BY <1>6, <1>7 DEF ReadErrorQueue

\* An answer without a message behind it that only says the target was reached.
LEMMA ReachedReads ==
    ASSUME asked \in Settings, NEW t
    PROVE  ParseResponse(EncodeResponse(Response(t, "reply", Host(Target), <<>>, None))).kind
              # "permission-denied"
<1> DEFINE kind   == "reply"
           addr   == Host(Target)
           labels == <<>>
           r      == Response(t, kind, addr, labels, None)
<1>1. kind \in ResultNames /\ kind # "permission-denied"
  BY DEF ResultNames
<1>2. addr # None
  <2>1. addr \in [family : Families, host : {Target, Router}]
    BY SettingsAssumption DEF Host
  <2>. QED BY <2>1, NoneAssumption
<1>3. labels \in Labels /\ Len(labels) <= MaxLabels
  BY WireAssumption DEF Labels
<1> HIDE DEF kind, addr, labels
<1>4. ParseResponse(EncodeResponse(r)) = r
  BY <1>1, <1>2, <1>3, ResultReads
<1>5. r.kind = kind
  BY DEF Response
<1>. QED BY <1>1, <1>4, <1>5 DEF kind, addr, labels

\* The entry of the table is that of a probe the engine has drawn.
LEMMA TableTokens ==
    ASSUME NEW log, log \subseteq Trails, table \in Seq(Entries(log)), NEW i \in DOMAIN table
    PROVE  table[i].token \in Tokens /\ table[i].remote.host = Target
<1>1. PICK y \in log : table[i] = EntryOf(y)
  BY TableHolds
<1>2. y.token \in Tokens
  BY DEF Trails
<1>. QED BY <1>1, <1>2, EntryIs

LEMMA ConnectedKeeps ==
    ASSUME IInv, NEW i \in DOMAIN table, Connected(i)
    PROVE  IInv'
<1>1. PICK log :
         /\ Fits(log) /\ log \subseteq Trails /\ table \in Seq(Entries(log))
         /\ \A f \in flights : Leaves(f, log)
         /\ \A f : pc = "resend" /\ f = resend =>
                      Leaves(f, log) /\ f.header.protocol \in SendSockets
         /\ socket \in [SendSockets -> SocketsOf(log)]
         /\ \A k \in SendSockets : Reported(socket[k])
  BY Opening
<1>2. asked \in Settings /\ AnswersFit /\ missed = {}
  BY Opening
<1>3. /\ UNCHANGED <<asked, mode, caps, sctp, nextSequence, socket, resend, sent, flights, missed>>
      /\ pc = "drain" /\ table' = WithoutEntry(i)
  BY DEF Connected
<1> DEFINE t == table[i].token
<1>4. t \in Tokens /\ table[i].remote.host = Target
  BY <1>1, TableTokens
<1>5. AnswersFit' /\ pc' \in {"drain", "ended"}
  <2>1. CASE /\ Answered(t, Response(t, "reply", Host(table[i].remote.host), <<>>, None),
                         None, 0, None)
             /\ UNCHANGED pc
    <3> DEFINE r == Response(t, "reply", Host(Target), <<>>, None)
    <3>1. Answered(t, r, None, 0, None)
      BY <1>4, <2>1
    <3>2. ParseResponse(EncodeResponse(r)).kind # "permission-denied"
      <4> HIDE DEF t
      <4>. QED BY <1>2, ReachedReads
    <3> HIDE DEF r, t
    <3>3. AnswersFit'
      BY <1>2, <1>3, <1>4, <3>1, <3>2, PlainAnswer
    <3>. QED BY <1>3, <2>1, <3>3
  <2>2. ASSUME NEW errno \in SendErrors,
               Answered(t, ErrorResponse(t, errno), None, 0, errno),
               pc' = NextStep(ErrorResponse(t, errno), pc)
        PROVE  AnswersFit' /\ pc' \in {"drain", "ended"}
    <3>1. errno # "EPERM"
      BY <2>2, ProbePathAssumption
    <3>2. pc' \in {"drain", "ended"}
      BY <1>3, <2>2 DEF NextStep
    <3> HIDE DEF t
    <3>. QED BY <1>2, <1>3, <1>4, <2>2, <3>1, <3>2, FailureAnswer
  <2>. QED BY <2>1, <2>2 DEF Connected
<1>6. table' \in Seq(Entries(log))
  BY <1>1, <1>3, FewerFits
<1>7. /\ socket' \in [SendSockets -> SocketsOf(log)]
      /\ \A k \in SendSockets : \A r : r = socket'[k] => Reported(r)
  BY <1>1, <1>3, SameSocket
<1>. QED BY <1>1, <1>2, <1>3, <1>5, <1>6, <1>7, Closing

\* Nothing is left on a queue when the sockets are drained.
LEMMA DrainEndsKeeps ==
    ASSUME IInv, DrainEnds
    PROVE  IInv'
<1>1. PICK log :
         /\ Fits(log) /\ log \subseteq Trails /\ table \in Seq(Entries(log))
         /\ \A f \in flights : Leaves(f, log)
         /\ \A f : pc = "resend" /\ f = resend =>
                      Leaves(f, log) /\ f.header.protocol \in SendSockets
         /\ socket \in [SendSockets -> SocketsOf(log)]
         /\ \A k \in SendSockets : Reported(socket[k])
  BY Opening
<1>2. asked \in Settings /\ AnswersFit /\ missed = {}
  BY Opening
<1>3. /\ UNCHANGED <<asked, mode, caps, sctp, table, nextSequence, resend, sent, flights, answers,
                     missed>>
      /\ pc = "drain" /\ pc' = "expire" /\ \A k \in SendSockets : ~Unread(socket[k])
  BY DEF DrainEnds
<1>4. ASSUME NEW k \in SendSockets
      PROVE  socket'[k] = socket[k]
  <2> DEFINE s == socket[k]
             marked == [j \in DOMAIN s.queue |-> [s.queue[j] EXCEPT !.left = TRUE]]
  <2>1. s.queue = <<>>
    BY <1>3 DEF Unread
  <2>2. marked = <<>>
    <3>1. DOMAIN s.queue = 1..0
      BY <2>1
    <3> DEFINE n == 0
               T == DOMAIN s.queue
    <3>2. T = 1..n /\ \A j \in T : FALSE
      BY <3>1
    <3>3. n \in Nat
      OBVIOUS
    <3> HIDE DEF T, n
    <3>4. [j \in T |-> [s.queue[j] EXCEPT !.left = TRUE]] \in [1..n -> {}]
      BY <3>2
    <3>5. marked \in Seq({}) /\ DOMAIN marked = 1..n
      BY <3>3, <3>4, <3>2 DEF T
    <3> HIDE DEF marked
    <3>6. Len(marked) = n
      BY <3>3, <3>5
    <3>. QED BY <3>5, <3>6 DEF n
  <2>3. s \in SocketsOf(log)
    BY <1>1
  <2>4. socket'[k] = [s EXCEPT !.queue = marked]
    BY DEF DrainEnds
  <2> DEFINE Q == Seq(Waiting(log))
             E == {None} \cup UnreachableErrors \cup QueueErrors
  <2>5. s \in [device : {None, asked.device}, bound : BOOLEAN, tos : Nat, ttl : Nat,
               error : E, queue : Q]
    BY <2>3 DEF SocketsOf
  <2> HIDE DEF s, marked, Q, E
  <2>6. [s EXCEPT !.queue = s.queue] = s
    BY <2>5
  <2>. QED BY <2>1, <2>2, <2>4, <2>6 DEF s
<1>5. socket' = socket
  <2>1. /\ socket = [k \in SendSockets |-> socket[k]]
        /\ socket' = [k \in SendSockets |-> socket'[k]]
    BY <1>1 DEF DrainEnds
  <2>. QED BY <1>4, <2>1
<1>6. /\ socket' \in [SendSockets -> SocketsOf(log)]
      /\ \A k \in SendSockets : \A r : r = socket'[k] => Reported(r)
  BY <1>1, <1>5, SameSocket
<1>7. AnswersFit'
  BY <1>2, <1>3, SameAnswers
<1>. QED BY <1>1, <1>2, <1>3, <1>6, <1>7, Closing

LEMMA ExpireKeeps ==
    ASSUME IInv, NEW i \in DOMAIN table, Expire(i)
    PROVE  IInv'
<1>1. PICK log :
         /\ Fits(log) /\ log \subseteq Trails /\ table \in Seq(Entries(log))
         /\ \A f \in flights : Leaves(f, log)
         /\ \A f : pc = "resend" /\ f = resend =>
                      Leaves(f, log) /\ f.header.protocol \in SendSockets
         /\ socket \in [SendSockets -> SocketsOf(log)]
         /\ \A k \in SendSockets : Reported(socket[k])
  BY Opening
<1>2. asked \in Settings /\ AnswersFit /\ missed = {}
  BY Opening
<1> DEFINE t == table[i].token
<1>3. /\ UNCHANGED <<asked, pc, mode, caps, sctp, nextSequence, socket, resend, sent, flights>>
      /\ pc = "expire" /\ table' = WithoutEntry(i)
      /\ Answered(t, Bare(t, "no-reply"), None, 0, None)
      /\ missed' = IF LeftUnread(t) THEN missed \cup {t} ELSE missed
  BY DEF Expire
<1>4. t \in Tokens
  BY <1>1, TableTokens
<1>5. AnswersFit'
  <2> DEFINE kind == "no-reply"
             r    == Bare(t, kind)
  <2>1. kind \in PlainNames \cup {"no-route-host"} /\ kind # "permission-denied"
    BY DEF PlainNames
  <2>2. Answered(t, r, None, 0, None)
    BY <1>3
  <2> HIDE DEF kind, t
  <2>3. r.token = t /\ r.kind = kind /\ r.addr = None /\ r.detail = None
    BY DEF Bare, Response
  <2> HIDE DEF r
  <2>4. ParseResponse(EncodeResponse(r)) = Bare(t, kind)
    BY <2>1, <2>3, BareReads
  <2>5. ParseResponse(EncodeResponse(r)).kind # "permission-denied"
    BY <2>1, <2>4 DEF Bare, Response
  <2>. QED BY <1>2, <1>3, <1>4, <2>2, <2>5, PlainAnswer
<1>6. ~LeftUnread(t)
  <2> SUFFICES ASSUME NEW k \in SendSockets, NEW j \in DOMAIN socket[k].queue,
                      socket[k].queue[j].left
               PROVE  FALSE
    BY DEF LeftUnread
  <2> DEFINE q == socket[k].queue
             W == Waiting(log)
  <2>1. socket[k] \in SocketsOf(log)
    BY <1>1
  <2>2. q \in Seq(W)
    <3> DEFINE s == socket[k]
               E == {None} \cup UnreachableErrors \cup QueueErrors
    <3>1. s \in [device : {None, asked.device}, bound : BOOLEAN, tos : Nat, ttl : Nat,
                 error : E, queue : Seq(W)]
      BY <2>1 DEF SocketsOf
    <3> HIDE DEF s, E, W
    <3>2. s.queue \in Seq(W)
      BY <3>1
    <3>. QED BY <3>2 DEF s
  <2>3. j \in DOMAIN q
    OBVIOUS
  <2> HIDE DEF q, W
  <2>4. q[j] \in W
    BY <2>2, <2>3
  <2>5. q[j].left = FALSE
    BY <2>4 DEF W, Waiting
  <2>. QED BY <2>5 DEF q
<1>7. missed' = {}
  BY <1>2, <1>3, <1>6
<1>8. table' \in Seq(Entries(log))
  BY <1>1, <1>3, FewerFits
<1>9. /\ socket' \in [SendSockets -> SocketsOf(log)]
      /\ \A k \in SendSockets : \A r : r = socket'[k] => Reported(r)
  BY <1>1, <1>3, SameSocket
<1>. QED BY <1>1, <1>3, <1>5, <1>7, <1>8, <1>9, Closing

LEMMA StageKeeps ==
    ASSUME IInv, NextStage
    PROVE  IInv'
<1>1. PICK log :
         /\ Fits(log) /\ log \subseteq Trails /\ table \in Seq(Entries(log))
         /\ \A f \in flights : Leaves(f, log)
         /\ \A f : pc = "resend" /\ f = resend =>
                      Leaves(f, log) /\ f.header.protocol \in SendSockets
         /\ socket \in [SendSockets -> SocketsOf(log)]
         /\ \A k \in SendSockets : Reported(socket[k])
  BY Opening
<1>2. asked \in Settings /\ AnswersFit /\ missed = {}
  BY Opening
<1>3. /\ UNCHANGED <<asked, mode, caps, sctp, table, nextSequence, socket, resend, sent, flights,
                     answers, missed>>
      /\ pc \in {"expire", "dispatch"} /\ pc' \in {"dispatch", "drain"}
  BY DEF NextStage
<1>4. /\ socket' \in [SendSockets -> SocketsOf(log)]
      /\ \A k \in SendSockets : \A r : r = socket'[k] => Reported(r)
  BY <1>1, <1>3, SameSocket
<1>5. AnswersFit'
  BY <1>2, <1>3, SameAnswers
<1>. QED BY <1>1, <1>2, <1>3, <1>4, <1>5, Closing

LEMMA StutterKeeps ==
    ASSUME IInv, UNCHANGED vars
    PROVE  IInv'
<1>1. PICK log :
         /\ Fits(log) /\ log \subseteq Trails /\ table \in Seq(Entries(log))
         /\ \A f \in flights : Leaves(f, log)
         /\ \A f : pc = "resend" /\ f = resend =>
                      Leaves(f, log) /\ f.header.protocol \in SendSockets
         /\ socket \in [SendSockets -> SocketsOf(log)]
         /\ \A k \in SendSockets : Reported(socket[k])
  BY Opening
<1>2. asked \in Settings /\ AnswersFit /\ missed = {}
  BY Opening
<1>3. UNCHANGED <<asked, pc, mode, caps, sctp, table, nextSequence, socket, resend, sent, flights,
                 answers, missed>>
  BY DEF vars
<1>4. AnswersFit'
  BY <1>2, <1>3, SameAnswers
<1>5. /\ socket' \in [SendSockets -> SocketsOf(log)]
      /\ \A k \in SendSockets : \A r : r = socket'[k] => Reported(r)
  BY <1>1, <1>3, SameSocket
<1>6. asked \in Settings /\ Counts /\ Quiet /\ Able
  BY DEF IInv
<1>7. Counts' /\ Quiet' /\ Able'
  BY <1>3, <1>6 DEF Counts, Quiet, Able
<1>8. Drawn(log)'
  BY <1>1, <1>3, SameDrawn DEF Fits
<1>9. Fits(log)'
  BY <1>1, <1>3, <1>5, <1>8, Refit
<1>. QED BY <1>2, <1>3, <1>4, <1>6, <1>7, <1>9 DEF IInv

-----------------------------------------------------------------------------
(* The numbers that are drawn *)

LEMMA ProductOrder ==
    ASSUME NEW m \in Nat, NEW n \in Nat, NEW w \in Nat, m <= n
    PROVE  m * w <= n * w
OBVIOUS

LEMMA SmallRemainder ==
    ASSUME NEW n \in Nat, NEW r \in Nat, n < r
    PROVE  n % r = n
OBVIOUS

\* The range is never left: there is a number for every probe and every port it
\* skips.
LEMMA NextNumber ==
    ASSUME Counts, sent < MaxTokens, NEW skipped \in 0..MaxSkipped
    PROVE  /\ After(skipped) \in Ports /\ nextSequence <= After(skipped)
           /\ sent + 1 < MaxTokens =>
                 /\ After(skipped + 1) = After(skipped) + 1
                 /\ After(skipped + 1) \in MinPort..(MinPort + (sent + 1) * (MaxSkipped + 1))
<1> DEFINE w == MaxSkipped + 1
           r == MaxPort - MinPort + 1
           n == nextSequence - MinPort
<1>1. /\ MaxTokens \in Nat /\ w \in Nat \ {0} /\ MinPort \in Nat /\ MaxPort \in Nat
      /\ MinPort + MaxTokens * w <= MaxPort + 1 /\ sent \in Nat
      /\ skipped \in Nat /\ skipped + 1 <= w
  BY ProbePathAssumption DEF Counts
<1>2. nextSequence \in MinPort..(MinPort + sent * w)
  BY DEF Counts
<1> DEFINE p == MaxTokens * w
           q == sent * w
           v == (sent + 1) * w
<1>3. v = q + w
  <2> HIDE DEF w
  <2>. QED BY <1>1
<1>4. v <= p
  <2>1. sent + 1 \in Nat /\ sent + 1 <= MaxTokens
    BY <1>1
  <2> HIDE DEF w
  <2>. QED BY <1>1, <2>1, ProductOrder
<1>5. p \in Nat /\ q \in Nat
  <2> HIDE DEF w
  <2>. QED BY <1>1
<1>6. sent + 1 < MaxTokens => v + w <= p
  <2>1. SUFFICES ASSUME sent + 1 < MaxTokens PROVE v + w <= p
    OBVIOUS
  <2>2. sent + 2 \in Nat /\ sent + 2 <= MaxTokens
    BY <1>1, <2>1
  <2> HIDE DEF w
  <2>3. (sent + 2) * w <= MaxTokens * w
    BY <1>1, <2>2, ProductOrder
  <2>4. (sent + 2) * w = v + w
    BY <1>1
  <2>. QED BY <2>3, <2>4
<1>7. /\ MinPort + p <= MaxPort + 1 /\ nextSequence \in MinPort..(MinPort + q)
  BY <1>1, <1>2
<1>8. After(skipped) = MinPort + ((n + skipped) % r)
      /\ After(skipped + 1) = MinPort + ((n + (skipped + 1)) % r)
  BY DEF After
<1>9. n \in Nat /\ n <= q /\ r \in Nat /\ p <= r
  <2> HIDE DEF w, p, q, v
  <2>. QED BY <1>1, <1>5, <1>7
<1> HIDE DEF n, r, p, q, v, w
<1>10. n + skipped \in Nat /\ n + skipped < r
  BY <1>1, <1>3, <1>4, <1>5, <1>9
<1>11. After(skipped) = MinPort + (n + skipped)
  BY <1>8, <1>10, <1>9, SmallRemainder
<1>12. After(skipped) \in Ports /\ nextSequence <= After(skipped)
  BY <1>1, <1>7, <1>10, <1>11, <1>5 DEF Ports, n, r
<1>13. ASSUME sent + 1 < MaxTokens
       PROVE  /\ After(skipped + 1) = After(skipped) + 1
              /\ After(skipped + 1) \in MinPort..(MinPort + v)
  <2>1. n + (skipped + 1) \in Nat /\ n + (skipped + 1) < r /\ n + (skipped + 1) <= v
    BY <1>1, <1>3, <1>5, <1>6, <1>9, <1>13
  <2>2. After(skipped + 1) = MinPort + (n + (skipped + 1))
    <3> DEFINE k == n + (skipped + 1)
    <3>1. k \in Nat /\ k < r /\ After(skipped + 1) = MinPort + (k % r)
      BY <1>8, <2>1
    <3>2. k % r = k
      <4> HIDE DEF k
      <4>. QED BY <1>9, <3>1, SmallRemainder
    <3>. QED BY <3>1, <3>2
  <2>. QED BY <1>1, <1>3, <1>5, <1>9, <1>11, <2>1, <2>2
<1>. QED BY <1>12, <1>13 DEF v, w

\* The log with the next probe in it.
LEMMA NextDrawn ==
    ASSUME Counts, sent < MaxTokens, NEW skipped \in 0..MaxSkipped, NEW log, Drawn(log),
           NEW protocol \in Protocols, sent' = sent + 1,
           nextSequence' = After(skipped + 1), NEW more, NEW x,
           x = [token |-> sent + 1, protocol |-> protocol, seq |-> After(skipped)],
           more = log \cup {x}
    PROVE  x \in Trails /\ Drawn(more)' /\ Counts'
<1>1. /\ After(skipped) \in Ports /\ nextSequence <= After(skipped)
      /\ sent + 1 < MaxTokens =>
            /\ After(skipped + 1) = After(skipped) + 1
            /\ After(skipped + 1) \in MinPort..(MinPort + (sent + 1) * (MaxSkipped + 1))
  BY NextNumber
<1>2. sent \in 0..MaxTokens /\ MaxTokens \in Nat /\ MinPort \in Nat /\ MaxPort \in Nat
  BY ProbePathAssumption DEF Counts
<1>3. sent + 1 \in Tokens
  BY <1>2 DEF Tokens
<1>4. x \in Trails
  BY <1>1, <1>3 DEF Trails
<1>5. ASSUME NEW y \in log
      PROVE  /\ y \in Trails /\ y.token \in Nat /\ y.seq \in Nat
             /\ y.token <= sent /\ y.seq < nextSequence
  BY <1>2 DEF Drawn, Trails, Tokens, Ports
<1>6. nextSequence \in Nat /\ After(skipped) \in Nat
  <2>1. nextSequence \in MinPort..(MinPort + sent * (MaxSkipped + 1))
    BY DEF Counts
  <2> DEFINE top == MinPort + sent * (MaxSkipped + 1)
  <2>2. nextSequence \in MinPort..top
    BY <2>1
  <2> HIDE DEF top
  <2>. QED BY <1>1, <1>2, <2>2 DEF Ports
<1>7. Separate(more)
  <2> SUFFICES ASSUME NEW y \in more, NEW z \in more, y.token = z.token \/ y.seq = z.seq
               PROVE  y = z
    BY DEF Separate
  <2>1. x.token = sent + 1 /\ x.seq = After(skipped)
    OBVIOUS
  <2>2. CASE y \in log /\ z \in log
    BY <2>2 DEF Drawn, Separate
  <2>3. CASE y \in log /\ z = x
    BY <1>1, <1>2, <1>5, <1>6, <2>1, <2>3
  <2>4. CASE y = x /\ z \in log
    BY <1>1, <1>2, <1>5, <1>6, <2>1, <2>4
  <2>. QED BY <2>2, <2>3, <2>4
<1>8. \A y \in more : /\ y.token <= sent + 1
                      /\ sent + 1 < MaxTokens => y.seq < nextSequence'
  <2> SUFFICES ASSUME NEW y \in more
               PROVE  /\ y.token <= sent + 1
                      /\ sent + 1 < MaxTokens => y.seq < nextSequence'
    OBVIOUS
  <2>1. x.token = sent + 1 /\ x.seq = After(skipped)
    OBVIOUS
  <2>2. CASE y \in log
    BY <1>1, <1>2, <1>5, <1>6, <2>2
  <2>3. CASE y = x
    BY <1>1, <1>2, <1>6, <2>1, <2>3
  <2>. QED BY <2>2, <2>3
<1>9. more \subseteq Trails
  BY <1>4, <1>5
<1>10. Drawn(more)'
  <2>1. \A y \in more : y.token <= sent' /\ (sent' < MaxTokens => y.seq < nextSequence')
    BY <1>8
  <2>. QED BY <1>7, <1>9, <2>1 DEF Drawn, Separate
<1>11. Counts'
  BY <1>1, <1>2 DEF Counts
<1>. QED BY <1>4, <1>10, <1>11

-----------------------------------------------------------------------------
(* Asking for a probe *)

\* What a turn that asks for a probe has to show.
LEMMA AskClosing ==
    ASSUME IInv, NEW log, Fits(log), NEW more, log \subseteq more,
           UNCHANGED <<asked, mode, caps, sctp, missed>>, pc = "dispatch", pc' # "start",
           Counts', Drawn(more)', AnswersFit', table' \in Seq(Entries(more)),
           \A f \in flights' : f \in flights \/ Leaves(f, more),
           \A f : pc' = "resend" /\ f = resend' =>
                     Leaves(f, more) /\ f.header.protocol \in SendSockets,
           socket' \in [SendSockets -> SocketsOf(more)],
           \A k \in SendSockets : \A s : s = socket'[k] => Reported(s)
    PROVE  IInv'
<1>1. asked \in Settings /\ Able /\ missed = {}
  BY DEF IInv
<1>2. Fits(more)'
  BY Refit
<1>3. Quiet' /\ Able'
  BY <1>1, Going
<1>. QED BY <1>1, <1>2, <1>3 DEF IInv

\* A request the helper refuses is answered at once, and draws no number.
LEMMA RefuseKeeps ==
    ASSUME IInv, UNCHANGED <<asked, mode, caps, sctp, missed>>, pc = "dispatch",
           sent < MaxTokens, sent' = sent + 1, NEW response, Refuse(sent + 1, response),
           ParseResponse(EncodeResponse(response)).kind # "permission-denied"
    PROVE  IInv'
<1>1. PICK log :
         /\ Fits(log) /\ log \subseteq Trails /\ table \in Seq(Entries(log))
         /\ \A f \in flights : Leaves(f, log)
         /\ \A f : pc = "resend" /\ f = resend =>
                      Leaves(f, log) /\ f.header.protocol \in SendSockets
         /\ socket \in [SendSockets -> SocketsOf(log)]
         /\ \A k \in SendSockets : Reported(socket[k])
  BY Opening
<1>2. asked \in Settings /\ AnswersFit /\ missed = {} /\ Counts
  BY Opening DEF IInv
<1>3. /\ UNCHANGED <<table, nextSequence, flights, socket, resend>>
      /\ pc' \in {"dispatch", "ended"}
      /\ Answered(sent + 1, response, None, 0, response.kind)
  BY DEF Refuse, NextStep
<1>4. sent \in 0..MaxTokens /\ MaxTokens \in Nat /\ sent + 1 \in Tokens
  BY <1>2, ProbePathAssumption DEF Counts, Tokens
<1>5. AnswersFit'
  <2> DEFINE t == sent + 1
             kind == response.kind
  <2>1. t \in Tokens /\ Answered(t, response, None, 0, kind)
    BY <1>3, <1>4
  <2> HIDE DEF t, kind
  <2>. QED BY <1>2, <2>1, PlainAnswer
<1>6. Counts'
  <2>1. ASSUME sent + 1 < MaxTokens
        PROVE  nextSequence \in MinPort..(MinPort + (sent + 1) * (MaxSkipped + 1))
    <3> DEFINE w == MaxSkipped + 1
               q == sent * w
               v == (sent + 1) * w
    <3>1. w \in Nat /\ MinPort \in Nat
      BY ProbePathAssumption
    <3>2. q \in Nat /\ v = q + w
      <4> HIDE DEF w
      <4>. QED BY <1>4, <3>1
    <3>3. nextSequence \in MinPort..(MinPort + q)
      BY <1>2 DEF Counts
    <3> HIDE DEF w, q, v
    <3>4. nextSequence \in MinPort..(MinPort + v)
      BY <3>1, <3>2, <3>3
    <3>. QED BY <3>4 DEF v, w
  <2>. QED BY <1>3, <1>4, <2>1 DEF Counts
<1>7. Drawn(log)'
  <2>1. Drawn(log)
    BY <1>1 DEF Fits
  <2>2. \A x \in log : x.token \in Nat
    BY <1>1 DEF Trails, Tokens
  <2>. QED BY <1>3, <1>4, <2>1, <2>2 DEF Drawn
<1>8. /\ socket' \in [SendSockets -> SocketsOf(log)]
      /\ \A k \in SendSockets : \A r : r = socket'[k] => Reported(r)
  BY <1>1, <1>3, SameSocket
<1>. QED BY <1>1, <1>3, <1>5, <1>6, <1>7, <1>8, AskClosing

LEMMA FailsFits ==
    ASSUME AnswersFit, UNCHANGED <<asked, mode>>, pc = "dispatch", NEW t \in Tokens,
           NEW errno, errno # "EPERM", NEW cause, Fails(t, errno, cause)
    PROVE  /\ AnswersFit' /\ pc' \in {"dispatch", "ended"}
           /\ UNCHANGED <<table, flights, resend>>
<1>1. AnswersFit'
  BY FailureAnswer DEF Fails
<1>. QED BY <1>1 DEF Fails, NextStep

LEMMA TableGrows ==
    ASSUME NEW log, NEW more, log \subseteq more, table \in Seq(Entries(log)),
           NEW x \in more, table' = Append(table, EntryOf(x))
    PROVE  table' \in Seq(Entries(more))
<1>1. table \in Seq(Entries(more))
  BY MoreEntries
<1>2. EntryOf(x) \in Entries(more)
  BY DEF Entries
<1> HIDE DEF Entries
<1>. QED BY <1>1, <1>2

\* The options and the ports are those that were asked for.
LEMMA FlightFits ==
    ASSUME asked \in Settings, NEW log, log \subseteq Trails, NEW x \in log,
           NEW sum \in Sums \cup {0}, NEW options, options.tos = asked.tos,
           options.ttl = x.token, options.device = asked.device, NEW size, NEW pattern,
           x.protocol \in SendSockets =>
              /\ pattern = asked.bitPattern
              /\ size + (IF IsRaw /\ asked.family = 6 THEN 40 ELSE 0) >= asked.size
    PROVE  LET f == Flight(EntryOf(x), HeaderOf(x, sum), options, size, pattern)
           IN  Leaves(f, log) /\ f.header.protocol = x.protocol
<1> DEFINE e == EntryOf(x)
           h == HeaderOf(x, sum)
           f == Flight(e, h, options, size, pattern)
<1>1. /\ f.token = e.token /\ f.header = h /\ f.tos = options.tos /\ f.ttl = options.ttl
      /\ f.device = options.device /\ f.size = size /\ f.pattern = pattern
  BY DEF Flight
<1>2. e.token = x.token /\ x \in Trails
  BY EntryIs
<1>3. h.protocol = x.protocol /\ h.src = Source /\ h.dst = Target
  BY <1>2, HeaderIs
<1>4. h.protocol # "icmp" /\ asked.port # 0 => h.dstPort = asked.port
  <2> SUFFICES ASSUME x.protocol # "icmp", asked.port # 0 PROVE h.dstPort = asked.port
    BY <1>3
  <2>1. CASE x.protocol = "udp"
    <3>1. /\ asked.port # 0 /\ asked.localPort # 0 => e.remote.port = asked.port
          /\ asked.port # 0 /\ asked.localPort = 0 => e.remote.port = asked.port
          /\ h.dstPort = e.remote.port
      BY <2>1, UdpEntryIs
    <3>. QED BY <3>1
  <2>2. CASE x.protocol # "udp"
    BY <2>2 DEF HeaderOf, Header, EntryOf, Entry, Asks
  <2>. QED BY <2>1, <2>2
<1>5. h.protocol = "udp" /\ asked.localPort # 0 => h.srcPort = asked.localPort
  <2> SUFFICES ASSUME x.protocol = "udp", asked.localPort # 0 PROVE h.srcPort = asked.localPort
    BY <1>3
  <2>1. /\ asked.port # 0 /\ asked.localPort # 0 => e.local.port = asked.localPort
        /\ asked.port = 0 => e.local.port = asked.localPort
        /\ h.srcPort = e.local.port
    BY UdpEntryIs
  <2>. QED BY <2>1
<1> HIDE DEF e, h, f
<1>6. LeftAsAsked(f)
  BY <1>1, <1>2, <1>3, <1>4, <1>5 DEF LeftAsAsked, Source
<1>7. f.token = x.token /\ f.header = HeaderOf(x, sum)
  BY <1>1, <1>2 DEF h
<1>8. Leaves(f, log)
  BY <1>6, <1>7 DEF Leaves
<1>. QED BY <1>1, <1>3, <1>8 DEF f, e, h

\* No privilege is wanting: the mark is asked for, and a socket is bound to one
\* device only.
LEMMA OptionsGranted ==
    ASSUME Able, asked \in Settings, pc = "dispatch", NEW t \in Nat, NEW protocol,
           NEW log, NEW s \in SocketsOf(log)
    PROVE  /\ OptionError(s, Asks(t, protocol)) = None
           /\ WithOptions(s, Asks(t, protocol)).tos = asked.tos
           /\ WithOptions(s, Asks(t, protocol)).ttl = t
           /\ WithOptions(s, Asks(t, protocol)).device = asked.device
           /\ WithOptions(s, Asks(t, protocol)).error = s.error
           /\ WithOptions(s, Asks(t, protocol)) \in SocketsOf(log)
           /\ WithOptions(s, Asks(t, protocol)).queue = s.queue
<1> DEFINE p   == Asks(t, protocol)
           Q   == Seq(Waiting(log))
           E   == {None} \cup UnreachableErrors \cup QueueErrors
           set == WithOptions(s, p)
<1>1. /\ p.mark = asked.mark /\ p.localDevice = asked.device /\ p.tos = asked.tos
      /\ p.ttl = t
  BY DEF Asks
<1>2. s \in [device : {None, asked.device}, bound : BOOLEAN, tos : Nat, ttl : Nat,
             error : E, queue : Q]
  BY DEF SocketsOf
<1>3. asked.tos \in Nat
  BY SettingsAssumption
<1> HIDE DEF p, Q, E, set
<1>4. s.device \in {None, asked.device}
  BY <1>2
<1>5. ~(p.mark # 0 /\ "admin" \notin caps)
  BY <1>1 DEF Able
<1>6. ~(p.localDevice \notin {None, s.device} /\ s.device # None)
  BY <1>1, <1>4
<1>7. OptionError(s, p) = None
  BY <1>5, <1>6 DEF OptionError
<1>8. set = [s EXCEPT !.device = asked.device, !.bound = TRUE, !.tos = asked.tos, !.ttl = t]
  BY <1>1, <1>4 DEF set, WithOptions, OrDefault
<1>9. /\ set.tos = asked.tos /\ set.ttl = t /\ set.device = asked.device
      /\ set.error = s.error /\ set.queue = s.queue
      /\ set \in [device : {None, asked.device}, bound : BOOLEAN, tos : Nat, ttl : Nat,
                  error : E, queue : Q]
  BY <1>2, <1>3, <1>8
<1>10. set \in SocketsOf(log)
  BY <1>9 DEF SocketsOf, Q, E
<1>. QED BY <1>7, <1>9, <1>10 DEF p, set

LEMMA StreamKeeps ==
    ASSUME IInv, UNCHANGED <<asked, mode, caps, sctp, missed>>, pc = "dispatch",
           sent < MaxTokens, sent' = sent + 1, NEW protocol \in Protocols,
           IsStream(protocol), NEW skipped \in 0..MaxSkipped,
           nextSequence' = After(skipped + 1),
           StartStream(Entry(sent + 1, Asks(sent + 1, protocol), After(skipped)),
                       Asks(sent + 1, protocol))
    PROVE  IInv'
<1>1. PICK log :
         /\ Fits(log) /\ log \subseteq Trails /\ table \in Seq(Entries(log))
         /\ \A f \in flights : Leaves(f, log)
         /\ \A f : pc = "resend" /\ f = resend =>
                      Leaves(f, log) /\ f.header.protocol \in SendSockets
         /\ socket \in [SendSockets -> SocketsOf(log)]
         /\ \A k \in SendSockets : Reported(socket[k])
  BY Opening
<1>2. asked \in Settings /\ AnswersFit /\ missed = {} /\ Counts /\ Able /\ Drawn(log)
  BY <1>1, Opening DEF IInv, Fits
<1>3. PICK x : x = [token |-> sent + 1, protocol |-> protocol, seq |-> After(skipped)]
  OBVIOUS
<1>4. PICK more : more = log \cup {x}
  OBVIOUS
<1>5. x \in Trails /\ Drawn(more)' /\ Counts'
  BY <1>2, <1>3, <1>4, NextDrawn
<1>6. log \subseteq more /\ x \in more /\ more \subseteq Trails
  BY <1>1, <1>4, <1>5
<1>7. x.token = sent + 1 /\ x.protocol = protocol /\ x.seq = After(skipped)
  BY <1>3
<1> DEFINE t == x.token
           p == Asks(x.token, x.protocol)
           e == EntryOf(x)
<1>8. e.token = t /\ t \in Tokens /\ t \in Nat
  BY <1>5, EntryIs DEF Trails, Tokens
<1>9. StartStream(e, p)
  BY <1>7 DEF EntryOf
<1> DEFINE own == WithOptions(FreshSocket, p)
<1>10. /\ OptionError(FreshSocket, p) = None
       /\ own.tos = asked.tos /\ own.ttl = t /\ own.device = asked.device
  <2>1. FreshSocket \in SocketsOf(log)
    BY FreshFits
  <2> DEFINE f == FreshSocket
  <2>2. f \in SocketsOf(log)
    BY <2>1
  <2> HIDE DEF f
  <2> DEFINE set == WithOptions(f, Asks(t, protocol))
  <2>3. /\ OptionError(f, Asks(t, protocol)) = None
        /\ set.tos = asked.tos /\ set.ttl = t /\ set.device = asked.device
    <3> HIDE DEF t
    <3>. QED BY <1>2, <1>8, <2>2, OptionsGranted
  <2>4. p = Asks(t, protocol)
    BY <1>7
  <2>. QED BY <2>3, <2>4 DEF f
<1>11. /\ socket' \in [SendSockets -> SocketsOf(more)]
       /\ \A k \in SendSockets : \A r : r = socket'[k] => Reported(r)
  <2>1. UNCHANGED socket
    BY <1>9 DEF StartStream
  <2>2. socket \in [SendSockets -> SocketsOf(more)]
    BY <1>1, <1>6, MoreSockets
  <2>. QED BY <1>1, <2>1, <2>2, SameSocket
<1>12. table \in Seq(Entries(more))
  BY <1>1, <1>6, MoreEntries
<1>13. CASE flights' = flights \cup {Flight(e, Header(e, p, 0), own, 0, 0)}
            /\ table' = Append(table, e) /\ UNCHANGED <<pc, answers>>
  <2> DEFINE zero == 0
             f == Flight(e, HeaderOf(x, zero), own, zero, zero)
  <2>1. Header(e, p, 0) = HeaderOf(x, zero)
    BY DEF HeaderOf
  <2>2. flights' = flights \cup {f}
    BY <1>13, <2>1
  <2>3. zero \in Sums \cup {0} /\ x.protocol \notin SendSockets
    BY <1>7 DEF IsStream, SendSockets
  <2>4. Leaves(f, more)
    <3> HIDE DEF zero, own
    <3>. QED BY <1>2, <1>6, <1>10, <2>3, FlightFits
  <2>5. table' \in Seq(Entries(more))
    BY <1>1, <1>6, <1>13, TableGrows
  <2>6. AnswersFit'
    BY <1>2, <1>13, SameAnswers
  <2> HIDE DEF f
  <2>. QED BY <1>1, <1>5, <1>6, <1>11, <1>13, <2>2, <2>4, <2>5, <2>6, AskClosing
<1>14. CASE /\ Answered(e.token, Response(e.token, "reply", Host(Target), <<>>, None), None, 0,
                        "ECONNREFUSED")
            /\ UNCHANGED <<pc, table, flights>>
  <2> DEFINE r == Response(t, "reply", Host(Target), <<>>, None)
             seq == 0
             error == "ECONNREFUSED"
  <2>1. Answered(t, r, None, seq, error)
    BY <1>8, <1>14
  <2>2. ParseResponse(EncodeResponse(r)).kind # "permission-denied"
    <3> HIDE DEF t
    <3>. QED BY <1>2, ReachedReads
  <2> HIDE DEF r, seq, error
  <2>3. AnswersFit'
    BY <1>2, <1>8, <2>1, <2>2, PlainAnswer
  <2>. QED BY <1>1, <1>5, <1>6, <1>11, <1>12, <1>14, <2>3, AskClosing
<1>15. ASSUME NEW errno \in SendErrors, Fails(e.token, errno, errno)
       PROVE  IInv'
  <2>1. errno # "EPERM"
    BY <1>15, ProbePathAssumption
  <2>2. Fails(t, errno, errno)
    BY <1>8, <1>15
  <2>3. /\ AnswersFit' /\ pc' \in {"dispatch", "ended"}
        /\ UNCHANGED <<table, flights, resend>>
    BY <1>2, <1>8, <2>1, <2>2, FailsFits
  <2>. QED BY <1>1, <1>5, <1>6, <1>11, <1>12, <2>3, AskClosing
<1>. QED BY <1>9, <1>10, <1>13, <1>14, <1>15 DEF StartStream

\* A datagram is no smaller than it was asked for.
LEMMA SizeFits ==
    ASSUME asked \in Settings, NEW t, NEW protocol, NEW size,
           size = PacketSize(Asks(t, protocol), IsRaw), size # None
    PROVE  size + (IF IsRaw /\ asked.family = 6 THEN 40 ELSE 0) >= asked.size
<1> DEFINE p      == Asks(t, protocol)
           ip     == CASE ~IsRaw -> 0 [] p.family = 4 -> 20 [] OTHER -> 40
           least  == ip + (IF p.protocol = "icmp" THEN 8 ELSE 12)
           header == IF IsRaw /\ p.family = 6 THEN 40 ELSE 0
           large  == Larger(least, p.size)
<1>1. p.family = asked.family /\ p.size = asked.size /\ asked.size \in Nat
  BY SettingsAssumption DEF Asks
<1>2. PacketSize(p, IsRaw) = IF large - header > PacketBufferSize THEN None ELSE large - header
  BY DEF PacketSize
<1>3. size = large - header
  BY <1>2
<1>4. header \in Nat
  OBVIOUS
<1>5. least \in Nat
  <2>1. IF p.protocol = "icmp" THEN 8 \in Nat ELSE 12 \in Nat
    OBVIOUS
  <2>2. ip = 0 \/ ip = 20 \/ ip = 40
    BY <1>1, SettingsAssumption DEF Families
  <2>. QED BY <2>2
<1> HIDE DEF header, least, p
<1>6. large >= p.size /\ large \in Nat
  BY <1>1, <1>5 DEF Larger
<1> HIDE DEF large
<1>7. size + header >= asked.size
  BY <1>1, <1>3, <1>4, <1>6
<1>. QED BY <1>1, <1>7 DEF header

LEMMA DatagramKeeps ==
    ASSUME IInv, UNCHANGED <<asked, mode, caps, sctp, missed>>, pc = "dispatch",
           sent < MaxTokens, sent' = sent + 1, NEW protocol \in Protocols,
           ~IsStream(protocol), NEW skipped \in 0..MaxSkipped,
           nextSequence' = After(skipped + 1),
           SendDatagram(Entry(sent + 1, Asks(sent + 1, protocol), After(skipped)),
                        Asks(sent + 1, protocol))
    PROVE  IInv'
<1>1. PICK log :
         /\ Fits(log) /\ log \subseteq Trails /\ table \in Seq(Entries(log))
         /\ \A f \in flights : Leaves(f, log)
         /\ \A f : pc = "resend" /\ f = resend =>
                      Leaves(f, log) /\ f.header.protocol \in SendSockets
         /\ socket \in [SendSockets -> SocketsOf(log)]
         /\ \A k \in SendSockets : Reported(socket[k])
  BY Opening
<1>2. asked \in Settings /\ AnswersFit /\ missed = {} /\ Counts /\ Able /\ Drawn(log)
  BY <1>1, Opening DEF IInv, Fits
<1>3. PICK x : x = [token |-> sent + 1, protocol |-> protocol, seq |-> After(skipped)]
  OBVIOUS
<1>4. PICK more : more = log \cup {x}
  OBVIOUS
<1>5. x \in Trails /\ Drawn(more)' /\ Counts'
  BY <1>2, <1>3, <1>4, NextDrawn
<1>6. log \subseteq more /\ x \in more /\ more \subseteq Trails
  BY <1>1, <1>4, <1>5
<1>7. x.token = sent + 1 /\ x.protocol = protocol /\ x.seq = After(skipped)
  BY <1>3
<1> DEFINE t == x.token
           p == Asks(x.token, x.protocol)
           e == EntryOf(x)
<1>8. e.token = t /\ t \in Tokens /\ t \in Nat
  BY <1>5, EntryIs DEF Trails, Tokens
<1>9. SendDatagram(e, p)
  BY <1>7 DEF EntryOf
<1>10. protocol \in SendSockets /\ p.protocol = protocol /\ p.bitPattern = asked.bitPattern
  BY <1>7 DEF IsStream, Protocols, SendSockets, Asks
<1> DEFINE before == socket[protocol]
           s      == WithOptions(before, p)
           size   == PacketSize(p, IsRaw)
           cannot == IF size = None THEN "EINVAL" ELSE OptionError(before, p)
<1>11. before \in SocketsOf(log) /\ Reported(before)
  BY <1>1, <1>10
<1>12. /\ OptionError(before, p) = None
       /\ s.tos = asked.tos /\ s.ttl = t /\ s.device = asked.device /\ s.error = before.error
       /\ s.queue = before.queue /\ s \in SocketsOf(log)
  <2> DEFINE set == WithOptions(before, Asks(t, protocol))
  <2>1. /\ OptionError(before, Asks(t, protocol)) = None
        /\ set.tos = asked.tos /\ set.ttl = t /\ set.device = asked.device
        /\ set.error = before.error /\ set.queue = before.queue /\ set \in SocketsOf(log)
    <3> HIDE DEF t, before
    <3>. QED BY <1>2, <1>8, <1>11, OptionsGranted
  <2>2. p = Asks(t, protocol)
    BY <1>7
  <2>. QED BY <2>1, <2>2
<1>13. /\ [s EXCEPT !.error = None] \in SocketsOf(log)
       /\ Reported([s EXCEPT !.error = None]) /\ s.error # "EPERM"
  <2> HIDE DEF s
  <2>1. Reported(s)
    BY <1>11, <1>12 DEF Reported
  <2>. QED BY <1>12, <2>1, Cleared
<1>14. table \in Seq(Entries(more)) /\ SocketsOf(log) \subseteq SocketsOf(more)
       /\ socket \in [SendSockets -> SocketsOf(more)]
  BY <1>1, <1>6, MoreEntries, MoreSockets
<1>15. CASE cannot # None /\ Fails(e.token, cannot, cannot) /\ UNCHANGED socket
  <2>1. cannot # "EPERM"
    <3> HIDE DEF size, before, p
    <3>. QED BY <1>12, <1>15
  <2>2. Fails(t, cannot, cannot)
    BY <1>8, <1>15
  <2>3. /\ AnswersFit' /\ pc' \in {"dispatch", "ended"}
        /\ UNCHANGED <<table, flights, resend>>
    <3> HIDE DEF cannot
    <3>. QED BY <1>2, <1>8, <2>1, <2>2, FailsFits
  <2>4. /\ socket' \in [SendSockets -> SocketsOf(more)]
        /\ \A k \in SendSockets : \A r : r = socket'[k] => Reported(r)
    BY <1>1, <1>14, <1>15, SameSocket
  <2>. QED BY <1>1, <1>5, <1>6, <1>14, <2>3, <2>4, AskClosing
<1>16. ASSUME cannot = None,
              socket' = [socket EXCEPT ![p.protocol] = [s EXCEPT !.error = None]],
              NEW sum \in (IF p.protocol = "udp" THEN Sums ELSE {0}),
              LET flight == Flight(e, Header(e, p, sum), s, size, p.bitPattern) IN
              \/ /\ s.error = None
                 /\ flights' = flights \cup {flight} /\ table' = Append(table, e)
                 /\ UNCHANGED <<pc, resend, answers>>
              \/ /\ s.error = None
                 /\ \E errno \in SendErrors : Fails(e.token, errno, errno)
              \/ /\ s.error \in QueueErrors
                 /\ resend' = flight /\ pc' = "resend" /\ table' = Append(table, e)
                 /\ UNCHANGED <<flights, answers>>
              \/ /\ s.error \notin QueueErrors \cup {None}
                 /\ Fails(e.token, s.error, Stray)
       PROVE  IInv'
  <2>1. /\ socket' \in [SendSockets -> SocketsOf(more)]
        /\ \A k \in SendSockets : \A r : r = socket'[k] => Reported(r)
    <3> DEFINE new == [s EXCEPT !.error = None]
    <3>1. new \in SocketsOf(more) /\ Reported(new) /\ socket' = [socket EXCEPT ![protocol] = new]
      BY <1>10, <1>13, <1>14, <1>16
    <3> HIDE DEF new
    <3>. QED BY <1>1, <1>10, <1>14, <3>1, SetSocket
  <2> DEFINE flight == Flight(e, HeaderOf(x, sum), s, size, p.bitPattern)
  <2>2. HeaderOf(x, sum) = Header(e, p, sum)
    BY DEF HeaderOf
  <2>3. Leaves(flight, more) /\ flight.header.protocol \in SendSockets
    <3> DEFINE pattern == p.bitPattern
    <3>1. sum \in Sums \cup {0}
      BY <1>16
    <3>2. size # None
      BY <1>16, NoneAssumption
    <3>3. size + (IF IsRaw /\ asked.family = 6 THEN 40 ELSE 0) >= asked.size
      <4>1. size = PacketSize(Asks(x.token, x.protocol), IsRaw)
        OBVIOUS
      <4> HIDE DEF size
      <4>. QED BY <1>2, <3>2, <4>1, SizeFits
    <3>4. pattern = asked.bitPattern
      BY <1>10
    <3> HIDE DEF s, size, pattern
    <3>5. LET f == Flight(EntryOf(x), HeaderOf(x, sum), s, size, pattern)
          IN  Leaves(f, more) /\ f.header.protocol = x.protocol
      BY <1>2, <1>6, <1>12, <3>1, <3>3, <3>4, FlightFits
    <3>. QED BY <1>7, <1>10, <3>5 DEF pattern
  <2> HIDE DEF flight
  <2>4. CASE /\ flights' = flights \cup {flight} /\ table' = Append(table, e)
             /\ UNCHANGED <<pc, resend, answers>>
    <3>1. table' \in Seq(Entries(more))
      BY <1>1, <1>6, <2>4, TableGrows
    <3>2. AnswersFit'
      BY <1>2, <2>4, SameAnswers
    <3>. QED BY <1>1, <1>5, <1>6, <2>1, <2>3, <2>4, <3>1, <3>2, AskClosing
  <2>5. CASE /\ resend' = flight /\ pc' = "resend" /\ table' = Append(table, e)
             /\ UNCHANGED <<flights, answers>>
    <3>1. table' \in Seq(Entries(more))
      BY <1>1, <1>6, <2>5, TableGrows
    <3>2. AnswersFit'
      BY <1>2, <2>5, SameAnswers
    <3>. QED BY <1>1, <1>5, <1>6, <2>1, <2>3, <2>5, <3>1, <3>2, AskClosing
  <2>6. ASSUME NEW errno, errno # "EPERM", NEW cause, Fails(e.token, errno, cause)
        PROVE  IInv'
    <3>1. Fails(t, errno, cause)
      BY <1>8, <2>6
    <3>2. /\ AnswersFit' /\ pc' \in {"dispatch", "ended"}
          /\ UNCHANGED <<table, flights, resend>>
      BY <1>2, <1>8, <2>6, <3>1, FailsFits
    <3>. QED BY <1>1, <1>5, <1>6, <1>14, <2>1, <3>2, AskClosing
  <2>7. ASSUME NEW errno \in SendErrors, Fails(e.token, errno, errno)
        PROVE  IInv'
    <3>1. errno # "EPERM"
      BY <2>7, ProbePathAssumption
    <3>. QED BY <2>6, <2>7, <3>1
  <2>8. CASE Fails(e.token, s.error, Stray)
    <3> DEFINE errno == s.error
               cause == Stray
    <3>1. errno # "EPERM" /\ Fails(e.token, errno, cause)
      BY <1>13, <2>8
    <3> HIDE DEF errno, cause
    <3>. QED BY <2>6, <3>1
  <2>. QED BY <1>16, <2>2, <2>4, <2>5, <2>7, <2>8 DEF flight
<1>. QED BY <1>9, <1>10, <1>15, <1>16 DEF SendDatagram

LEMMA AskKeeps ==
    ASSUME IInv, NEW protocol \in asked.protocols, Ask(protocol)
    PROVE  IInv'
<1> DEFINE t    == sent + 1
           line == EncodeProbe(t, Params(t, protocol))
           p    == DecodeProbe(line)
<1>1. /\ pc = "dispatch" /\ sent < MaxTokens /\ sent' = sent + 1
      /\ UNCHANGED <<asked, mode, caps, sctp, foreign, missed>>
  BY DEF Ask
<1>2. asked \in Settings /\ Counts
  BY DEF IInv
<1>3. protocol \in Protocols
  BY <1>2, SettingsAssumption
<1>4. t \in Nat
  BY <1>2, ProbePathAssumption DEF Counts
<1>5. p = Asks(t, protocol)
  <2> HIDE DEF t
  <2>. QED BY <1>2, <1>3, <1>4, DecodeIs
<1>6. ASSUME NEW response, Refuse(t, response),
             ParseResponse(EncodeResponse(response)).kind # "permission-denied"
      PROVE  IInv'
  BY <1>1, <1>6, RefuseKeeps
<1>7. ASSUME NEW token, NEW kind \in PlainNames, kind # "permission-denied",
             Refuse(t, Bare(token, kind))
      PROVE  IInv'
  <2> DEFINE r == Bare(token, kind)
  <2>1. r.token = token /\ r.kind = kind /\ r.addr = None /\ r.detail = None
    BY DEF Bare, Response
  <2> HIDE DEF r
  <2>2. ParseResponse(EncodeResponse(r)) = Bare(token, kind)
    BY <2>1, BareReads
  <2>3. ParseResponse(EncodeResponse(r)).kind # "permission-denied"
    BY <1>7, <2>2 DEF Bare, Response
  <2>. QED BY <1>6, <1>7, <2>3 DEF r
<1>8. ASSUME NEW reason, Refuse(t, Invalid(t, reason))
      PROVE  IInv'
  <2> DEFINE r == Invalid(t, reason)
  <2>1. r.addr = None /\ r.kind = "invalid-argument" /\ r.kind \in DetailedNames
    BY DEF Invalid, Response, DetailedNames
  <2> HIDE DEF r
  <2>2. ParseResponse(EncodeResponse(r)).kind = r.kind
    BY <2>1, DetailReads
  <2>3. ParseResponse(EncodeResponse(r)).kind # "permission-denied"
    BY <2>1, <2>2
  <2>. QED BY <1>6, <1>8, <2>3 DEF r
<1>9. "command-parse-error" \in PlainNames /\ "probes-exhausted" \in PlainNames
  BY DEF PlainNames, ErrorNames
<1>10. CASE Refuse(t, Bare(0, "command-parse-error"))
  <2> DEFINE kind == "command-parse-error"
             token == 0
  <2>1. kind \in PlainNames /\ kind # "permission-denied" /\ Refuse(t, Bare(token, kind))
    BY <1>9, <1>10
  <2> HIDE DEF kind, token, t
  <2>. QED BY <1>7, <2>1
<1>11. CASE Refuse(t, Bare(t, "probes-exhausted"))
  <2> DEFINE kind == "probes-exhausted"
  <2>1. kind \in PlainNames /\ kind # "permission-denied" /\ Refuse(t, Bare(t, kind))
    BY <1>9, <1>11
  <2> HIDE DEF kind, t
  <2>. QED BY <1>7, <2>1
<1>12. CASE Refuse(t, Invalid(t, None))
  BY <1>8, <1>12
<1>13. CASE Refuse(t, Invalid(t, "ip-version-not-supported"))
  BY <1>8, <1>13
<1>14. CASE Refuse(t, Invalid(t, "protocol-not-supported"))
  BY <1>8, <1>14
<1>15. ASSUME NEW skipped \in Skips(p),
              nextSequence' = After(skipped + 1),
              IF IsStream(p.protocol) THEN StartStream(Entry(t, p, After(skipped)), p)
              ELSE SendDatagram(Entry(t, p, After(skipped)), p)
       PROVE  IInv'
  <2>1. p.protocol = protocol
    BY <1>5 DEF Asks
  <2>2. skipped \in 0..MaxSkipped
    <3>1. 0 \in 0..MaxSkipped
      BY ProbePathAssumption
    <3>. QED BY <1>15, <3>1 DEF Skips
  <2> HIDE DEF p
  <2>3. CASE IsStream(protocol)
    BY <1>1, <1>3, <1>5, <1>15, <2>1, <2>2, <2>3, StreamKeeps
  <2>4. CASE ~IsStream(protocol)
    BY <1>1, <1>3, <1>5, <1>15, <2>1, <2>2, <2>4, DatagramKeeps
  <2>. QED BY <2>3, <2>4
<1>16. \/ Refuse(t, Bare(0, "command-parse-error")) \/ Refuse(t, Invalid(t, None))
       \/ Refuse(t, Invalid(t, "ip-version-not-supported"))
       \/ Refuse(t, Invalid(t, "protocol-not-supported"))
       \/ Refuse(t, Bare(t, "probes-exhausted"))
       \/ \E skipped \in Skips(p) :
             /\ nextSequence' = After(skipped + 1)
             /\ IF IsStream(p.protocol) THEN StartStream(Entry(t, p, After(skipped)), p)
                ELSE SendDatagram(Entry(t, p, After(skipped)), p)
  <2> DEFINE Sends == \E skipped \in Skips(p) :
                         LET e == Entry(t, p, After(skipped)) IN
                         /\ nextSequence' = After(skipped + 1)
                         /\ IF IsStream(p.protocol) THEN StartStream(e, p)
                            ELSE SendDatagram(e, p)
  <2>1. (CASE ~Tokenizes(line)   -> Refuse(t, Bare(0, "command-parse-error"))
          [] Tokenizes(line) /\ ~ProbeDecodes(line) -> Refuse(t, Invalid(t, None))
          [] OTHER ->
             IF mode[p.family] = "none"
             THEN Refuse(t, Invalid(t, "ip-version-not-supported"))
             ELSE IF ~ProtocolSupported(p.protocol, sctp)
             THEN Refuse(t, Invalid(t, "protocol-not-supported"))
             ELSE IF Len(table) >= MaxProbes
             THEN Refuse(t, Bare(t, "probes-exhausted"))
             ELSE Sends)
    BY DEF Ask
  <2> HIDE DEF line, p, t, Sends
  <2>2. \/ Refuse(t, Bare(0, "command-parse-error")) \/ Refuse(t, Invalid(t, None))
        \/ Refuse(t, Invalid(t, "ip-version-not-supported"))
        \/ Refuse(t, Invalid(t, "protocol-not-supported"))
        \/ Refuse(t, Bare(t, "probes-exhausted"))
        \/ Sends
    BY <2>1
  <2>. QED BY <2>2 DEF Sends
<1> HIDE DEF p, t
<1>. QED BY <1>10, <1>11, <1>12, <1>13, <1>14, <1>15, <1>16

-----------------------------------------------------------------------------
(* Theorems *)

\* One step for each action of the helper.
LEMMA StepKeeps ==
    ASSUME IInv, [Next]_vars
    PROVE  IInv'
<1>1. CASE Start
  BY <1>1, StartKeeps
<1>2. CASE Resend
  BY <1>2, ResendKeeps
<1>3. CASE Receive
  BY <1>3, ReceiveKeeps
<1>4. CASE ReceiveForeign
  BY <1>4, ForeignKeeps
<1>5. CASE ErrorArrives
  BY <1>5, ErrorArrivesKeeps
<1>6. CASE DrainEnds
  BY <1>6, DrainEndsKeeps
<1>7. CASE NextStage
  BY <1>7, StageKeeps
<1>8. ASSUME NEW protocol \in asked.protocols, Ask(protocol)
      PROVE  IInv'
  BY <1>8, AskKeeps
<1>9. ASSUME NEW k \in SendSockets, ReadErrorQueue(k)
      PROVE  IInv'
  BY <1>9, ReadKeeps
<1>10. ASSUME NEW i \in DOMAIN table, Connected(i) \/ Expire(i)
       PROVE  IInv'
  BY <1>10, ConnectedKeeps, ExpireKeeps
<1>11. CASE UNCHANGED vars
  BY <1>11, StutterKeeps
<1>. QED BY <1>1, <1>2, <1>3, <1>4, <1>5, <1>6, <1>7, <1>8, <1>9, <1>10, <1>11 DEF Next

\* Everything under way is about a probe the engine has drawn, every answer fits
\* its probe, and none was missed, after any number of turns of the helper.
THEOREM Invariant == Spec => []IInv
<1>1. Init => IInv
  BY InitFits
<1>2. IInv /\ [Next]_vars => IInv'
  BY StepKeeps
<1>. QED BY <1>1, <1>2, PTL DEF Spec

\* The result a client reads comes from a message about that very probe and says
\* what the message said, unless it is Mistaken in one of the two ways the code
\* accepts: for every range of ports, size of table and number of probes.
THEOREM AnswersBelongAlways == Spec => []AnswersBelong
<1>1. IInv => AnswersBelong
  <2> SUFFICES ASSUME IInv PROVE AnswersBelong
    OBVIOUS
  <2>1. ASSUME NEW t \in Tokens, NEW a, a = answers[t], a # None, a.message # None
        PROVE  /\ a.message.of = t \/ Mistaken(a.message, a.seq)
               /\ a.response # None /\ a.response.token = t
               /\ a.response.kind = Meant(a.message.says)
               /\ a.response.addr = Host(a.message.from)
               /\ a.response.labels \in {<<>>, DecodeMpls(Objects[a.message.from])}
               /\ IsRaw => a.response.labels = DecodeMpls(Objects[a.message.from])
    <3>1. AnswerFits(t, a)
      BY <2>1 DEF IInv, AnswersFit
    <3>. QED BY <2>1, <3>1 DEF AnswerFits
  <2>. QED BY <2>1 DEF AnswersBelong
<1>. QED BY <1>1, Invariant, PTL

\* No answer to a probe that still waits is dropped or left on an error queue,
\* whatever the order in which the answers and the errors arrive, but for the two
\* ways that HeardIsAnswered names.
THEOREM HeardIsAnsweredAlways == Spec => []HeardIsAnswered
<1>1. IInv => HeardIsAnswered
  BY DEF IInv, HeardIsAnswered
<1>. QED BY <1>1, Invariant, PTL

\* Every datagram leaves as the engine asked for it, and after the handshake no
\* probe is refused for want of a privilege the helper has dropped.
THEOREM SentAsAskedAlways == Spec => []SentAsAsked
<1>1. IInv => SentAsAsked
  <2> SUFFICES ASSUME IInv PROVE SentAsAsked
    OBVIOUS
  <2>1. ASSUME NEW f \in flights
        PROVE  LeftAsAsked(f)
    BY <2>1 DEF IInv, Fits, Leaves
  <2>2. ASSUME NEW t \in Tokens, NEW a, a = answers[t], a # None
        PROVE  a.response.kind # "permission-denied"
    <3>1. AnswerFits(t, a)
      BY <2>2 DEF IInv, AnswersFit
    <3>. QED BY <3>1 DEF AnswerFits
  <2>. QED BY <2>1, <2>2 DEF SentAsAsked
<1>. QED BY <1>1, Invariant, PTL

=============================================================================
