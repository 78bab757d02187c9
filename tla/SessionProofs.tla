---------------------------- MODULE SessionProofs ----------------------------
(***************************************************************************)
(* What Session promises, for all words, files, hosts and addresses.        *)
(*                                                                          *)
(* Targets: the exit status and the output of a process account for every   *)
(* one of them (Standing, Reported), and every run keeps to the family that *)
(* was asked for (Related).  Options: the settings are those of the highest *)
(* layer that says something about them, the engine gets a configuration it *)
(* can work with (Layers), and what --init-config has saved comes back      *)
(* (Stored).                                                                *)
(***************************************************************************)
EXTENDS Session, FiniteSetTheorems, SequenceTheorems, TLAPS

Loading == {"start", "init", "config", "hosts", "preflight", "resolve all"}
Running == {"local", "spawn", "check", "running"}
Looping == {"targets"} \cup Running
Begun   == Looping \cup {"print"}

Results   == {"failed", "done", "interrupted"}
Lines     == {"start", "report"} \X Nat
Addresses == {"4", "6", "mapped"}
Families  == {"4", "6", "any"}

IsList(s) == s \in Seq(ToSet(s))

WellFormed(w) ==
    /\ {"env", "words", "root", "hosts", "hostFile", "answers"} \subseteq DOMAIN w
    /\ w.env # Wrong => AreWords(w.env)
    /\ w.words \notin {Wrong, Help} => AreWords(w.words)
    /\ IsList(w.hosts)
    /\ w.hostFile # None => IsList(w.hostFile)
    /\ \A name \in DOMAIN w.answers : w.answers[name] \in Seq(Addresses)

Types ==
    /\ WellFormed(world)
    /\ pc \in Loading \cup Begun \cup {"exit"}
    /\ IsList(argv) /\ IsList(targets)
    /\ outcome \in Seq(Results) /\ at = Len(outcome) + 1
    /\ docs \in Seq(Nat) /\ printed \in Seq(Lines)

\* Before the loop nothing has come of any target, and a process of --init-config never
\* enters the loop: another may follow it, with all the variables of the loop as they are.
Untouched == outcome = <<>> /\ docs = <<>> /\ printed = <<>>
Fresh ==
    /\ pc \in Loading => Untouched /\ exit = 0
    /\ "init_config" \in Given(argv) => pc \in {"init", "exit"} /\ Untouched

\* The exit status that is due for what has become of the targets.
Failed  == \E i \in DOMAIN outcome : outcome[i] = "failed"
Stopped == outcome # <<>> /\ outcome[Len(outcome)] = "interrupted"
OnlyLast == \A i \in DOMAIN outcome : outcome[i] = "interrupted" => i = Len(outcome)
Due == IF Stopped THEN 130 ELSE IF Failed THEN 1 ELSE 0

Standing ==
    /\ OnlyLast
    /\ pc \in Begun => exit = Due
    /\ pc \in Begun => (pc = "print" <=> Stopped)
    /\ pc \in Running => at <= Len(RunList)
    /\ outcome # <<>> => Len(outcome) <= Len(RunList)
    /\ pc = "exit" /\ outcome # <<>> =>
          /\ exit = Due
          /\ (Mode = "tui" /\ Failed) \/ Stopped \/ Len(outcome) = Len(RunList)

\* What has been printed and what waits to be printed are one report for each target traced.
Traced == {i \in DOMAIN outcome : outcome[i] # "failed"}
Documents(ds) == [i \in DOMAIN ds |-> <<"report", ds[i]>>]
Covers(lines, set) ==
    /\ \A i \in DOMAIN lines : lines[i][1] = "report" => lines[i][2] \in set
    /\ \A t \in set : \E i \in DOMAIN lines : lines[i] = <<"report", t>>
    /\ \A i, j \in DOMAIN lines :
          lines[i][1] = "report" /\ lines[j][1] = "report" /\ lines[i][2] = lines[j][2] => i = j

Reported ==
    /\ docs # <<>> => Mode = "json"
    /\ Mode # "tui" /\ pc \in Begun => Covers(printed \o Documents(docs), Traced)
    /\ Mode # "tui" /\ pc = "exit" => Covers(printed, Traced)

AccountInv == Types /\ Fresh /\ Standing /\ Reported

-----------------------------------------------------------------------------
(* Modes, lists and lines *)

\* A set of positions has a first.
LEMMA First ==
    ASSUME NEW T, T \subseteq Nat, T # {}
    PROVE  \E x \in T : \A y \in T : x <= y
<1>1. OpToRel(<, Nat) = {ss \in Nat \X Nat : ss[1] < ss[2]}
  BY DEF OpToRel
<1>2. \E x \in T : \A y \in T : <<y, x>> \notin OpToRel(<, Nat)
  BY NatLessThanWellFounded, WFMin, Zenon
<1>3. PICK x \in T : \A y \in T : <<y, x>> \notin {ss \in Nat \X Nat : ss[1] < ss[2]}
  BY <1>1, <1>2
<1>4. ASSUME NEW y \in T PROVE x <= y
  <2>1. x \in Nat /\ y \in Nat
    OBVIOUS
  <2>2. <<y, x>> \in Nat \X Nat /\ <<y, x>>[1] = y /\ <<y, x>>[2] = x
    BY <2>1
  <2>3. ~(y < x)
    BY <1>3, <2>2
  <2>. QED BY <2>1, <2>3
<1>. QED BY <1>4

\* The last of the words with one of the ids is the only one of its kind.
LEMMA LastIs ==
    ASSUME NEW words, IsList(words), NEW ids, NEW k \in DOMAIN words, words[k].id \in ids,
           \A j \in DOMAIN words : words[j].id \in ids => j <= k
    PROVE  LastAt(words, ids) = k
<1>1. DOMAIN words \subseteq Nat
  BY DEF IsList
<1> DEFINE Is(i) == /\ i \in DOMAIN words /\ words[i].id \in ids
                    /\ \A j \in DOMAIN words : words[j].id \in ids => j <= i
<1>2. LastAt(words, ids) = CHOOSE i \in DOMAIN words :
          /\ words[i].id \in ids
          /\ \A j \in DOMAIN words : words[j].id \in ids => j <= i
  BY DEF LastAt
<1>3. Is(LastAt(words, ids))
  BY <1>2
<1>. QED  BY <1>1, <1>3

\* The last of the words is not followed by another of its kind.
LEMMA LastOf ==
    ASSUME NEW words, IsList(words), NEW ids, NEW k \in DOMAIN words, words[k].id \in ids
    PROVE  /\ LastAt(words, ids) \in DOMAIN words /\ words[LastAt(words, ids)].id \in ids
           /\ \A j \in DOMAIN words : words[j].id \in ids => j <= LastAt(words, ids)
<1> DEFINE n == Len(words)
           T == {d \in Nat : n - d \in DOMAIN words /\ words[n - d].id \in ids}
<1>1. n \in Nat /\ DOMAIN words = 1..n
  BY DEF IsList
<1>2. n - k \in T
  <2>1. k \in 1..n /\ n - k \in Nat /\ n - (n - k) = k
    BY <1>1
  <2>. QED  BY <2>1, <1>1
<1>3. PICK d \in T : \A e \in T : d <= e
  BY <1>2, First
<1>4. /\ n - d \in DOMAIN words /\ words[n - d].id \in ids
      /\ \A j \in DOMAIN words : words[j].id \in ids => j <= n - d
  <2>1. ASSUME NEW j \in DOMAIN words, words[j].id \in ids
        PROVE  j <= n - d
    <3>1. n - j \in Nat /\ n - (n - j) = j
      BY <1>1
    <3>2. n - j \in T
      BY <3>1, <2>1
    <3>3. d <= n - j
      BY <3>2, <1>3
    <3>. QED  BY <3>3, <1>1
  <2>. QED  BY <2>1
<1>. HIDE DEF n, T
<1>5. LastAt(words, ids) = n - d
  BY <1>4, LastIs
<1>. QED  BY <1>4, <1>5

\* Every list of words means one of the four modes.
LEMMA ModeType ==
    ASSUME NEW words, IsList(words)
    PROVE  OutputMode(words) \in {"tui", "report", "csv", "json"}
<1>1. CASE Given(words) \cap ModeFlags = {}
  BY <1>1 DEF OutputMode
<1>2. CASE Given(words) \cap ModeFlags # {}
  <2>1. PICK k \in DOMAIN words : words[k].id \in ModeFlags
    BY <1>2 DEF Given
  <2>2. words[LastAt(words, ModeFlags)].id \in ModeFlags
    BY <2>1, LastOf
  <2>. QED  BY <2>2, <1>2 DEF OutputMode, ModeOf, ModeFlags
<1>. QED  BY <1>1, <1>2

\* A sequence of any elements is a list.
LEMMA ListOf ==
    ASSUME NEW S, NEW s \in Seq(S)
    PROVE  IsList(s)
<1> DEFINE n == Len(s)
<1>1. n \in Nat /\ DOMAIN s = 1..n /\ s = [i \in 1..n |-> s[i]]
  BY LenProperties
<1>2. \A i \in 1..n : s[i] \in ToSet(s)
  BY <1>1 DEF ToSet
<1>3. s \in [1..n -> ToSet(s)]
  <2>. HIDE DEF n
  <2>. QED  BY <1>1, <1>2
<1>. QED  BY <1>1, <1>3, SeqDef DEF IsList

\* Lists stay lists.
LEMMA ListsJoin ==
    ASSUME NEW s, NEW t, IsList(s), IsList(t)
    PROVE  IsList(s \o t)
<1> DEFINE S == ToSet(s) \cup ToSet(t)
<1>1. s \in Seq(S) /\ t \in Seq(S)
  BY DEF IsList
<1>2. s \o t \in Seq(S)
  BY <1>1, ConcatProperties
<1>. QED  BY <1>2, ListOf

\* Words are a list.
LEMMA WordsList == \A words : AreWords(words) => IsList(words)
BY DEF AreWords, IsList, ToSet

\* The empty list.
LEMMA EmptyList == IsList(<<>>)
BY DEF IsList

\* The targets are a list.
LEMMA TargetsList ==
    ASSUME NEW hosts, IsList(hosts)
    PROVE  IsList(Targets(hosts))
<1>1. CASE hosts = <<>>
  <2>1. Targets(hosts) = << [name |-> "localhost", port |-> None] >>
    BY <1>1 DEF Targets
  <2>2. << [name |-> "localhost", port |-> None] >>
          \in Seq({[name |-> "localhost", port |-> None]})
    OBVIOUS
  <2>. QED  BY <2>1, <2>2, ListOf
<1>2. CASE hosts # <<>>
  <2>1. DOMAIN hosts = 1..Len(hosts) /\ Len(hosts) \in Nat
    BY DEF IsList
  <2> DEFINE renamed == [i \in DOMAIN hosts |->
            [name |-> IF hosts[i].port = None THEN hosts[i].name ELSE "with a port",
             port |-> None]]
  <2>2. renamed \in Seq(ToSet(renamed))
    <3>1. renamed \in [1..Len(hosts) -> ToSet(renamed)]
      <4>1. \A i \in 1..Len(hosts) : renamed[i] \in ToSet(renamed)
        BY <2>1 DEF ToSet
      <4>. QED  BY <4>1, <2>1
    <3>. HIDE DEF renamed
    <3>. QED  BY <3>1, <2>1, SeqDef
  <2>. QED  BY <1>2, <2>2 DEF Targets, IsList
<1>. QED  BY <1>1, <1>2

\* One more report covers one more target; an announcement covers nothing.
LEMMA CoversMore ==
    ASSUME NEW lines \in Seq(Lines), NEW set, NEW t \in Nat, t \notin set, Covers(lines, set)
    PROVE  /\ Covers(Append(lines, <<"report", t>>), set \cup {t})
           /\ Covers(Append(lines, <<"start", t>>), set)
<1> DEFINE n == Len(lines)
<1>1. n \in Nat /\ DOMAIN lines = 1..n
  OBVIOUS
<1>2. ASSUME NEW word \in {"start", "report"}
      PROVE  /\ DOMAIN Append(lines, <<word, t>>) = 1..(n + 1)
             /\ \A i \in 1..n : Append(lines, <<word, t>>)[i] = lines[i]
             /\ Append(lines, <<word, t>>)[n + 1] = <<word, t>>
  <2>1. <<word, t>> \in Lines
    BY DEF Lines
  <2>. QED  BY <2>1, <1>1, AppendProperties
<1>3. Covers(Append(lines, <<"report", t>>), set \cup {t})
  <2> DEFINE s == Append(lines, <<"report", t>>)
  <2>1. /\ DOMAIN s = 1..(n + 1) /\ \A i \in 1..n : s[i] = lines[i]
        /\ s[n + 1] = <<"report", t>>
    BY <1>2
  <2>. HIDE DEF s
  <2>2. s[n + 1][1] = "report" /\ s[n + 1][2] = t /\ n + 1 \in DOMAIN s
    BY <2>1, <1>1
  <2>3. \A i \in DOMAIN s : i = n + 1 \/ (i \in DOMAIN lines /\ s[i] = lines[i])
    BY <2>1, <1>1
  <2>4. \A i \in DOMAIN lines : i \in DOMAIN s /\ s[i] = lines[i]
    BY <2>1, <1>1
  <2>5. \A i \in DOMAIN s : s[i][1] = "report" => s[i][2] \in set \cup {t}
    BY <2>2, <2>3 DEF Covers
  <2>6. \A u \in set \cup {t} : \E i \in DOMAIN s : s[i] = <<"report", u>>
    <3>1. ASSUME NEW u \in set  PROVE \E i \in DOMAIN s : s[i] = <<"report", u>>
      <4>1. PICK i \in DOMAIN lines : lines[i] = <<"report", u>>
        BY DEF Covers
      <4>. QED  BY <4>1, <2>4
    <3>2. \E i \in DOMAIN s : s[i] = <<"report", t>>
      BY <2>1, <2>2
    <3>. QED  BY <3>1, <3>2
  <2>7. \A i, j \in DOMAIN s :
           s[i][1] = "report" /\ s[j][1] = "report" /\ s[i][2] = s[j][2] => i = j
    <3>1. SUFFICES ASSUME NEW i \in DOMAIN s, NEW j \in DOMAIN s,
                          s[i][1] = "report", s[j][1] = "report", s[i][2] = s[j][2]
                   PROVE  i = j
      OBVIOUS
    <3>2. \A k \in DOMAIN lines : s[k][1] = "report" => s[k][2] # t
      BY <2>4 DEF Covers
    <3>3. CASE i \in DOMAIN lines /\ j \in DOMAIN lines
      BY <3>1, <3>3, <2>4 DEF Covers
    <3>4. CASE i = n + 1 \/ j = n + 1
      BY <3>1, <3>4, <3>2, <2>2, <2>3
    <3>. QED  BY <3>3, <3>4, <2>3
  <2>. QED  BY <2>5, <2>6, <2>7 DEF Covers, s
<1>4. Covers(Append(lines, <<"start", t>>), set)
  <2> DEFINE s == Append(lines, <<"start", t>>)
  <2>1. /\ DOMAIN s = 1..(n + 1) /\ \A i \in 1..n : s[i] = lines[i]
        /\ s[n + 1] = <<"start", t>>
    BY <1>2
  <2>. HIDE DEF s
  <2>2. s[n + 1][1] # "report"
    BY <2>1
  <2>3. \A i \in DOMAIN s : s[i][1] = "report" => i \in DOMAIN lines /\ s[i] = lines[i]
    BY <2>1, <2>2, <1>1
  <2>4. \A i \in DOMAIN lines : i \in DOMAIN s /\ s[i] = lines[i]
    BY <2>1, <1>1
  <2>5. \A u \in set : \E i \in DOMAIN s : s[i] = <<"report", u>>
    BY <2>4 DEF Covers
  <2>6. \A i \in DOMAIN s : s[i][1] = "report" => s[i][2] \in set
    BY <2>3 DEF Covers
  <2>7. \A i, j \in DOMAIN s :
           s[i][1] = "report" /\ s[j][1] = "report" /\ s[i][2] = s[j][2] => i = j
    BY <2>3 DEF Covers
  <2>. QED  BY <2>5, <2>6, <2>7 DEF Covers, s
<1>. QED  BY <1>3, <1>4

\* As many reports as targets traced.
LEMMA CoversCount ==
    ASSUME NEW lines \in Seq(Lines), NEW set, Covers(lines, set)
    PROVE  /\ {p[2] : p \in {q \in ToSet(lines) : q[1] = "report"}} = set
           /\ Cardinality({i \in DOMAIN lines : lines[i][1] = "report"}) = Cardinality(set)
<1> DEFINE at_ == {i \in DOMAIN lines : lines[i][1] = "report"}
           f   == [i \in at_ |-> lines[i][2]]
<1>1. {p[2] : p \in {q \in ToSet(lines) : q[1] = "report"}} = set
  <2>1. ASSUME NEW t \in set
        PROVE  t \in {p[2] : p \in {q \in ToSet(lines) : q[1] = "report"}}
    <3>1. PICK i \in DOMAIN lines : lines[i] = <<"report", t>>
      BY DEF Covers
    <3>2. lines[i] \in ToSet(lines) /\ lines[i][1] = "report" /\ lines[i][2] = t
      BY <3>1 DEF ToSet
    <3>. QED  BY <3>2
  <2>2. ASSUME NEW p \in ToSet(lines), p[1] = "report"  PROVE p[2] \in set
    <3>1. PICK i \in DOMAIN lines : p = lines[i]
      BY DEF ToSet
    <3>. QED  BY <3>1, <2>2 DEF Covers
  <2>. QED  BY <2>1, <2>2
<1>2. f \in Bijection(at_, set)
  <2>1. f \in [at_ -> set]
    BY DEF Covers
  <2>2. IsInjective(f)
    BY DEF Covers, IsInjective
  <2>3. \A t \in set : \E i \in at_ : f[i] = t
    <3>1. ASSUME NEW t \in set PROVE \E i \in at_ : f[i] = t
      <4>1. PICK i \in DOMAIN lines : lines[i] = <<"report", t>>
        BY DEF Covers
      <4>2. i \in at_ /\ f[i] = t
        BY <4>1
      <4>. QED  BY <4>2
    <3>. QED  BY <3>1
  <2>. HIDE DEF f, at_
  <2>. QED  BY <2>1, <2>2, <2>3 DEF Bijection, Injection, Surjection
<1>3. IsFiniteSet(at_)
  <2>1. DOMAIN lines = 1..Len(lines) /\ Len(lines) \in Nat
    OBVIOUS
  <2>2. IsFiniteSet(1..Len(lines))
    BY <2>1, FS_Interval
  <2>. QED  BY <2>1, <2>2, FS_Subset
<1>4. Cardinality(at_) = Cardinality(set)
  <2>. HIDE DEF f, at_
  <2>1. ExistsBijection(at_, set)
    BY <1>2 DEF ExistsBijection
  <2>. QED  BY <2>1, <1>3, FS_Bijection
<1>. QED  BY <1>1, <1>4
-----------------------------------------------------------------------------
(* Steps of the loop *)

\* While the words and the targets stay, so do the mode and the list of the loop.
LEMMA SameList ==
    ASSUME UNCHANGED <<argv, targets>>
    PROVE  Mode' = Mode /\ RunList' = RunList
BY DEF Mode, RunList

\* The list of the loop has a length.
LEMMA ListLength ==
    ASSUME IsList(targets)
    PROVE  Len(RunList) \in Nat /\ DOMAIN RunList = 1..Len(RunList)
<1>1. targets \in Seq(ToSet(targets))
  BY DEF IsList
<1>2. Len(SubSeq(targets, 1, 1)) = 1 /\ DOMAIN SubSeq(targets, 1, 1) = 1..1
  BY <1>1
<1>3. Len(targets) \in Nat /\ DOMAIN targets = 1..Len(targets)
  BY <1>1
<1>4. RunList = SubSeq(targets, 1, 1) \/ RunList = targets
  BY DEF RunList
<1>. QED  BY <1>2, <1>3, <1>4

\* What one more result changes, in a loop that has not been interrupted.
LEMMA OneMore ==
    ASSUME Types, OnlyLast, ~Stopped, NEW result \in Results,
           outcome' = Append(outcome, result)
    PROVE  /\ outcome' \in Seq(Results) /\ Len(outcome') = at /\ outcome' # <<>>
           /\ at \in Nat /\ at \notin Traced
           /\ Traced' = IF result = "failed" THEN Traced ELSE Traced \cup {at}
           /\ Failed' <=> (Failed \/ result = "failed")
           /\ Stopped' <=> result = "interrupted"
           /\ OnlyLast'
<1> DEFINE n == Len(outcome)
<1>1. n \in Nat /\ DOMAIN outcome = 1..n /\ at = n + 1 /\ outcome \in Seq(Results)
  BY DEF Types
<1>2. /\ outcome' \in Seq(Results) /\ outcome' # <<>>
      /\ Len(outcome') = n + 1 /\ DOMAIN outcome' = 1..(n + 1)
      /\ \A i \in 1..n : outcome'[i] = outcome[i]
      /\ outcome'[n + 1] = result
  BY <1>1, AppendProperties
<1>. HIDE DEF n
<1>3. \A i \in DOMAIN outcome' :
         i = n + 1 \/ (i \in DOMAIN outcome /\ i # n + 1 /\ outcome'[i] = outcome[i])
  BY <1>1, <1>2
<1>4. \A i \in DOMAIN outcome : i \in DOMAIN outcome' /\ outcome'[i] = outcome[i] /\ i # n + 1
  BY <1>1, <1>2
<1>5. n + 1 \in DOMAIN outcome' /\ n + 1 \notin DOMAIN outcome
  BY <1>1, <1>2
<1>6. \A i \in DOMAIN outcome : outcome[i] # "interrupted"
  <2>1. n > 0 => outcome # <<>>
    BY <1>1 DEF n
  <2>. QED  BY <2>1, <1>1 DEF OnlyLast, Stopped, n
<1>7. Traced' = IF result = "failed" THEN Traced ELSE Traced \cup {at}
  BY <1>1, <1>2, <1>3, <1>4, <1>5 DEF Traced
<1>8. Failed' <=> (Failed \/ result = "failed")
  BY <1>2, <1>3, <1>4, <1>5 DEF Failed
<1>9. Stopped' <=> result = "interrupted"
  BY <1>2 DEF Stopped
<1>10. OnlyLast'
  BY <1>2, <1>3, <1>6 DEF OnlyLast
<1>11. at \notin Traced
  BY <1>1, <1>5 DEF Traced
<1>. QED  BY <1>1, <1>2, <1>7, <1>8, <1>9, <1>10, <1>11

\* What was printed, and what a step of the loop may add before its target is decided.
Announces == printed' = printed \/ (Mode = "report" /\ printed' = Append(printed, <<"start", at>>))

\* What is printed or waits, when nothing waits.
LEMMA NothingWaits ==
    ASSUME NEW lines \in Seq(Lines)
    PROVE  lines \o Documents(<<>>) = lines
<1>1. Documents(<<>>) = <<>>
  BY DEF Documents
<1>. QED  BY <1>1

\* The documents are lines, and one more of them comes last.
LEMMA DocumentLines ==
    ASSUME NEW ds \in Seq(Nat), NEW lines \in Seq(Lines), NEW t \in Nat
    PROVE  /\ lines \o Documents(ds) \in Seq(Lines)
           /\ lines \o Documents(Append(ds, t))
                = Append(lines \o Documents(ds), <<"report", t>>)
<1>1. Documents(ds) \in Seq(Lines)
  <2>1. Len(ds) \in Nat /\ DOMAIN ds = 1..Len(ds)
    OBVIOUS
  <2>2. \A i \in DOMAIN ds : <<"report", ds[i]>> \in Lines
    BY DEF Lines
  <2>3. [i \in 1..Len(ds) |-> <<"report", ds[i]>>] \in [1..Len(ds) -> Lines]
    BY <2>1, <2>2
  <2>. QED  BY <2>1, <2>3, SeqDef DEF Documents
<1>2. Documents(Append(ds, t)) = Append(Documents(ds), <<"report", t>>)
  <2>1. PICK n \in Nat : n = Len(ds)
    OBVIOUS
  <2> DEFINE a == Append(ds, t)
             b == Append(Documents(ds), <<"report", t>>)
  <2>2. /\ DOMAIN ds = 1..n /\ DOMAIN a = 1..(n + 1)
        /\ a[n + 1] = t /\ \A i \in 1..n : a[i] = ds[i]
    BY <2>1, AppendProperties
  <2>3. /\ Documents(ds) = [i \in 1..n |-> <<"report", ds[i]>>]
        /\ Len(Documents(ds)) = n
        /\ \A i \in 1..n : Documents(ds)[i] = <<"report", ds[i]>>
    BY <2>2, <1>1 DEF Documents
  <2>4. Documents(a) = [i \in 1..(n + 1) |-> <<"report", a[i]>>]
    BY <2>2 DEF Documents
  <2>5. <<"report", t>> \in Lines
    BY DEF Lines
  <2>6. /\ b \in Seq(Lines) /\ Len(b) = n + 1
        /\ \A i \in 1..n : b[i] = <<"report", ds[i]>>
        /\ b[n + 1] = <<"report", t>>
    BY <2>3, <2>5, <1>1, AppendProperties
  <2>. HIDE DEF a, b
  <2>7. \A i \in 1..(n + 1) : i \in 1..n \/ i = n + 1
    OBVIOUS
  <2>8. \A i \in 1..(n + 1) : b[i] = <<"report", a[i]>>
    BY <2>2, <2>6, <2>7
  <2>9. b = [i \in 1..(n + 1) |-> b[i]]
    BY <2>6, LenProperties
  <2>10. b = [i \in 1..(n + 1) |-> <<"report", a[i]>>]
    BY <2>8, <2>9, Zenon
  <2>. QED  BY <2>4, <2>10 DEF a, b
<1>3. <<"report", t>> \in Lines
  BY DEF Lines
<1>4. \A e \in Lines : \A u \in Seq(Lines) : lines \o Append(u, e) = Append(lines \o u, e)
  OBVIOUS
<1>. QED  BY <1>1, <1>2, <1>3, <1>4, ConcatProperties

\* An announcement is no report.
LEMMA AnnounceCovers ==
    ASSUME Types, docs # <<>> => Mode = "json", Announces
    PROVE  /\ printed' \in Seq(Lines)
           /\ Covers(printed \o Documents(docs), Traced) =>
                 Covers(printed' \o Documents(docs), Traced)
<1>1. /\ printed \in Seq(Lines) /\ at \in Nat /\ at \notin Traced
      /\ <<"start", at>> \in Lines
  <2>1. at \in Nat /\ at \notin DOMAIN outcome /\ printed \in Seq(Lines)
    BY DEF Types
  <2>. QED  BY <2>1 DEF Traced, Lines
<1>2. CASE printed' = printed
  BY <1>1, <1>2
<1>3. CASE Mode = "report" /\ printed' = Append(printed, <<"start", at>>)
  <2>1. docs = <<>>
    BY <1>3
  <2>2. Append(printed, <<"start", at>>) \in Seq(Lines)
    BY <1>1, AppendProperties
  <2>3. printed' \in Seq(Lines)
    BY <1>3, <2>2
  <2>4. printed \o Documents(docs) = printed /\ printed' \o Documents(docs) = printed'
    BY <1>1, <2>1, <2>3, NothingWaits
  <2>5. Covers(printed, Traced) => Covers(Append(printed, <<"start", at>>), Traced)
    BY <1>1, CoversMore
  <2>. QED  BY <1>3, <2>3, <2>4, <2>5
<1>. QED  BY <1>2, <1>3 DEF Announces

\* A step of the loop that decides nothing.
LEMMA MoveKeeps ==
    ASSUME AccountInv, pc \in Looping, pc' \in Running, exit' = exit, at <= Len(RunList),
           UNCHANGED <<world, argv, targets, at, docs, outcome>>, Announces
    PROVE  AccountInv'
<1>1. Types /\ Fresh /\ Standing /\ Reported
  BY DEF AccountInv
<1>2. Mode' = Mode /\ RunList' = RunList
  BY SameList
<1>3. at \in Nat /\ at \notin Traced
  BY <1>1 DEF Types, Traced
<1>4. pc \in Begun /\ pc' \in Begun /\ pc' # "print" /\ pc # "print" /\ pc' \notin Loading
      /\ pc' # "exit" /\ pc # "exit" /\ pc \notin Loading /\ pc # "init"
  BY DEF Looping, Running, Begun, Loading
<1>5. Types'
  <2>2. printed' \in Seq(Lines)
    BY <1>1, AnnounceCovers DEF Reported
  <2>3. IsList(argv)' /\ IsList(targets)' /\ WellFormed(world)'
    BY <1>1 DEF Types
  <2>4. outcome' \in Seq(Results) /\ at' = Len(outcome') + 1 /\ docs' \in Seq(Nat)
    BY <1>1 DEF Types
  <2>. QED  BY <1>4, <2>2, <2>3, <2>4 DEF Types
<1>6. Fresh'
  <2>1. "init_config" \notin Given(argv)
    BY <1>1, <1>4 DEF Fresh
  <2>2. "init_config" \notin Given(argv')
    BY <2>1
  <2>. QED  BY <1>4, <2>2 DEF Fresh
<1>7. Standing'
  <2>1. Due' = Due /\ (Stopped' <=> Stopped) /\ (OnlyLast' <=> OnlyLast)
    BY DEF Due, Stopped, OnlyLast, Failed
  <2>. QED  BY <1>1, <1>2, <1>4, <2>1 DEF Standing
<1>8. Reported'
  <2>1. Traced' = Traced
    BY DEF Traced
  <2>2. docs' # <<>> => Mode' = "json"
    BY <1>1, <1>2 DEF Reported
  <2>3. ASSUME Mode # "tui"
        PROVE  Covers(printed' \o Documents(docs), Traced)
    <3>1. Covers(printed \o Documents(docs), Traced)
      BY <1>1, <1>4, <2>3 DEF Reported
    <3>. QED  BY <1>1, <3>1, AnnounceCovers DEF Reported
  <2>4. Documents(docs') = Documents(docs)
    OBVIOUS
  <2>. QED  BY <1>2, <1>4, <2>1, <2>2, <2>3, <2>4 DEF Reported
<1>. QED  BY <1>5, <1>6, <1>7, <1>8 DEF AccountInv

\* A target that fails, wherever its failure is met.
LEMMA FailKeeps ==
    ASSUME AccountInv, pc \in Looping, TargetFails, at <= Len(RunList),
           UNCHANGED <<world, argv, targets>>, Announces
    PROVE  AccountInv'
<1>1. Types /\ Fresh /\ Standing /\ Reported
  BY DEF AccountInv
<1>2. Mode' = Mode /\ RunList' = RunList
  BY SameList
<1>3. /\ outcome' = Append(outcome, "failed") /\ at' = at + 1 /\ docs' = docs /\ exit' = 1
      /\ pc' = IF Mode = "tui" THEN "exit" ELSE "targets"
  BY DEF TargetFails, Exit
<1>4. pc \in Begun /\ pc # "print" /\ pc # "exit" /\ pc \notin Loading /\ pc # "init"
  BY DEF Looping, Running, Begun, Loading
<1>5. OnlyLast /\ ~Stopped
  BY <1>1, <1>4 DEF Standing
<1>6. /\ outcome' \in Seq(Results) /\ Len(outcome') = at /\ outcome' # <<>>
      /\ at \in Nat /\ at \notin Traced
      /\ Traced' = Traced /\ Failed' /\ ~Stopped' /\ OnlyLast'
  <2>1. "failed" \in Results
    BY DEF Results
  <2>. QED  BY <1>1, <1>3, <1>5, <2>1, OneMore
<1>7. Types'
  <2>2. printed' \in Seq(Lines)
    BY <1>1, AnnounceCovers DEF Reported
  <2>3. IsList(argv)' /\ IsList(targets)' /\ WellFormed(world)'
    BY <1>1 DEF Types
  <2>4. docs' \in Seq(Nat)
    BY <1>1, <1>3 DEF Types
  <2>5. pc' \in Loading \cup Begun \cup {"exit"}
    BY <1>3 DEF Begun, Looping
  <2>. QED  BY <1>3, <1>6, <2>2, <2>3, <2>4, <2>5 DEF Types
<1>8. Fresh'
  <2>1. "init_config" \notin Given(argv)
    BY <1>1, <1>4 DEF Fresh
  <2>2. "init_config" \notin Given(argv')
    BY <2>1
  <2>3. pc' \notin Loading
    BY <1>3 DEF Loading
  <2>. QED  BY <2>2, <2>3 DEF Fresh
<1>9. Standing'
  <2>1. Due' = 1
    BY <1>6 DEF Due
  <2>2. pc' # "print" /\ pc' \notin Running
    BY <1>3 DEF Running
  <2>3. Len(outcome') <= Len(RunList')
    BY <1>2, <1>6
  <2>. QED  BY <1>2, <1>3, <1>6, <2>1, <2>2, <2>3 DEF Standing
<1>10. Reported'
  <2>1. docs' # <<>> => Mode' = "json"
    BY <1>1, <1>2, <1>3 DEF Reported
  <2>2. ASSUME Mode # "tui"
        PROVE  Covers(printed' \o Documents(docs), Traced)
    <3>1. Covers(printed \o Documents(docs), Traced)
      BY <1>1, <1>4, <2>2 DEF Reported
    <3>. QED  BY <1>1, <3>1, AnnounceCovers DEF Reported
  <2>3. Documents(docs') = Documents(docs)
    BY <1>3
  <2>4. Mode # "tui" => pc' # "exit"
    BY <1>3
  <2>. QED  BY <1>2, <1>6, <2>1, <2>2, <2>3, <2>4 DEF Reported
<1>. QED  BY <1>7, <1>8, <1>9, <1>10 DEF AccountInv

\* The end of a run, by itself or by Ctrl-C, puts its target on record.
LEMMA OutputKeeps ==
    ASSUME AccountInv, pc = "running", NEW result \in {"done", "interrupted"}, Output(result),
           exit' = IF result = "done" THEN exit ELSE 130,
           pc' = IF result = "done" THEN "targets" ELSE "print",
           UNCHANGED <<world, argv, targets>>
    PROVE  AccountInv'
<1>1. Types /\ Fresh /\ Standing /\ Reported
  BY DEF AccountInv
<1>2. Mode' = Mode /\ RunList' = RunList
  BY SameList
<1>3. /\ outcome' = Append(outcome, result) /\ at' = at + 1
      /\ docs' = IF Mode = "json" THEN Append(docs, at) ELSE docs
      /\ printed' = IF Mode \in {"report", "csv"} \/ (Mode = "tui" /\ Args.report_on_exit)
                    THEN Append(printed, <<"report", at>>) ELSE printed
  BY DEF Output
<1>4. pc \in Begun /\ pc # "print" /\ pc # "exit" /\ pc \notin Loading /\ pc # "init"
      /\ pc' \in Begun /\ pc' \notin Loading /\ pc' # "exit" /\ pc' \notin Running
      /\ pc \in Running
  BY DEF Looping, Running, Begun, Loading
<1>5. OnlyLast /\ ~Stopped /\ at <= Len(RunList) /\ exit = Due
  BY <1>1, <1>4 DEF Standing
<1>6. /\ outcome' \in Seq(Results) /\ Len(outcome') = at /\ outcome' # <<>>
      /\ at \in Nat /\ at \notin Traced
      /\ Traced' = Traced \cup {at} /\ (Failed' <=> Failed)
      /\ (Stopped' <=> result = "interrupted") /\ OnlyLast'
  <2>1. result \in Results /\ result # "failed"
    BY DEF Results
  <2>. QED  BY <1>1, <1>3, <1>5, <2>1, OneMore
<1>7. printed \in Seq(Lines) /\ docs \in Seq(Nat) /\ <<"report", at>> \in Lines
  BY <1>1, <1>6 DEF Types, Lines
<1>8. /\ Append(printed, <<"report", at>>) \in Seq(Lines) /\ Append(docs, at) \in Seq(Nat)
  BY <1>6, <1>7, AppendProperties
<1>9. Types'
  <2>1. printed' \in Seq(Lines)
    BY <1>3, <1>7, <1>8
  <2>2. docs' \in Seq(Nat)
    BY <1>3, <1>7, <1>8
  <2>3. IsList(argv)' /\ IsList(targets)' /\ WellFormed(world)'
    BY <1>1 DEF Types
  <2>. QED  BY <1>3, <1>4, <1>6, <2>1, <2>2, <2>3 DEF Types
<1>10. Fresh'
  <2>1. "init_config" \notin Given(argv)
    BY <1>1, <1>4 DEF Fresh
  <2>2. "init_config" \notin Given(argv')
    BY <2>1
  <2>. QED  BY <1>4, <2>2 DEF Fresh
<1>11. Standing'
  <2>1. exit' = Due'
    BY <1>5, <1>6 DEF Due
  <2>2. pc' = "print" <=> Stopped'
    BY <1>6
  <2>3. Len(outcome') <= Len(RunList')
    BY <1>2, <1>5, <1>6
  <2>. QED  BY <1>4, <1>6, <2>1, <2>2, <2>3 DEF Standing
<1>12. Reported'
  <2>1. docs # <<>> => Mode = "json"
    BY <1>1 DEF Reported
  <2>2. docs' # <<>> => Mode' = "json"
    BY <1>2, <1>3, <2>1
  <2>3. ASSUME Mode # "tui"
        PROVE  Covers(printed' \o Documents(docs'), Traced \cup {at})
    <3>1. Covers(printed \o Documents(docs), Traced)
      BY <1>1, <1>4, <2>3 DEF Reported
    <3>2. printed \o Documents(docs) \in Seq(Lines)
      BY <1>6, <1>7, DocumentLines
    <3>3. Covers(Append(printed \o Documents(docs), <<"report", at>>), Traced \cup {at})
      BY <3>1, <3>2, <1>6, CoversMore
    <3>4. CASE Mode = "json"
      <4>1. docs' = Append(docs, at) /\ printed' = printed
        BY <3>4, <1>3
      <4>2. printed \o Documents(Append(docs, at))
              = Append(printed \o Documents(docs), <<"report", at>>)
        BY <1>6, <1>7, DocumentLines
      <4>. QED  BY <3>3, <4>1, <4>2
    <3>5. CASE Mode # "json"
      <4>1. Mode \in {"report", "csv"}
        BY <3>5, <2>3, <1>1, ModeType DEF Mode, Types
      <4>2. docs' = <<>> /\ docs = <<>> /\ printed' = Append(printed, <<"report", at>>)
        BY <4>1, <1>3, <2>1
      <4>3. printed \o Documents(<<>>) = printed /\ printed' \o Documents(<<>>) = printed'
        BY <4>2, <1>7, <1>8, NothingWaits
      <4>. QED  BY <3>3, <4>2, <4>3
    <3>. QED  BY <3>4, <3>5
  <2>. QED  BY <1>2, <1>4, <1>6, <2>2, <2>3 DEF Reported
<1>. QED  BY <1>9, <1>10, <1>11, <1>12 DEF AccountInv

\* The documents that waited are printed, whatever became of the last target.
LEMMA PrintKeeps ==
    ASSUME AccountInv, PrintDocuments
    PROVE  AccountInv'
<1>1. Types /\ Fresh /\ Standing /\ Reported
  BY DEF AccountInv
<1>2. /\ pc = "print" \/ (pc = "targets" /\ at > Len(RunList))
      /\ printed' = printed \o Documents(docs)
      /\ pc' = "exit" /\ exit' = exit
      /\ UNCHANGED <<world, argv, targets, at, docs, outcome>>
  BY DEF PrintDocuments, Documents, Exit, LoopStep
<1>3. Mode' = Mode /\ RunList' = RunList
  BY <1>2, SameList
<1>4. pc \in Begun /\ pc # "exit" /\ pc \notin Loading /\ pc # "init"
      /\ pc' \notin Begun /\ pc' \notin Loading /\ pc' \notin Running
  BY <1>2 DEF Looping, Running, Begun, Loading
<1>5. Due' = Due /\ (Stopped' <=> Stopped) /\ (OnlyLast' <=> OnlyLast) /\ Traced' = Traced
      /\ (Failed' <=> Failed)
  BY <1>2 DEF Due, Stopped, OnlyLast, Failed, Traced
<1>6. Types'
  <2>1. printed' \in Seq(Lines)
    <3>1. 0 \in Nat
      OBVIOUS
    <3>. QED  BY <1>1, <1>2, <3>1, DocumentLines DEF Types
  <2>2. IsList(argv)' /\ IsList(targets)' /\ WellFormed(world)'
    BY <1>1, <1>2 DEF Types
  <2>3. outcome' \in Seq(Results) /\ at' = Len(outcome') + 1 /\ docs' \in Seq(Nat)
    BY <1>1, <1>2 DEF Types
  <2>. QED  BY <1>2, <2>1, <2>2, <2>3 DEF Types
<1>7. Fresh'
  <2>1. "init_config" \notin Given(argv)
    BY <1>1, <1>4 DEF Fresh
  <2>2. "init_config" \notin Given(argv')
    BY <2>1, <1>2
  <2>. QED  BY <1>4, <2>2 DEF Fresh
<1>8. Standing'
  <2>1. exit' = Due'
    BY <1>1, <1>2, <1>4, <1>5 DEF Standing
  <2>2. outcome' # <<>> => Len(outcome') <= Len(RunList')
    BY <1>1, <1>2, <1>3 DEF Standing
  <2>3. outcome # <<>> => Stopped \/ Len(outcome) = Len(RunList)
    <3>1. CASE pc = "print"
      BY <3>1, <1>1, <1>4 DEF Standing
    <3>2. CASE at > Len(RunList)
      <4>1. Len(RunList) \in Nat /\ Len(outcome) \in Nat /\ at = Len(outcome) + 1
        BY <1>1, ListLength DEF Types
      <4>. QED  BY <3>2, <4>1, <1>1 DEF Standing
    <3>. QED  BY <3>1, <3>2, <1>2
  <2>4. OnlyLast'
    BY <1>1, <1>5 DEF Standing
  <2>5. Len(outcome') = Len(outcome) /\ (outcome' # <<>> <=> outcome # <<>>)
    BY <1>2
  <2>6. outcome' # <<>> => Stopped' \/ Len(outcome') = Len(RunList')
    BY <2>3, <2>5, <1>3, <1>5
  <2>. QED  BY <1>4, <2>1, <2>2, <2>4, <2>6 DEF Standing
<1>9. Reported'
  <2>1. docs' # <<>> => Mode' = "json"
    BY <1>1, <1>2, <1>3 DEF Reported
  <2>2. Mode # "tui" => Covers(printed', Traced)
    BY <1>1, <1>2, <1>4 DEF Reported
  <2>. QED  BY <1>3, <1>4, <1>5, <2>1, <2>2 DEF Reported
<1>. QED  BY <1>6, <1>7, <1>8, <1>9 DEF AccountInv

\* What happens before the loop, and the step to another process, change nothing in it.
LEMMA LoadKeeps ==
    ASSUME AccountInv, WellFormed(world)', IsList(argv)', IsList(targets)', Untouched,
           UNCHANGED <<at, docs, outcome, printed>>,
           pc' \in Loading \cup {"targets", "exit"}, pc' \in Loading \cup {"targets"} => exit' = 0,
           "init_config" \in Given(argv') => pc' \in {"init", "exit"}
    PROVE  AccountInv'
<1>1. Types /\ outcome = <<>> /\ docs = <<>> /\ printed = <<>>
  BY DEF AccountInv, Untouched
<1>2. outcome' = <<>> /\ docs' = <<>> /\ printed' = <<>>
  BY <1>1
<1>3. Types'
  <2>1. outcome' \in Seq(Results) /\ docs' \in Seq(Nat) /\ printed' \in Seq(Lines)
    BY <1>2
  <2>2. at' = Len(outcome') + 1
    BY <1>1, <1>2 DEF Types
  <2>3. pc' \in Loading \cup Begun \cup {"exit"}
    BY DEF Begun, Looping
  <2>. QED  BY <2>1, <2>2, <2>3 DEF Types
<1>4. Fresh'
  <2>1. pc' \in Loading => exit' = 0
    OBVIOUS
  <2>. QED  BY <1>2, <2>1 DEF Fresh, Untouched
<1>5. Standing'
  <2>1. OnlyLast' /\ ~Stopped' /\ ~Failed'
    BY <1>2 DEF OnlyLast, Stopped, Failed
  <2>2. pc' \in Begun => pc' = "targets"
    BY DEF Begun, Looping, Running, Loading
  <2>3. pc' \notin Running /\ (pc' \in Begun => exit' = 0)
    BY <2>2 DEF Running, Loading
  <2>. QED  BY <1>2, <2>1, <2>2, <2>3 DEF Standing, Due
<1>6. Reported'
  <2>1. Traced' = {}
    BY <1>2 DEF Traced
  <2>2. Covers(<<>>, {})
    BY DEF Covers
  <2>3. printed' \o Documents(docs') = <<>>
    BY <1>2 DEF Documents
  <2>. QED  BY <1>2, <2>1, <2>2, <2>3 DEF Reported
<1>. QED  BY <1>3, <1>4, <1>5, <1>6 DEF AccountInv

\* A step of the loop goes on with its target, or the target has failed.
LEMMA LoopMove ==
    ASSUME AccountInv, pc \in Looping, pc = "targets" => at <= Len(RunList),
           UNCHANGED <<world, argv, targets>>, Announces \/ printed' = printed,
           TargetFails \/ \E place \in Running : Proceed(place)
    PROVE  AccountInv'
<1>1. at <= Len(RunList)
  BY DEF AccountInv, Standing, Looping, Begun
<1>2. Announces
  BY DEF Announces
<1>3. CASE TargetFails
  BY <1>1, <1>2, <1>3, FailKeeps
<1>4. CASE \E place \in Running : Proceed(place)
  <2>1. PICK place \in Running : Proceed(place)
    BY <1>4
  <2>2. pc' \in Running /\ exit' = exit /\ UNCHANGED <<at, docs, outcome>>
    BY <2>1 DEF Proceed, Goto
  <2>. QED  BY <1>1, <1>2, <2>2, MoveKeeps
<1>. QED  BY <1>3, <1>4

-----------------------------------------------------------------------------
(* Every target counts *)

\* Every world is well-formed.
LEMMA WorldsWellFormed == \A w \in Worlds : WellFormed(w)
BY SessionAssumption, Zenon DEF WellFormed, IsList, Addresses

\* The accounts are right when a process starts.
LEMMA AccountInit == Init => AccountInv
<1>. SUFFICES ASSUME Init PROVE AccountInv
  OBVIOUS
<1>1. WellFormed(world)
  BY WorldsWellFormed DEF Init
<1>2. /\ pc = "start" /\ argv = <<>> /\ targets = <<>> /\ at = 1 /\ docs = <<>>
      /\ exit = 0 /\ outcome = <<>> /\ printed = <<>>
  BY DEF Init
<1>3. pc \in Loading /\ pc \notin Begun /\ pc # "exit" /\ pc \notin Running
  BY <1>2 DEF Loading, Begun, Looping, Running
<1>4. Types
  <2>1. IsList(<<>>)
    BY EmptyList
  <2>. QED  BY <1>1, <1>2, <1>3, <2>1 DEF Types
<1>5. Fresh
  <2>1. "init_config" \notin Given(argv)
    BY <1>2 DEF Given
  <2>. QED  BY <1>2, <2>1 DEF Fresh, Untouched
<1>6. Standing
  BY <1>2, <1>3 DEF Standing, OnlyLast
<1>7. Reported
  BY <1>2, <1>3 DEF Reported
<1>. QED  BY <1>4, <1>5, <1>6, <1>7 DEF AccountInv

\* Every step keeps them.
LEMMA AccountStep == AccountInv /\ Next => AccountInv'
<1>. SUFFICES ASSUME AccountInv, Next PROVE AccountInv'
  OBVIOUS
<1>1. Types /\ Fresh /\ Standing /\ Reported
  BY DEF AccountInv
<1>2. WellFormed(world) /\ IsList(argv) /\ IsList(targets)
  BY <1>1 DEF Types
<1>3. pc \in Loading => Untouched /\ exit = 0
  BY <1>1 DEF Fresh
<1>4. "init_config" \in Given(argv) => pc \in {"init", "exit"} /\ Untouched
  BY <1>1 DEF Fresh
<1>5. CASE Parse
  <2>1. pc = "start" /\ UNCHANGED <<world, targets, at, docs, outcome, printed>>
    BY <1>5 DEF Parse, loopVars
  <2>2. pc \in Loading /\ argv = argv /\ "init_config" \notin Given(argv)
    BY <2>1, <1>4 DEF Loading
  <2>3. Untouched /\ exit = 0
    BY <2>2, <1>3
  <2>4. CASE Wrong \in {world.env, world.words} \/ world.words = Help
    <3>1. pc' = "exit" /\ argv' = argv
      BY <1>5, <2>4 DEF Parse, Exit
    <3>2. "init_config" \notin Given(argv') /\ IsList(argv)' /\ IsList(targets)'
          /\ WellFormed(world)'
      BY <3>1, <2>1, <2>2, <1>2
    <3>. QED  BY <2>1, <2>3, <3>1, <3>2, LoadKeeps DEF Loading
  <2>5. CASE ~(Wrong \in {world.env, world.words} \/ world.words = Help)
    <3>1. argv' = BuildArgv(world.env, world.words)
      BY <1>5, <2>5 DEF Parse
    <3>2. IsList(argv)'
      <4>1. IsList(world.env) /\ IsList(world.words)
        BY <2>5, <1>2, WordsList DEF WellFormed
      <4>2. IsList(BuildArgv(world.env, world.words))
        BY <4>1, ListsJoin DEF BuildArgv
      <4>. QED  BY <3>1, <4>2
    <3>3. (CASE "version" \in Given(argv')     -> Exit(0)
             [] "init_config" \in Given(argv') -> Goto("init")
             [] OTHER                          -> Goto("config"))
      BY <1>5, <2>5 DEF Parse
    <3>4. \/ pc' = "exit"
          \/ pc' = "init" /\ exit' = exit
          \/ pc' = "config" /\ exit' = exit /\ "init_config" \notin Given(argv')
      <4>1. CASE "version" \in Given(argv') /\ "init_config" \in Given(argv')
        <5>1. Exit(0) \/ Goto("init")
          BY <4>1, <3>3
        <5>. QED  BY <5>1 DEF Exit, Goto
      <4>2. CASE "version" \in Given(argv') /\ "init_config" \notin Given(argv')
        <5>1. Exit(0)
          BY <4>2, <3>3
        <5>. QED  BY <5>1 DEF Exit
      <4>3. CASE "version" \notin Given(argv') /\ "init_config" \in Given(argv')
        <5>1. Goto("init")
          BY <4>3, <3>3
        <5>. QED  BY <5>1 DEF Goto
      <4>4. CASE "version" \notin Given(argv') /\ "init_config" \notin Given(argv')
        <5>1. Goto("config")
          BY <4>4, <3>3
        <5>. QED  BY <5>1, <4>4 DEF Goto
      <4>. QED  BY <4>1, <4>2, <4>3, <4>4
    <3>5. WellFormed(world)' /\ IsList(targets)'
      BY <2>1, <1>2
    <3>6. pc' \in Loading \cup {"targets", "exit"}
          /\ (pc' \in Loading \cup {"targets"} => exit' = 0)
          /\ ("init_config" \in Given(argv') => pc' \in {"init", "exit"})
      BY <2>3, <3>4 DEF Loading
    <3>. QED  BY <2>1, <2>3, <3>2, <3>5, <3>6, LoadKeeps
  <2>. QED  BY <2>4, <2>5
<1>6. CASE InitConfig
  <2>1. /\ pc = "init" /\ pc' = "exit"
        /\ UNCHANGED <<world, argv, targets, at, docs, outcome, printed>>
    BY <1>6 DEF InitConfig, loopVars, Exit
  <2>2. WellFormed(world)' /\ IsList(argv)' /\ IsList(targets)' /\ Untouched
    BY <2>1, <1>2, <1>3 DEF Loading
  <2>. QED  BY <2>1, <2>2, LoadKeeps DEF Loading
<1>7. CASE LoadConfig
  <2>1. pc = "config" /\ UNCHANGED <<world, argv, targets, at, docs, outcome, printed>>
    BY <1>7 DEF LoadConfig, loopVars
  <2>2. WellFormed(world)' /\ IsList(argv)' /\ IsList(targets)' /\ Untouched /\ exit = 0
        /\ "init_config" \notin Given(argv')
    BY <2>1, <1>2, <1>3, <1>4 DEF Loading
  <2>3. Exit(1) \/ Goto("hosts")
    BY <1>7 DEF LoadConfig
  <2>4. pc' = "exit" \/ (pc' = "hosts" /\ exit' = 0)
    BY <2>2, <2>3 DEF Exit, Goto
  <2>. QED  BY <2>1, <2>2, <2>4, LoadKeeps DEF Loading
<1>8. CASE IntoOptions
  <2>1. pc = "hosts" /\ UNCHANGED <<world, argv, at, docs, outcome, printed>>
    BY <1>8 DEF IntoOptions
  <2>2. WellFormed(world)' /\ IsList(argv)' /\ Untouched /\ exit = 0
        /\ "init_config" \notin Given(argv')
    BY <2>1, <1>2, <1>3, <1>4 DEF Loading
  <2>3. \/ HostsGiven # None /\ Goto("preflight") /\ targets' = Targets(HostsGiven)
        \/ Exit(1) /\ targets' = targets
    BY <1>8 DEF IntoOptions
  <2>4. (pc' = "preflight" /\ exit' = 0) \/ pc' = "exit"
    BY <2>2, <2>3 DEF Exit, Goto
  <2>5. IsList(targets)'
    <3>1. HostsGiven # None => IsList(HostsGiven)
      <4>1. IsList(world.hosts)
        BY <1>2 DEF WellFormed
      <4>2. world.hostFile # None => IsList(world.hostFile \o world.hosts)
        BY <4>1, <1>2, ListsJoin DEF WellFormed
      <4>. QED  BY <4>1, <4>2 DEF HostsGiven
    <3>2. HostsGiven # None => IsList(Targets(HostsGiven))
      BY <3>1, TargetsList
    <3>. QED  BY <2>3, <3>2, <1>2
  <2>. QED  BY <2>1, <2>2, <2>4, <2>5, LoadKeeps DEF Loading
<1>9. CASE Preflight
  <2>1. pc = "preflight" /\ UNCHANGED <<world, argv, targets, at, docs, outcome, printed>>
    BY <1>9 DEF Preflight
  <2>2. WellFormed(world)' /\ IsList(argv)' /\ IsList(targets)' /\ Untouched /\ exit = 0
        /\ "init_config" \notin Given(argv')
    BY <2>1, <1>2, <1>3, <1>4 DEF Loading
  <2>3. pc' \in {"targets", "resolve all"} /\ exit' = 0
    BY <1>9, <2>2 DEF Preflight, Goto
  <2>. QED  BY <2>1, <2>2, <2>3, LoadKeeps DEF Loading
<1>10. CASE ResolveAll
  <2>1. pc = "resolve all" /\ UNCHANGED <<world, argv, targets, at, docs, outcome, printed>>
    BY <1>10 DEF ResolveAll
  <2>2. WellFormed(world)' /\ IsList(argv)' /\ IsList(targets)' /\ Untouched /\ exit = 0
        /\ "init_config" \notin Given(argv')
    BY <2>1, <1>2, <1>3, <1>4 DEF Loading
  <2>3. (pc' \in {"targets", "resolve all"} /\ exit' = 0) \/ pc' = "exit"
    BY <1>10, <2>2 DEF ResolveAll, Goto, Exit
  <2>. QED  BY <2>1, <2>2, <2>3, LoadKeeps DEF Loading
<1>11. CASE ResolveNext
  <2>1. /\ pc = "targets" /\ at <= Len(RunList) /\ UNCHANGED <<world, argv, targets, printed>>
        /\ TargetFails \/ Proceed("local")
    BY <1>11 DEF ResolveNext, LoopStep
  <2>. QED  BY <2>1, LoopMove DEF Looping, Running
<1>12. CASE FindLocal
  <2>1. /\ pc = "local" /\ UNCHANGED <<world, argv, targets, printed>>
        /\ TargetFails \/ Proceed("spawn")
    BY <1>12 DEF FindLocal, LoopStep
  <2>. QED  BY <2>1, LoopMove DEF Looping, Running
<1>13. CASE Spawn
  <2>1. /\ pc = "spawn" /\ UNCHANGED <<world, argv, targets, printed>>
        /\ TargetFails \/ Proceed("check")
    BY <1>13 DEF Spawn, LoopStep
  <2>. QED  BY <2>1, LoopMove DEF Looping, Running
<1>14. CASE Check
  <2>1. /\ pc = "check" /\ UNCHANGED <<world, argv, targets, printed>>
        /\ TargetFails \/ Proceed("check")
    BY <1>14 DEF Check, LoopStep
  <2>. QED  BY <2>1, LoopMove DEF Looping, Running
<1>15. CASE Begin
  <2>1. /\ pc = "check" /\ UNCHANGED <<world, argv, targets>> /\ Announces
        /\ TargetFails \/ Proceed("running")
    BY <1>15 DEF Begin, LoopStep, Announces
  <2>. QED  BY <2>1, LoopMove DEF Looping, Running
<1>16. CASE Finished
  <2>1. /\ pc = "running" /\ Output("done") /\ Goto("targets")
        /\ UNCHANGED <<world, argv, targets>>
    BY <1>16 DEF Finished, LoopStep
  <2>2. exit' = IF "done" = "done" THEN exit ELSE 130
    BY <2>1 DEF Goto
  <2>3. pc' = IF "done" = "done" THEN "targets" ELSE "print"
    BY <2>1 DEF Goto
  <2>. QED  BY <2>1, <2>2, <2>3, OutputKeeps
<1>17. CASE Interrupted
  <2>1. /\ pc = "running" /\ Output("interrupted") /\ pc' = "print" /\ exit' = 130
        /\ UNCHANGED <<world, argv, targets>>
    BY <1>17 DEF Interrupted, LoopStep
  <2>2. exit' = IF "interrupted" = "done" THEN exit ELSE 130
    BY <2>1
  <2>3. pc' = IF "interrupted" = "done" THEN "targets" ELSE "print"
    BY <2>1
  <2>. QED  BY <2>1, <2>2, <2>3, OutputKeeps
<1>18. CASE RunFails
  <2>1. pc = "running" /\ UNCHANGED <<world, argv, targets, printed>> /\ TargetFails
    BY <1>18 DEF RunFails, LoopStep
  <2>. QED  BY <2>1, LoopMove DEF Looping, Running
<1>19. CASE PrintDocuments
  BY <1>19, PrintKeeps
<1>20. CASE NextProcess
  <2>1. PICK words \in LaterWords : world' = [world EXCEPT !.words = words]
    BY <1>20 DEF NextProcess
  <2>2. /\ pc = "exit" /\ "init_config" \in Given(argv) /\ pc' = "start" /\ exit' = 0
        /\ argv' = <<>> /\ UNCHANGED <<targets, at, docs, outcome, printed>>
    BY <1>20 DEF NextProcess, loopVars
  <2>3. AreWords(words)
    BY SessionAssumption
  <2>4. WellFormed(world)'
    <3>1. /\ DOMAIN world' = DOMAIN world
          /\ \A field \in DOMAIN world : field # "words" => world'[field] = world[field]
          /\ "words" \in DOMAIN world => world'["words"] = words
      BY <2>1
    <3>. QED  BY <3>1, <2>3, <1>2 DEF WellFormed
  <2>5. IsList(argv)' /\ IsList(targets)' /\ "init_config" \notin Given(argv') /\ Untouched
    BY <2>2, <1>2, <1>4, EmptyList DEF Given
  <2>. QED  BY <2>2, <2>4, <2>5, LoadKeeps DEF Loading
<1>. QED
  BY <1>5, <1>6, <1>7, <1>8, <1>9, <1>10, <1>11, <1>12, <1>13, <1>14, <1>15, <1>16, <1>17,
     <1>18, <1>19, <1>20 DEF Next

\* The exit status and the output account for every target once the process has ended.
LEMMA AccountsTell == AccountInv => EveryTargetCounts
<1>. SUFFICES ASSUME AccountInv, pc = "exit", outcome # <<>>
              PROVE  /\ exit = 0 <=> (Traced = DOMAIN RunList /\ Last(outcome) = "done")
                     /\ exit = 130 <=> Last(outcome) = "interrupted"
                     /\ Mode # "tui" =>
                        /\ Len(outcome) = Len(RunList) \/ exit = 130
                        /\ {p[2] : p \in {q \in ToSet(printed) : q[1] = "report"}} = Traced
                        /\ Cardinality({i \in DOMAIN printed : printed[i][1] = "report"})
                             = Cardinality(Traced)
  BY DEF EveryTargetCounts, Traced
<1>1. /\ outcome \in Seq(Results) /\ printed \in Seq(Lines) /\ IsList(targets)
      /\ OnlyLast /\ Len(outcome) <= Len(RunList) /\ exit = Due
      /\ (Mode = "tui" /\ Failed) \/ Stopped \/ Len(outcome) = Len(RunList)
      /\ Mode # "tui" => Covers(printed, Traced)
  BY DEF AccountInv, Types, Standing, Reported
<1>2. /\ Len(outcome) \in Nat /\ Len(outcome) > 0 /\ DOMAIN outcome = 1..Len(outcome)
      /\ Len(RunList) \in Nat /\ DOMAIN RunList = 1..Len(RunList)
      /\ Last(outcome) = outcome[Len(outcome)] /\ Len(outcome) \in DOMAIN outcome
      /\ Last(outcome) \in Results
  <2>1. Len(outcome) \in Nat /\ Len(outcome) > 0 /\ DOMAIN outcome = 1..Len(outcome)
    BY <1>1, EmptySeq, LenProperties
  <2>2. Len(outcome) \in DOMAIN outcome /\ outcome[Len(outcome)] \in Results
    BY <1>1, <2>1
  <2>3. Len(RunList) \in Nat /\ DOMAIN RunList = 1..Len(RunList)
    BY <1>1, ListLength
  <2>. QED  BY <2>1, <2>2, <2>3 DEF Last
<1>3. Stopped <=> Last(outcome) = "interrupted"
  BY <1>2 DEF Stopped
<1>4. Failed <=> Traced # DOMAIN outcome
  BY DEF Failed, Traced
<1>5. exit = 130 <=> Last(outcome) = "interrupted"
  BY <1>1, <1>3 DEF Due
<1>6. ASSUME exit = 0  PROVE Traced = DOMAIN RunList /\ Last(outcome) = "done"
  <2>1. ~Stopped /\ ~Failed
    BY <1>6, <1>1 DEF Due
  <2>2. Traced = DOMAIN outcome /\ Len(outcome) = Len(RunList)
    BY <2>1, <1>1, <1>4
  <2>3. Last(outcome) # "failed"
    BY <2>1, <1>2 DEF Failed
  <2>. QED  BY <2>1, <2>2, <2>3, <1>2, <1>3 DEF Results
<1>7. ASSUME Traced = DOMAIN RunList, Last(outcome) = "done"  PROVE exit = 0
  <2>1. Traced \subseteq DOMAIN outcome
    BY DEF Traced
  <2>2. DOMAIN outcome \subseteq DOMAIN RunList
    <3>1. \A m, n \in Nat : m <= n => 1..m \subseteq 1..n
      OBVIOUS
    <3>. QED  BY <3>1, <1>1, <1>2
  <2>3. ~Failed /\ ~Stopped
    BY <1>3, <1>4, <1>7, <2>1, <2>2
  <2>. QED  BY <1>1, <2>3 DEF Due
<1>8. ASSUME Mode # "tui"  PROVE Len(outcome) = Len(RunList) \/ exit = 130
  BY <1>1, <1>8 DEF Due
<1>9. ASSUME Mode # "tui"
      PROVE  /\ {p[2] : p \in {q \in ToSet(printed) : q[1] = "report"}} = Traced
             /\ Cardinality({i \in DOMAIN printed : printed[i][1] = "report"})
                  = Cardinality(Traced)
  BY <1>1, <1>9, CoversCount
<1>. QED  BY <1>5, <1>6, <1>7, <1>8, <1>9

\* Standing still changes no account.
LEMMA AccountStutter == AccountInv /\ UNCHANGED vars => AccountInv'
BY DEF vars, loopVars, AccountInv, Types, Fresh, Untouched, Standing, OnlyLast, Due, Stopped,
       Failed, Mode, RunList, Reported, Traced

\* The exit status and the output of a process account for every one of its targets, in every
\* mode, whichever of them fail or are interrupted and at which stage.
THEOREM TargetsCount == Spec => []EveryTargetCounts
<1>1. AccountInv /\ [Next]_vars => AccountInv'
  BY AccountStep, AccountStutter
<1>. QED  BY <1>1, AccountInit, AccountsTell, PTL DEF Spec

-----------------------------------------------------------------------------
(* One family *)

\* The family asked for now is the one asked for at the start, or that of all the addresses so
\* far; the address, the source address and the features of a run are of one family.
Related ==
    /\ pc \in Begun \cup {"resolve all"} => af \in Families /\ Requested \in {"any", af}
    /\ pc = "resolve all" \/ (pc \in Begun /\ preflight # None) =>
          /\ preflight \in Seq(Addresses) /\ Mode # "tui"
          /\ \A i \in DOMAIN preflight : FamilyOf(preflight[i]) = af
    /\ pc \in Begun /\ preflight # None => Len(preflight) = Len(targets)
    /\ pc \in Running => ip \in Addresses /\ FamilyOk(ip, Requested)
    /\ pc \in {"spawn", "check", "running"} =>
          (Args.address # None => FamilyOf(Args.address) = FamilyOf(ip))
    /\ pc \in {"local", "spawn"} => confirmed = <<>>
    /\ pc = "check" =>
          /\ confirmed \in Seq(ToSet(Required))
          /\ \A k \in DOMAIN confirmed : confirmed[k] = Required[k]
    /\ pc = "running" => FamilyOf(ip) \in ToSet(confirmed)

\* Every address has a family.
LEMMA FamilyType ==
    /\ \A addr \in Addresses : FamilyOf(addr) \in {"4", "6"}
    /\ \A addr \in Addresses, family \in Families : Unmap(addr, family) \in Addresses
BY DEF Addresses, Families, FamilyOf, Unmap

\* The user asks for one family, or for any.
LEMMA RequestedType == Requested \in Families
BY DEF Requested, Families

\* resolve_target finds an address of the family it is asked for, if it finds one.
LEMMA ResolveFits ==
    ASSUME WellFormed(world), NEW name, NEW family \in Families, Resolve(name, family) # None
    PROVE  /\ Resolve(name, family) \in Addresses
           /\ FamilyOk(Resolve(name, family), family)
<1> DEFINE answers == IF name \in DOMAIN world.answers THEN world.answers[name] ELSE <<>>
           addr(i) == Unmap(answers[i], family)
           fit     == {i \in DOMAIN answers : FamilyOk(addr(i), family)}
<1>1. Resolve(name, family) = IF fit = {} THEN None ELSE addr(Min(fit))
  BY DEF Resolve
<1>2. answers \in Seq(Addresses)
  BY DEF WellFormed
<1>3. fit # {} /\ Resolve(name, family) = addr(Min(fit))
  BY <1>1
<1>. HIDE DEF answers
<1>4. DOMAIN answers \subseteq Nat
  BY <1>2
<1>5. PICK m \in fit : \A i \in fit : m <= i
  <2>1. fit \subseteq Nat
    BY <1>4
  <2>. QED  BY <2>1, <1>3, First
<1>6. Min(fit) \in fit
  <2>. HIDE DEF fit
  <2>. QED  BY <1>5 DEF Min
<1>7. Min(fit) \in DOMAIN answers /\ FamilyOk(addr(Min(fit)), family)
  BY <1>6
<1>8. answers[Min(fit)] \in Addresses
  BY <1>2, <1>7
<1>. QED  BY <1>3, <1>7, <1>8, FamilyType

\* The features asked for: the second is the family.
LEMMA RequiredType ==
    /\ Required \in Seq(ToSet(Required)) /\ Len(Required) \in Nat /\ Len(Required) >= 2
    /\ DOMAIN Required = 1..Len(Required) /\ Required[2] = FamilyOf(ip)
<1> DEFINE s == <<"send-probe", FamilyOf(ip), Protocol(Args)>>
           t == IF OrElse(Args.mark, 0) # 0 THEN <<"mark">> ELSE <<>>
           S == {"send-probe", FamilyOf(ip), Protocol(Args), "mark"}
<1>1. s \in Seq(S) /\ t \in Seq(S) /\ Len(s) = 3 /\ s[2] = FamilyOf(ip) /\ Len(t) \in Nat
  <2>1. s \in Seq(S) /\ Len(s) = 3 /\ s[2] = FamilyOf(ip)
    OBVIOUS
  <2>2. <<>> \in Seq(S) /\ <<"mark">> \in Seq(S)
    OBVIOUS
  <2>3. t \in Seq(S)
    BY <2>2
  <2>. QED  BY <2>1, <2>3, LenProperties
<1>2. Required = s \o t
  BY DEF Required
<1>. HIDE DEF s, t, S
<1>3. /\ s \o t \in Seq(S) /\ Len(s \o t) = 3 + Len(t)
      /\ (s \o t)[2] = s[2] /\ DOMAIN (s \o t) = 1..Len(s \o t)
  <2>1. 2 \in 1..(Len(s) + Len(t)) /\ 2 <= Len(s)
    BY <1>1
  <2>2. /\ s \o t \in Seq(S) /\ Len(s \o t) = Len(s) + Len(t)
        /\ (s \o t)[2] = IF 2 <= Len(s) THEN s[2] ELSE t[2 - Len(s)]
    BY <1>1, <2>1, ConcatProperties
  <2>. QED  BY <1>1, <2>1, <2>2, LenProperties
<1>4. IsList(s \o t)
  BY <1>3, ListOf
<1>. QED  BY <1>1, <1>2, <1>3, <1>4 DEF IsList

\* While a process is in its loop, or resolves its targets, it asks for the same.
LEMMA SameWishes ==
    ASSUME UNCHANGED <<argv, read, targets>>
    PROVE  Mode' = Mode /\ RunList' = RunList /\ Args' = Args /\ Requested' = Requested
BY DEF Mode, RunList, Args, Requested

\* A step that ends a target, or the loop, leaves what resolve_all has found.
LEMMA NextRelated ==
    ASSUME Related, pc \in Begun, pc' \in {"targets", "print", "exit"}, LoopStep
    PROVE  Related'
<1>1. Mode' = Mode /\ Args' = Args /\ Requested' = Requested
      /\ UNCHANGED <<af, preflight, targets>>
  BY SameWishes DEF LoopStep
<1>2. pc' \notin Running /\ pc' \notin {"spawn", "check", "running"} /\ pc' # "resolve all"
  BY DEF Running
<1>. QED  BY <1>1, <1>2 DEF Related

\* A step within a target.
LEMMA WithinRelated ==
    ASSUME Related, pc \in Running, pc' \in Running, LoopStep, ip' = ip,
           pc' \in {"spawn", "check", "running"} =>
              (Args.address # None => FamilyOf(Args.address) = FamilyOf(ip)),
           pc' \in {"local", "spawn"} => confirmed' = <<>>,
           pc' = "check" =>
              /\ confirmed' \in Seq(ToSet(Required))
              /\ \A k \in DOMAIN confirmed' : confirmed'[k] = Required[k],
           pc' = "running" => FamilyOf(ip) \in ToSet(confirmed')
    PROVE  Related'
<1>1. Mode' = Mode /\ Args' = Args /\ Requested' = Requested
      /\ UNCHANGED <<af, preflight, targets, ip>>
  BY SameWishes DEF LoopStep
<1>2. Required' = Required
  BY <1>1 DEF Required
<1>3. pc \in Begun /\ pc' \in Begun /\ pc' # "resolve all"
  BY DEF Running, Begun, Looping
<1>. QED  BY <1>1, <1>2, <1>3 DEF Related

\* Every step keeps them related.
LEMMA RelatedStep == AccountInv /\ Related /\ Next => Related'
<1>. SUFFICES ASSUME AccountInv, Related, Next PROVE Related'
  OBVIOUS
<1>1. /\ WellFormed(world) /\ IsList(targets) /\ at \in Nat /\ at > 0
  BY DEF AccountInv, Types
<1>2. pc' \in {"start", "init", "config", "hosts", "preflight", "exit"} => Related'
  BY DEF Related, Begun, Looping, Running
<1>3. CASE Parse \/ InitConfig \/ LoadConfig \/ IntoOptions \/ NextProcess
  <2>1. Parse => pc' \in {"exit", "init", "config"}
    BY DEF Parse, Exit, Goto
  <2>2. InitConfig => pc' = "exit"
    BY DEF InitConfig, Exit
  <2>3. LoadConfig => pc' \in {"exit", "hosts"}
    BY DEF LoadConfig, Exit, Goto
  <2>4. IntoOptions => pc' \in {"exit", "preflight"}
    BY DEF IntoOptions, Exit, Goto
  <2>5. NextProcess => pc' = "start"
    BY DEF NextProcess
  <2>. QED  BY <1>2, <1>3, <2>1, <2>2, <2>3, <2>4, <2>5
<1>4. CASE Preflight
  <2>1. Mode' = Mode /\ Requested' = Requested /\ af' = Requested
    BY <1>4, SameWishes DEF Preflight
  <2>2. \/ pc' = "targets" /\ preflight' = None
        \/ pc' = "resolve all" /\ preflight' = <<>> /\ Mode # "tui"
    BY <1>4 DEF Preflight, Goto
  <2>3. af' \in Families /\ Requested' \in {"any", af'}
    BY <2>1, RequestedType
  <2>4. CASE pc' = "targets" /\ preflight' = None
    BY <2>3, <2>4 DEF Related, Begun, Looping, Running
  <2>5. CASE pc' = "resolve all" /\ preflight' = <<>> /\ Mode # "tui"
    <3>1. preflight' \in Seq(Addresses) /\ DOMAIN preflight' = {} /\ Mode' # "tui"
      <4>1. <<>> \in Seq(Addresses) /\ DOMAIN <<>> = {}
        BY EmptySeq
      <4>2. Mode' # "tui"
        BY <2>1, <2>5, Zenon
      <4>. QED  BY <4>1, <4>2, <2>5
    <3>. QED  BY <2>3, <2>5, <3>1 DEF Related, Begun, Looping, Running
  <2>. QED  BY <2>2, <2>4, <2>5
<1>5. CASE ResolveAll
  <2>1. /\ pc = "resolve all" /\ Mode' = Mode /\ Requested' = Requested /\ targets' = targets
    BY <1>5, SameWishes DEF ResolveAll
  <2>2. /\ preflight \in Seq(Addresses) /\ Mode # "tui"
        /\ \A i \in DOMAIN preflight : FamilyOf(preflight[i]) = af
        /\ af \in Families /\ Requested \in {"any", af}
    BY <2>1 DEF Related
  <2>3. CASE Len(preflight) = Len(targets)
    <3>1. pc' = "targets" /\ af' = af /\ preflight' = preflight
      BY <1>5, <2>3 DEF ResolveAll, Goto
    <3>. QED  BY <2>1, <2>2, <2>3, <3>1 DEF Related, Begun, Looping, Running
  <2>4. CASE Len(preflight) # Len(targets)
    <3> DEFINE addr == Resolve(targets[Len(preflight) + 1].name, af)
    <3>1. CASE addr = None
      <4>1. pc' = "exit"
        BY <1>5, <2>4, <3>1 DEF ResolveAll, Exit
      <4>. QED  BY <4>1, <1>2
    <3>2. CASE addr # None
      <4>1. preflight' = Append(preflight, addr) /\ af' = FamilyOf(addr) /\ pc' = "resolve all"
        BY <1>5, <2>4, <3>2 DEF ResolveAll, Goto, HintAfter
      <4>2. addr \in Addresses /\ FamilyOk(addr, af)
        BY <1>1, <2>2, <3>2, ResolveFits
      <4>. HIDE DEF addr
      <4>3. af' \in {"4", "6"} /\ (af = "any" \/ af' = af)
        BY <4>1, <4>2, FamilyType DEF FamilyOk
      <4>4. Requested \in {"any", af'}
        BY <2>2, <4>3
      <4>5. /\ preflight' \in Seq(Addresses)
            /\ \A i \in DOMAIN preflight' : FamilyOf(preflight'[i]) = af'
        <5>1. PICK n \in Nat : n = Len(preflight) /\ DOMAIN preflight = 1..n
          BY <2>2
        <5>2. /\ preflight' \in Seq(Addresses) /\ DOMAIN preflight' = 1..(n + 1)
              /\ \A i \in 1..n : preflight'[i] = preflight[i]
              /\ preflight'[n + 1] = addr
          <6>1. preflight \in Seq(Addresses) /\ addr \in Addresses
            BY <2>2, <4>2
          <6>2. /\ Append(preflight, addr) \in Seq(Addresses)
                /\ Len(Append(preflight, addr)) = n + 1
                /\ \A i \in 1..n : Append(preflight, addr)[i] = preflight[i]
                /\ Append(preflight, addr)[n + 1] = addr
            BY <5>1, <6>1, AppendProperties
          <6>. QED  BY <4>1, <6>2, LenProperties
        <5>3. ASSUME NEW i \in 1..n PROVE FamilyOf(preflight'[i]) = af'
          <6>1. FamilyOf(preflight[i]) = af /\ preflight[i] \in Addresses
            BY <5>1, <2>2
          <6>2. af # "any"
            BY <6>1, FamilyType
          <6>. QED  BY <6>1, <6>2, <5>2, <4>3
        <5>4. \A i \in 1..(n + 1) : i \in 1..n \/ i = n + 1
          OBVIOUS
        <5>. QED  BY <5>2, <5>3, <5>4, <4>1
      <4>. QED  BY <2>1, <2>2, <4>1, <4>3, <4>4, <4>5 DEF Related, Begun, Looping, Running, Families
    <3>. QED  BY <3>1, <3>2
  <2>. QED  BY <2>3, <2>4
<1>6. CASE ResolveNext
  <2>1. /\ pc = "targets" /\ at <= Len(RunList) /\ LoopStep /\ confirmed' = <<>>
        /\ ip' = IF preflight # None THEN preflight[at] ELSE Resolve(RunList[at].name, af)
        /\ IF ip' = None THEN TargetFails ELSE Proceed("local")
    BY <1>6 DEF ResolveNext
  <2>2. pc \in Begun
    BY <2>1 DEF Begun, Looping
  <2>3. CASE ip' = None
    <3>1. pc' \in {"targets", "exit"}
      BY <2>1, <2>3 DEF TargetFails, Exit
    <3>. QED  BY <2>1, <2>2, <3>1, NextRelated
  <2>4. CASE ip' # None
    <3>1. pc' = "local"
      BY <2>1, <2>4 DEF Proceed, Goto
    <3>2. af \in Families /\ Requested \in {"any", af}
      BY <2>2 DEF Related
    <3>3. ip' \in Addresses /\ FamilyOk(ip', Requested)
      <4>1. CASE preflight # None
        <5>1. /\ preflight \in Seq(Addresses) /\ Mode # "tui"
              /\ \A i \in DOMAIN preflight : FamilyOf(preflight[i]) = af
              /\ Len(preflight) = Len(targets)
          BY <4>1, <2>2 DEF Related
        <5>2. at \in DOMAIN preflight
          BY <5>1, <2>1, <1>1 DEF RunList
        <5>3. ip' = preflight[at]
          BY <2>1, <4>1
        <5>. QED  BY <5>1, <5>2, <5>3, <3>2 DEF FamilyOk
      <4>2. CASE preflight = None
        <5>1. ip' = Resolve(RunList[at].name, af)
          BY <2>1, <4>2
        <5>2. ip' \in Addresses /\ FamilyOk(ip', af)
          BY <5>1, <2>4, <3>2, <1>1, ResolveFits
        <5>. QED  BY <5>2, <3>2 DEF FamilyOk
      <4>. QED  BY <4>1, <4>2
    <3>4. Mode' = Mode /\ Args' = Args /\ Requested' = Requested
          /\ UNCHANGED <<af, preflight, targets>>
      BY <2>1, SameWishes DEF LoopStep
    <3>5. pc' \in Begun /\ pc' # "resolve all"
      BY <3>1 DEF Begun, Looping, Running
    <3>. QED  BY <2>1, <2>2, <3>1, <3>3, <3>4, <3>5 DEF Related
  <2>. QED  BY <2>3, <2>4
<1>7. CASE FindLocal
  <2>1. pc = "local" /\ LoopStep /\ UNCHANGED <<ip, confirmed>>
    BY <1>7 DEF FindLocal
  <2>2. pc \in Begun /\ pc \in Running
    BY <2>1 DEF Begun, Looping, Running
  <2>3. CASE TargetFails
    <3>1. pc' \in {"targets", "exit"}
      BY <2>3 DEF TargetFails, Exit
    <3>. QED  BY <2>1, <2>2, <3>1, NextRelated
  <2>4. CASE ~TargetFails
    <3>1. pc' = "spawn" /\ (Args.address # None => FamilyOf(Args.address) = FamilyOf(ip))
      BY <1>7, <2>4 DEF FindLocal, Proceed, Goto
    <3>2. confirmed' = <<>>
      BY <2>1 DEF Related
    <3>. QED  BY <2>1, <2>2, <3>1, <3>2, WithinRelated DEF Running
  <2>. QED  BY <2>3, <2>4
<1>8. CASE Spawn
  <2>1. /\ pc = "spawn" /\ LoopStep /\ UNCHANGED <<ip, confirmed>>
        /\ TargetFails \/ Proceed("check")
    BY <1>8 DEF Spawn
  <2>2. pc \in Begun /\ pc \in Running
    BY <2>1 DEF Begun, Looping, Running
  <2>3. CASE TargetFails
    <3>1. pc' \in {"targets", "exit"}
      BY <2>3 DEF TargetFails, Exit
    <3>. QED  BY <2>1, <2>2, <3>1, NextRelated
  <2>4. CASE Proceed("check")
    <3>1. pc' = "check"
      BY <2>4 DEF Proceed, Goto
    <3>2. confirmed' = <<>> /\ (Args.address # None => FamilyOf(Args.address) = FamilyOf(ip))
      BY <2>1 DEF Related
    <3>3. confirmed' \in Seq(ToSet(Required))
      BY <3>2
    <3>. QED  BY <2>1, <2>2, <3>1, <3>2, <3>3, WithinRelated DEF Running
  <2>. QED  BY <2>1, <2>3, <2>4
<1>9. CASE Check
  <2>1. /\ pc = "check" /\ LoopStep /\ ip' = ip /\ Len(confirmed) < Len(Required)
        /\ \/ confirmed' = Append(confirmed, Required[Len(confirmed) + 1]) /\ Proceed("check")
           \/ confirmed' = confirmed /\ TargetFails
    BY <1>9 DEF Check
  <2>2. pc \in Begun /\ pc \in Running
    BY <2>1 DEF Begun, Looping, Running
  <2>3. CASE TargetFails
    <3>1. pc' \in {"targets", "exit"}
      BY <2>3 DEF TargetFails, Exit
    <3>. QED  BY <2>1, <2>2, <3>1, NextRelated
  <2>4. CASE ~TargetFails
    <3>1. pc' = "check" /\ confirmed' = Append(confirmed, Required[Len(confirmed) + 1])
      BY <2>1, <2>4 DEF Proceed, Goto
    <3>2. /\ confirmed \in Seq(ToSet(Required))
          /\ \A k \in DOMAIN confirmed : confirmed[k] = Required[k]
          /\ Args.address # None => FamilyOf(Args.address) = FamilyOf(ip)
      BY <2>1 DEF Related
    <3>3. PICK n \in Nat : n = Len(confirmed) /\ DOMAIN confirmed = 1..n
      BY <3>2
    <3>4. n + 1 \in DOMAIN Required /\ Required[n + 1] \in ToSet(Required)
      BY <3>3, <2>1, RequiredType DEF ToSet
    <3>5. /\ confirmed' \in Seq(ToSet(Required)) /\ DOMAIN confirmed' = 1..(n + 1)
          /\ \A k \in 1..n : confirmed'[k] = confirmed[k]
          /\ confirmed'[n + 1] = Required[n + 1]
      BY <3>1, <3>2, <3>3, <3>4, AppendProperties
    <3>6. \A k \in 1..(n + 1) : k \in 1..n \/ k = n + 1
      OBVIOUS
    <3>7. \A k \in DOMAIN confirmed' : confirmed'[k] = Required[k]
      BY <3>2, <3>3, <3>5, <3>6
    <3>. QED  BY <2>1, <2>2, <3>1, <3>2, <3>5, <3>7, WithinRelated DEF Running
  <2>. QED  BY <2>3, <2>4
<1>10. CASE Begin
  <2>1. /\ pc = "check" /\ LoopStep /\ UNCHANGED <<ip, confirmed>>
        /\ Len(confirmed) = Len(Required)
        /\ TargetFails \/ Proceed("running")
    BY <1>10 DEF Begin
  <2>2. pc \in Begun /\ pc \in Running
    BY <2>1 DEF Begun, Looping, Running
  <2>3. CASE TargetFails
    <3>1. pc' \in {"targets", "exit"}
      BY <2>3 DEF TargetFails, Exit
    <3>. QED  BY <2>1, <2>2, <3>1, NextRelated
  <2>4. CASE Proceed("running")
    <3>1. pc' = "running"
      BY <2>4 DEF Proceed, Goto
    <3>2. /\ confirmed \in Seq(ToSet(Required))
          /\ \A k \in DOMAIN confirmed : confirmed[k] = Required[k]
          /\ Args.address # None => FamilyOf(Args.address) = FamilyOf(ip)
      BY <2>1 DEF Related
    <3>3. 2 \in DOMAIN confirmed
      <4>1. DOMAIN confirmed = 1..Len(confirmed)
        BY <3>2
      <4>2. Len(confirmed) \in Nat /\ Len(confirmed) >= 2
        BY <2>1, RequiredType
      <4>. QED  BY <4>1, <4>2
    <3>4. FamilyOf(ip) \in ToSet(confirmed')
      BY <3>2, <3>3, <2>1, RequiredType DEF ToSet
    <3>. QED  BY <2>1, <2>2, <3>1, <3>2, <3>4, WithinRelated DEF Running
  <2>. QED  BY <2>1, <2>3, <2>4
<1>11. CASE Finished \/ Interrupted \/ RunFails \/ PrintDocuments
  <2>1. pc \in Begun /\ LoopStep
    BY <1>11 DEF Finished, Interrupted, RunFails, PrintDocuments, Begun, Looping, Running
  <2>2. pc' \in {"targets", "print", "exit"}
    BY <1>11 DEF Finished, Interrupted, RunFails, PrintDocuments, TargetFails, Goto, Exit
  <2>. QED  BY <2>1, <2>2, NextRelated
<1>. QED
  BY <1>3, <1>4, <1>5, <1>6, <1>7, <1>8, <1>9, <1>10, <1>11 DEF Next

\* What a run is started with is of one family.
LEMMA RelatedAgree == AccountInv /\ Related => FamiliesAgree
<1>. SUFFICES ASSUME AccountInv, Related, pc = "running" PROVE FamiliesAgree
  BY DEF FamiliesAgree
<1>1. pc \in Begun /\ pc \in Running
  BY DEF Begun, Looping, Running
<1>2. FamilyOk(ip, Requested) /\ FamilyOf(ip) \in ToSet(confirmed)
      /\ (Args.address # None => FamilyOf(Args.address) = FamilyOf(ip))
  BY <1>1 DEF Related
<1>3. preflight # None =>
         /\ Len(preflight) = Len(RunList)
         /\ \A i, j \in DOMAIN preflight : FamilyOf(preflight[i]) = FamilyOf(preflight[j])
  BY <1>1 DEF Related, RunList
<1>. QED  BY <1>2, <1>3 DEF FamiliesAgree

\* Standing still changes no family.
LEMMA RelatedStutter == Related /\ UNCHANGED vars => Related'
BY DEF vars, loopVars, Related, Requested, Required, Args, Mode

\* Every run starts with an address of the family the user asked for, with a source address and
\* a helper of that family, and the targets of a report are all of one.
THEOREM OneFamily == Spec => []FamiliesAgree
<1>1. Init => Related
  BY DEF Init, Related, Begun, Looping, Running
<1>2. AccountInv /\ Related /\ [Next]_vars => (AccountInv /\ Related)'
  BY AccountStep, AccountStutter, RelatedStep, RelatedStutter
<1>. QED  BY <1>1, <1>2, AccountInit, RelatedAgree, PTL DEF Spec

-----------------------------------------------------------------------------
(* Words and files: what the options are made of *)

\* The fields of the defaults that the engine and the settings look at.
LEMMA Defaults ==
    /\ DefaultArgs.first_ttl = 1 /\ DefaultArgs.max_ttl = 30 /\ DefaultArgs.due_ttl = None
    /\ DefaultArgs.max_unknown = 12 /\ DefaultArgs.report_cycles = None
    /\ DefaultArgs.rtt_thresholds = None /\ DefaultArgs.order = None
    /\ DefaultArgs.color_choice = None /\ DefaultArgs.color = None
    /\ DefaultArgs.no_color = FALSE /\ DefaultArgs.no_dns = FALSE
    /\ DefaultArgs.theme = None /\ DefaultArgs.theme_preset = None
    /\ {"first_ttl", "max_ttl", "due_ttl", "max_unknown", "report_cycles", "rtt_thresholds",
        "order", "color_choice", "color", "no_color", "no_dns", "theme", "theme_preset",
        "theme_overrides", "sparkline", "detail_pane", "ascii", "interval", "gracetime",
        "timeout", "aslookup", "ipinfo", "address", "psize", "bitpattern", "tos", "cache",
        "mark", "port", "localport", "udp", "tcp", "sctp", "inet4", "inet6"}
         \subseteq DOMAIN DefaultArgs
BY DEF DefaultArgs

\* The words of the command line come after those of the environment: the last of both is the
\* last of the command line, or else that of the environment.
Mentions(words, ids) == \E i \in DOMAIN words : words[i].id \in ids

\* Where the environment and the command line are read as one.
LEMMA LastOfBoth ==
    ASSUME NEW env, NEW words, IsList(env), IsList(words), NEW ids
    PROVE  LET both == env \o words IN
           /\ Mentions(both, ids) <=> Mentions(env, ids) \/ Mentions(words, ids)
           /\ Mentions(words, ids) => both[LastAt(both, ids)] = words[LastAt(words, ids)]
           /\ Mentions(env, ids) /\ ~Mentions(words, ids) =>
                 both[LastAt(both, ids)] = env[LastAt(env, ids)]
<1> DEFINE both == env \o words
           m == Len(env)
           n == Len(words)
<1>1. /\ m \in Nat /\ n \in Nat /\ DOMAIN env = 1..m /\ DOMAIN words = 1..n
  BY DEF IsList
<1>2. /\ IsList(both) /\ DOMAIN both = 1..(m + n)
      /\ \A i \in 1..m : both[i] = env[i]
      /\ \A i \in 1..n : both[m + i] = words[i]
  <2> DEFINE S == ToSet(env) \cup ToSet(words)
  <2>1. env \in Seq(S) /\ words \in Seq(S)
    BY DEF IsList
  <2>2. /\ both \in Seq(S) /\ Len(both) = m + n
        /\ \A i \in 1..(m + n) : both[i] = IF i <= m THEN env[i] ELSE words[i - m]
    BY <2>1, ConcatProperties
  <2>3. IsList(both) /\ DOMAIN both = 1..(m + n)
    BY <2>2, ListOf, LenProperties
  <2>. HIDE DEF both, m, n
  <2>4. \A i \in 1..m : i \in 1..(m + n) /\ i <= m
    BY <1>1
  <2>5. \A i \in 1..n : m + i \in 1..(m + n) /\ ~(m + i <= m) /\ m + i - m = i
    BY <1>1
  <2>6. \A i \in 1..m : both[i] = env[i]
    BY <2>2, <2>4
  <2>7. ASSUME NEW i \in 1..n PROVE both[m + i] = words[i]
    <3>1. m + i \in 1..(m + n) /\ ~(m + i <= m) /\ m + i - m = i
      BY <2>5
    <3>2. PICK k : k = m + i
      OBVIOUS
    <3>3. k \in 1..(m + n) /\ ~(k <= m) /\ k - m = i
      BY <1>1, <3>1, <3>2
    <3>4. both[k] = words[k - m]
      BY <2>2, <3>3
    <3>. QED  BY <3>2, <3>3, <3>4
  <2>. QED  BY <2>3, <2>6, <2>7
<1>3. \A i \in DOMAIN both : i \in DOMAIN env \/ \E j \in DOMAIN words : i = m + j
  <2>1. ASSUME NEW i \in 1..(m + n), i \notin 1..m PROVE i - m \in 1..n /\ i = m + (i - m)
    BY <1>1, <2>1
  <2>. QED  BY <1>1, <1>2, <2>1
<1>4. /\ \A i \in DOMAIN env : i \in DOMAIN both /\ both[i] = env[i] /\ i <= m
      /\ \A j \in DOMAIN words : m + j \in DOMAIN both /\ both[m + j] = words[j] /\ m < m + j
  <2>1. \A i \in 1..m : i \in 1..(m + n) /\ i <= m
    BY <1>1
  <2>2. \A j \in 1..n : m + j \in 1..(m + n) /\ m < m + j
    BY <1>1
  <2>. QED  BY <1>1, <1>2, <2>1, <2>2
<1>. HIDE DEF both, m, n
<1>5. Mentions(both, ids) <=> Mentions(env, ids) \/ Mentions(words, ids)
  BY <1>3, <1>4 DEF Mentions
<1>6. ASSUME Mentions(words, ids)  PROVE both[LastAt(both, ids)] = words[LastAt(words, ids)]
  <2>1. PICK k \in DOMAIN words : words[k].id \in ids
    BY <1>6 DEF Mentions
  <2> DEFINE l == LastAt(words, ids)
  <2>2. /\ l \in DOMAIN words /\ words[l].id \in ids
        /\ \A j \in DOMAIN words : words[j].id \in ids => j <= l
    BY <2>1, LastOf
  <2>. HIDE DEF l
  <2>3. \A i \in DOMAIN both : both[i].id \in ids => i <= m + l
    <3>1. ASSUME NEW i \in DOMAIN both, both[i].id \in ids PROVE i <= m + l
      <4>1. CASE i \in DOMAIN env
        BY <4>1, <1>1, <2>2
      <4>2. CASE \E j \in DOMAIN words : i = m + j
        <5>1. PICK j \in DOMAIN words : i = m + j
          BY <4>2
        <5>2. words[j].id \in ids
          BY <3>1, <5>1, <1>4
        <5>3. j <= l
          BY <5>2, <2>2
        <5>. QED  BY <5>1, <5>3, <1>1, <2>2
      <4>. QED  BY <4>1, <4>2, <1>3
    <3>. QED  BY <3>1
  <2>4. m + l \in DOMAIN both /\ both[m + l] = words[l]
    BY <2>2, <1>4
  <2>5. LastAt(both, ids) = m + l
    BY <2>2, <2>3, <2>4, <1>2, LastIs
  <2>. QED  BY <2>4, <2>5 DEF l
<1>7. ASSUME Mentions(env, ids), ~Mentions(words, ids)
      PROVE  both[LastAt(both, ids)] = env[LastAt(env, ids)]
  <2>1. PICK k \in DOMAIN env : env[k].id \in ids
    BY <1>7 DEF Mentions
  <2> DEFINE l == LastAt(env, ids)
  <2>2. /\ l \in DOMAIN env /\ env[l].id \in ids
        /\ \A j \in DOMAIN env : env[j].id \in ids => j <= l
    BY <2>1, LastOf
  <2>. HIDE DEF l
  <2>3. \A i \in DOMAIN both : both[i].id \in ids => i <= l
    BY <1>3, <1>4, <1>7, <2>2 DEF Mentions
  <2>4. l \in DOMAIN both /\ both[l] = env[l]
    BY <2>2, <1>4
  <2>5. LastAt(both, ids) = l
    BY <2>2, <2>3, <2>4, <1>2, LastIs
  <2>. QED  BY <2>4, <2>5 DEF l
<1>. QED  BY <1>5, <1>6, <1>7 DEF both

\* What the parser leaves of the words: the last value of each option, or the default.
LEMMA Parsed ==
    ASSUME NEW words, AreWords(words), NEW id \in DOMAIN DefaultArgs
    PROVE  /\ id \in Given(words) <=> Mentions(words, {id})
           /\ DOMAIN ParseArgv(words) = DOMAIN DefaultArgs
           /\ Mentions(words, {id}) =>
                 LET last == LastAt(words, {id}) IN
                 /\ ParseArgv(words)[id] = words[last].val
                 /\ last \in DOMAIN words /\ words[last].id = id /\ words[last].val # None
                 /\ id \in Switches => words[last].val = TRUE
                 /\ id \in Wholes => words[last].val \in Int
           /\ ~Mentions(words, {id}) => ParseArgv(words)[id] = DefaultArgs[id]
           /\ id \in FileOnly => ~Mentions(words, {id})
<1>1. id \in Given(words) <=> Mentions(words, {id})
  BY DEF Given, Mentions
<1>2. /\ DOMAIN ParseArgv(words) = DOMAIN DefaultArgs
      /\ ParseArgv(words)[id] = IF id \in Given(words) THEN words[LastAt(words, {id})].val
                                ELSE DefaultArgs[id]
  BY DEF ParseArgv
<1>3. ASSUME Mentions(words, {id})
      PROVE  LastAt(words, {id}) \in DOMAIN words /\ words[LastAt(words, {id})].id = id
  <2>1. PICK k \in DOMAIN words : words[k].id \in {id}
    BY <1>3 DEF Mentions
  <2>2. LastAt(words, {id}) \in DOMAIN words /\ words[LastAt(words, {id})].id \in {id}
    BY <2>1, LastOf, WordsList
  <2>. QED  BY <2>2
<1>4. id \in FileOnly => ~Mentions(words, {id})
  BY DEF AreWords, Mentions
<1>. QED  BY <1>1, <1>2, <1>3, <1>4 DEF AreWords

\* The keys, each with a field of its own.
LEMMA FileKeysAre ==
    FileKeys = {"rtt_thresholds_ms", "fields", "ascii", "color", "sparkline", "detail_pane",
                "interval", "gracetime", "max_ttl", "max_unknown", "timeout", "dns", "asn",
                "preset", "overrides"}
<1>1. DOMAIN KeyOrder = 1..15
  BY DEF KeyOrder
<1>2. /\ KeyOrder[1] = "rtt_thresholds_ms" /\ KeyOrder[2] = "fields" /\ KeyOrder[3] = "ascii"
      /\ KeyOrder[4] = "color" /\ KeyOrder[5] = "sparkline" /\ KeyOrder[6] = "detail_pane"
      /\ KeyOrder[7] = "interval" /\ KeyOrder[8] = "gracetime" /\ KeyOrder[9] = "max_ttl"
      /\ KeyOrder[10] = "max_unknown" /\ KeyOrder[11] = "timeout" /\ KeyOrder[12] = "dns"
      /\ KeyOrder[13] = "asn" /\ KeyOrder[14] = "preset" /\ KeyOrder[15] = "overrides"
  BY DEF KeyOrder
<1>3. \A i \in 1..15 : i \in {1, 2, 3, 4, 5, 6, 7, 8, 9, 10, 11, 12, 13, 14, 15}
  OBVIOUS
<1>4. \A i \in {1, 2, 3, 4, 5, 6, 7, 8, 9, 10, 11, 12, 13, 14, 15} : i \in 1..15
  OBVIOUS
<1>5. FileKeys = {KeyOrder[i] : i \in 1..15}
  BY <1>1 DEF FileKeys
<1>. QED  BY <1>2, <1>3, <1>4, <1>5

\* The field of each key, and its flag.
LEMMA ArgOfIs ==
    /\ ArgOf("rtt_thresholds_ms") = "rtt_thresholds" /\ ArgOf("fields") = "order"
    /\ ArgOf("color") = "color_choice" /\ ArgOf("dns") = "no_dns" /\ ArgOf("asn") = "aslookup"
    /\ ArgOf("preset") = "theme_preset" /\ ArgOf("overrides") = "theme_overrides"
    /\ \A key \in {"ascii", "sparkline", "detail_pane", "interval", "gracetime", "max_ttl",
                   "max_unknown", "timeout"} : ArgOf(key) = key
    /\ FlagOf("color") = "color" /\ FlagOf("preset") = "theme"
    /\ \A key \in FileKeys \ {"color", "preset"} : FlagOf(key) = ArgOf(key)
BY FileKeysAre DEF ArgOf, FlagOf

\* No two keys are written to the same field.
LEMMA ArgOfInjective == \A k, l \in FileKeys : ArgOf(k) = ArgOf(l) => k = l
BY ArgOfIs, FileKeysAre

\* The file fills the fields of its keys that the words leave alone, and no others.
LEMMA Applied ==
    ASSUME NEW args, NEW given, NEW file, IsFile(file)
    PROVE  LET filled == Apply(args, given, file) IN
           /\ DOMAIN filled = DOMAIN args
           /\ \A key \in FileKeys : ArgOf(key) \in DOMAIN args =>
                 filled[ArgOf(key)] = IF key \in DOMAIN file /\ FlagOf(key) \notin given
                                      THEN ArgValue(key, file[key]) ELSE args[ArgOf(key)]
           /\ \A id \in DOMAIN args : (\A key \in FileKeys : ArgOf(key) # id) =>
                 filled[id] = args[id]
<1> DEFINE filled == Apply(args, given, file)
           fills(id) == \E k \in DOMAIN file : ArgOf(k) = id /\ FlagOf(k) \notin given
           key(id) == CHOOSE k \in DOMAIN file : ArgOf(k) = id
<1>1. /\ DOMAIN filled = DOMAIN args
      /\ \A id \in DOMAIN args :
            filled[id] = IF fills(id) THEN ArgValue(key(id), file[key(id)]) ELSE args[id]
  BY DEF Apply
<1>2. DOMAIN file \subseteq FileKeys
  BY DEF IsFile
<1>3. ASSUME NEW k \in FileKeys, k \in DOMAIN file PROVE key(ArgOf(k)) = k
  <2>1. key(ArgOf(k)) \in DOMAIN file /\ ArgOf(key(ArgOf(k))) = ArgOf(k)
    BY <1>3
  <2>. QED  BY <2>1, <1>2, ArgOfInjective
<1>4. ASSUME NEW k \in FileKeys
      PROVE  fills(ArgOf(k)) <=> k \in DOMAIN file /\ FlagOf(k) \notin given
  BY <1>2, ArgOfInjective
<1>5. \A id \in DOMAIN args : (\A k \in FileKeys : ArgOf(k) # id) => ~fills(id)
  BY <1>2
<1>. HIDE DEF filled, fills, key
<1>6. ASSUME NEW k \in FileKeys, ArgOf(k) \in DOMAIN args
      PROVE  filled[ArgOf(k)] = IF k \in DOMAIN file /\ FlagOf(k) \notin given
                                THEN ArgValue(k, file[k]) ELSE args[ArgOf(k)]
  <2>1. filled[ArgOf(k)] = IF fills(ArgOf(k))
                           THEN ArgValue(key(ArgOf(k)), file[key(ArgOf(k))])
                           ELSE args[ArgOf(k)]
    BY <1>1, <1>6
  <2>2. CASE fills(ArgOf(k))
    BY <2>1, <2>2, <1>3, <1>4
  <2>3. CASE ~fills(ArgOf(k))
    BY <2>1, <2>3, <1>4
  <2>. QED  BY <2>2, <2>3
<1>. QED  BY <1>1, <1>5, <1>6 DEF filled

\* The numbers that the engine gets are numbers.
ArgsTyped(args) ==
    /\ args.first_ttl \in Int /\ args.max_ttl \in Int /\ args.max_unknown \in Int
    /\ args.due_ttl # None => args.due_ttl \in Int
    /\ args.report_cycles # None => args.report_cycles \in Int

\* Whatever the words and the file are.
LEMMA ArgsType ==
    ASSUME NEW words, AreWords(words), NEW file, IsFile(file)
    PROVE  ArgsTyped(Apply(ParseArgv(words), Given(words), file))
<1> DEFINE parsed == ParseArgv(words)
           args   == Apply(parsed, Given(words), file)
<1>1. DOMAIN parsed = DOMAIN DefaultArgs
  BY DEF ParseArgv
<1>2. /\ parsed.first_ttl \in Int /\ parsed.max_ttl \in Int /\ parsed.max_unknown \in Int
      /\ parsed.due_ttl # None => parsed.due_ttl \in Int
      /\ parsed.report_cycles # None => parsed.report_cycles \in Int
  <2>1. Wholes \subseteq DOMAIN DefaultArgs
    BY Defaults DEF Wholes
  <2>2. \A id \in Wholes : parsed[id] \in Int \/ parsed[id] = DefaultArgs[id]
    BY <2>1, Parsed
  <2>. HIDE DEF parsed
  <2>. QED  BY <2>2, Defaults DEF Wholes
<1>. HIDE DEF parsed
<1>3. /\ \A key \in FileKeys : ArgOf(key) \in DOMAIN parsed =>
            args[ArgOf(key)] = IF key \in DOMAIN file /\ FlagOf(key) \notin Given(words)
                               THEN ArgValue(key, file[key]) ELSE parsed[ArgOf(key)]
      /\ \A id \in DOMAIN parsed : (\A key \in FileKeys : ArgOf(key) # id) =>
            args[id] = parsed[id]
  BY Applied
<1>. HIDE DEF args
<1>4. args.max_ttl \in Int /\ args.max_unknown \in Int
  <2>1. \A key \in {"max_ttl", "max_unknown"} :
           /\ key \in FileKeys /\ ArgOf(key) = key /\ key \in DOMAIN parsed
           /\ key \in DOMAIN file => file[key] \in Int /\ ArgValue(key, file[key]) = file[key]
    BY FileKeysAre, ArgOfIs, <1>1, Defaults DEF IsFile, ArgValue
  <2>. QED  BY <2>1, <1>2, <1>3
<1>5. \A id \in {"first_ttl", "due_ttl", "report_cycles"} : args[id] = parsed[id]
  <2>1. \A id \in {"first_ttl", "due_ttl", "report_cycles"} :
           id \in DOMAIN parsed /\ \A key \in FileKeys : ArgOf(key) # id
    BY FileKeysAre, ArgOfIs, <1>1, Defaults
  <2>. QED  BY <2>1, <1>3
<1>. QED  BY <1>2, <1>4, <1>5 DEF ArgsTyped, args, parsed

\* Options that have been accepted are fit for the engine.
LEMMA AcceptedFits ==
    ASSUME NEW args, ArgsTyped(args), NEW root, Accepted(args, root), NEW words
    PROVE  FitForEngine(EngineConfig(args, words))
<1>1. IntMax \in Nat /\ IntMax >= 255
  BY OptionsAssumption
<1>2. /\ InRange(args.max_unknown, 1, IntMax)
      /\ InRangeIfGiven(args.report_cycles, 0, IntMax)
      /\ Ttls(args).ok
  BY DEF Accepted, ValidNumbers
<1>3. args.max_unknown \in 1..IntMax /\ OrElse(args.report_cycles, 10) \in 0..IntMax
  <2>1. args.max_unknown \in 1..IntMax
    BY <1>1, <1>2 DEF InRange, ArgsTyped
  <2>2. OrElse(args.report_cycles, 10) \in 0..IntMax
    BY <1>1, <1>2 DEF InRangeIfGiven, OrElse, ArgsTyped
  <2>. QED  BY <2>1, <2>2
<1>4. /\ Ttls(args).first \in 1..255 /\ Ttls(args).max \in 1..255 /\ Ttls(args).due \in 0..255
      /\ Ttls(args).first <= Ttls(args).max
      /\ Ttls(args).due # 0 => Ttls(args).first <= Ttls(args).due
      /\ Ttls(args).due <= Ttls(args).max
  <2> DEFINE first == IF args.first_ttl < 1 THEN 1 ELSE args.first_ttl
             max   == Clamp(args.max_ttl, 1, 255)
             due   == IF args.due_ttl = None THEN 0
                      ELSE IF args.due_ttl > 255 THEN 255 ELSE args.due_ttl
  <2>1. /\ Ttls(args).first = first /\ Ttls(args).max = max /\ Ttls(args).due = due
        /\ Ttls(args).ok <=> (/\ args.due_ttl # None => args.due_ttl > 0
                              /\ first <= max
                              /\ due > 0 => first <= due
                              /\ due <= max)
    BY Zenon DEF Ttls
  <2>2. max \in 1..255 /\ first \in Int /\ first >= 1
    BY DEF Clamp, ArgsTyped
  <2>3. (args.due_ttl # None => args.due_ttl > 0) /\ first <= max
        /\ (due > 0 => first <= due) /\ due <= max
    BY <2>1, <1>2
  <2>4. due \in 0..255
    BY <2>3 DEF ArgsTyped
  <2>. HIDE DEF first, max, due
  <2>5. first \in 1..255 /\ (due # 0 => first <= due)
    BY <2>2, <2>3, <2>4
  <2>. QED  BY <2>1, <2>2, <2>3, <2>4, <2>5
<1>5. LET config == EngineConfig(args, words) IN
      /\ config.firstTtl = Ttls(args).first /\ config.maxTtl = Ttls(args).max
      /\ config.dueTtl = Ttls(args).due /\ config.maxUnknown = args.max_unknown
      /\ config.maxPing = OrElse(args.report_cycles, 10)
  BY Zenon DEF EngineConfig
<1>. QED  BY <1>3, <1>4, <1>5 DEF FitForEngine

-----------------------------------------------------------------------------
(* Layers *)

\* The settings, one by one.
LEMMA SettingsAre ==
    ASSUME NEW args
    PROVE  /\ DOMAIN Settings(args) = FileKeys
           /\ \A key \in {"ascii", "sparkline", "detail_pane", "interval", "gracetime",
                          "max_unknown", "timeout"} : Settings(args)[key] = args[key]
           /\ Settings(args).asn = args.aslookup
           /\ Settings(args).overrides = args.theme_overrides
           /\ Settings(args).rtt_thresholds_ms = OrElse(args.rtt_thresholds, "default")
           /\ Settings(args).fields = OrElse(args.order, "default")
           /\ Settings(args).color = ColorOf(args)
           /\ Settings(args).max_ttl = Clamp(args.max_ttl, 1, 255)
           /\ Settings(args).dns = ~args.no_dns
           /\ Settings(args).preset = OrElse(args.theme, OrElse(args.theme_preset, "default"))
<1>1. Ttls(args).max = Clamp(args.max_ttl, 1, 255)
  BY Zenon DEF Ttls
<1>2. DOMAIN Settings(args) = FileKeys
  BY FileKeysAre DEF Settings
<1>3. /\ Settings(args).ascii = args.ascii /\ Settings(args).sparkline = args.sparkline
      /\ Settings(args).detail_pane = args.detail_pane
      /\ Settings(args).interval = args.interval /\ Settings(args).gracetime = args.gracetime
      /\ Settings(args).max_unknown = args.max_unknown /\ Settings(args).timeout = args.timeout
  BY Zenon DEF Settings
<1>4. /\ Settings(args).asn = args.aslookup
      /\ Settings(args).overrides = args.theme_overrides
      /\ Settings(args).rtt_thresholds_ms = OrElse(args.rtt_thresholds, "default")
      /\ Settings(args).fields = OrElse(args.order, "default")
      /\ Settings(args).color = ColorOf(args)
      /\ Settings(args).max_ttl = Ttls(args).max
      /\ Settings(args).dns = ~args.no_dns
      /\ Settings(args).preset = OrElse(args.theme, OrElse(args.theme_preset, "default"))
  BY Zenon DEF Settings
<1>. QED  BY <1>1, <1>2, <1>3, <1>4

\* The values in effect are the settings.
LEMMA EffectiveIs ==
    ASSUME NEW args
    PROVE  \A key \in FileKeys : Effective(args)[key] = Settings(args)[key]
<1>1. DOMAIN Settings(args) = FileKeys /\ Settings(args).max_ttl = Clamp(args.max_ttl, 1, 255)
  BY SettingsAre
<1>. QED  BY <1>1 DEF Effective

\* A field that a key of the file is written to has its value from the highest layer that says
\* anything about it.
Word(words, id) == words[LastAt(words, {id})].val

\* The environment comes before the words, the file fills what neither mentions.
LEMMA FromLayers ==
    ASSUME NEW env, AreWords(env), NEW words, AreWords(words), NEW file, IsFile(file),
           AreWords(env \o words), NEW key \in FileKeys
    PROVE  LET both == env \o words
               args == Apply(ParseArgv(both), Given(both), file)
               id   == ArgOf(key)
               flag == FlagOf(key)
               said == Mentions(words, {flag}) \/ Mentions(env, {flag})
           IN  /\ flag = id /\ Mentions(words, {flag}) => args[id] = Word(words, id)
               /\ flag = id /\ ~Mentions(words, {flag}) /\ Mentions(env, {flag}) =>
                     args[id] = Word(env, id)
               /\ ~said /\ key \in DOMAIN file => args[id] = ArgValue(key, file[key])
               /\ ~said /\ key \notin DOMAIN file => args[id] = DefaultArgs[id]
               /\ said /\ flag # id => args[id] = DefaultArgs[id]
<1> DEFINE both == env \o words
           parsed == ParseArgv(both)
           args == Apply(parsed, Given(both), file)
           id   == ArgOf(key)
           flag == FlagOf(key)
           inWords == Mentions(words, {flag})
           inEnv   == Mentions(env, {flag})
           inBoth  == Mentions(both, {flag})
<1>1. id \in DOMAIN DefaultArgs /\ flag \in DOMAIN DefaultArgs
  BY ArgOfIs, FileKeysAre, Defaults
<1>2. flag = id \/ id \in FileOnly
  BY ArgOfIs, FileKeysAre DEF FileOnly
<1>3. IsList(env) /\ IsList(words)
  BY WordsList
<1>4. /\ inBoth <=> inEnv \/ inWords
      /\ inWords => Word(both, flag) = Word(words, flag)
      /\ inEnv /\ ~inWords => Word(both, flag) = Word(env, flag)
  <2>. HIDE DEF id, flag
  <2>. QED  BY <1>3, LastOfBoth, Zenon DEF Word
<1>5. args[id] = IF key \in DOMAIN file /\ flag \notin Given(both)
                 THEN ArgValue(key, file[key]) ELSE parsed[id]
  <2>1. id \in DOMAIN parsed
    BY <1>1 DEF ParseArgv
  <2>. HIDE DEF parsed
  <2>. QED  BY <2>1, Applied
<1>6. /\ flag \in Given(both) <=> inBoth
      /\ inBoth => parsed[flag] = Word(both, flag)
      /\ ~inBoth => parsed[flag] = DefaultArgs[flag]
      /\ id \in FileOnly => parsed[id] = DefaultArgs[id]
  <2>. HIDE DEF both, id, flag
  <2>1. AreWords(both)
    BY DEF both
  <2>2. /\ flag \in Given(both) <=> inBoth
        /\ inBoth => parsed[flag] = Word(both, flag)
        /\ ~inBoth => parsed[flag] = DefaultArgs[flag]
    BY <1>1, <2>1, Parsed, Zenon DEF Word
  <2>3. id \in FileOnly => parsed[id] = DefaultArgs[id]
    BY <1>1, <2>1, Parsed, Zenon
  <2>. QED  BY <2>2, <2>3
<1>. HIDE DEF both, parsed, args, id, flag, inWords, inEnv, inBoth
<1>7. flag = id /\ inWords => args[id] = Word(words, id)
  BY <1>4, <1>5, <1>6, Zenon
<1>8. flag = id /\ ~inWords /\ inEnv => args[id] = Word(env, id)
  BY <1>4, <1>5, <1>6, Zenon
<1>9. ~inWords /\ ~inEnv /\ key \in DOMAIN file => args[id] = ArgValue(key, file[key])
  BY <1>4, <1>5, <1>6, Zenon
<1>10. ~inWords /\ ~inEnv /\ key \notin DOMAIN file => args[id] = DefaultArgs[id]
  BY <1>2, <1>4, <1>5, <1>6, Zenon
<1>11. (inWords \/ inEnv) /\ flag # id => args[id] = DefaultArgs[id]
  BY <1>2, <1>4, <1>5, <1>6, Zenon
<1>. QED  BY <1>7, <1>8, <1>9, <1>10, <1>11, Zenon
     DEF both, parsed, args, id, flag, inWords, inEnv

\* A field that no key is written to has its value from the words.
LEMMA FromWords ==
    ASSUME NEW env, AreWords(env), NEW words, AreWords(words), NEW file, IsFile(file),
           AreWords(env \o words), NEW id \in DOMAIN DefaultArgs,
           \A key \in FileKeys : ArgOf(key) # id
    PROVE  LET both == env \o words
               args == Apply(ParseArgv(both), Given(both), file)
           IN  /\ Mentions(words, {id}) => args[id] = Word(words, id)
               /\ ~Mentions(words, {id}) /\ Mentions(env, {id}) => args[id] = Word(env, id)
               /\ ~Mentions(words, {id}) /\ ~Mentions(env, {id}) => args[id] = DefaultArgs[id]
<1> DEFINE both == env \o words
           parsed == ParseArgv(both)
           args == Apply(parsed, Given(both), file)
<1>1. IsList(env) /\ IsList(words)
  BY WordsList
<1>2. /\ Mentions(both, {id}) <=> Mentions(env, {id}) \/ Mentions(words, {id})
      /\ Mentions(words, {id}) => Word(both, id) = Word(words, id)
      /\ Mentions(env, {id}) /\ ~Mentions(words, {id}) => Word(both, id) = Word(env, id)
  BY <1>1, LastOfBoth, Zenon DEF Word
<1>3. args[id] = parsed[id]
  <2>1. id \in DOMAIN parsed
    BY DEF ParseArgv
  <2>. HIDE DEF parsed
  <2>. QED  BY <2>1, Applied
<1>4. /\ Mentions(both, {id}) => parsed[id] = Word(both, id)
      /\ ~Mentions(both, {id}) => parsed[id] = DefaultArgs[id]
  <2>. HIDE DEF both
  <2>1. AreWords(both)
    BY DEF both
  <2>. QED  BY <2>1, Parsed, Zenon DEF Word
<1>. HIDE DEF both, parsed, args
<1>. QED  BY <1>2, <1>3, <1>4, Zenon DEF both, parsed, args

\* What a layer says about a setting, in the words of FromLayers.
LEMMA SaysIs ==
    ASSUME NEW words, AreWords(words), NEW key \in FileKeys \ {"color"}
    PROVE  LET flag == FlagOf(key) IN
           /\ Says(words, key) <=> Mentions(words, {flag})
           /\ Says(words, key) =>
                 /\ Word(words, flag) # None
                 /\ key = "dns" => Said(words, key) = FALSE /\ Word(words, flag) = TRUE
                 /\ key = "max_ttl" => Said(words, key) = Clamp(Word(words, flag), 1, 255)
                 /\ key \notin {"dns", "max_ttl"} => Said(words, key) = Word(words, flag)
<1> DEFINE flag == FlagOf(key)
           last == LastAt(words, {flag})
<1>1. FlagsOf(key) = {flag}
  BY DEF FlagsOf
<1>2. Says(words, key) <=> Mentions(words, {flag})
  BY <1>1 DEF Says, Mentions
<1>3. flag # "no_color"
  BY FileKeysAre, ArgOfIs
<1>4. (flag = "no_dns" <=> key = "dns") /\ (flag = "max_ttl" <=> key = "max_ttl")
  BY FileKeysAre, ArgOfIs
<1>5. flag \in DOMAIN DefaultArgs
  BY FileKeysAre, ArgOfIs, Defaults
<1>6. Said(words, key) = CASE words[last].id = "no_color" -> "never"
                           [] words[last].id = "no_dns"   -> FALSE
                           [] words[last].id = "max_ttl"  -> Clamp(words[last].val, 1, 255)
                           [] OTHER                       -> words[last].val
  <2>. HIDE DEF flag
  <2>. QED  BY <1>1, Zenon DEF Said
<1>. HIDE DEF flag
<1>7. ASSUME Mentions(words, {flag})
      PROVE  /\ words[last].id = flag /\ words[last].val # None
             /\ flag \in Switches => words[last].val = TRUE
  BY <1>5, <1>7, Parsed
<1>. HIDE DEF last
<1>8. ASSUME Mentions(words, {flag})
      PROVE  /\ words[last].val # None
             /\ key = "dns" => Said(words, key) = FALSE /\ words[last].val = TRUE
             /\ key = "max_ttl" => Said(words, key) = Clamp(words[last].val, 1, 255)
             /\ key \notin {"dns", "max_ttl"} => Said(words, key) = words[last].val
  BY <1>3, <1>4, <1>6, <1>7, <1>8 DEF Switches
<1>. QED  BY <1>2, <1>8 DEF Word, last, flag

\* The value that the layers ask for.
Ranked(words, env, file, key) ==
    IF Says(words, key) THEN Said(words, key)
    ELSE IF Says(env, key) THEN Said(env, key)
    ELSE IF key \in DOMAIN file THEN file[key] ELSE BuiltIn[key]

\* The settings of the keys whose words say what the file would say.
LEMMA PlainRanked ==
    ASSUME NEW env, AreWords(env), NEW words, AreWords(words), NEW file, IsFile(file),
           AreWords(env \o words),
           NEW key \in {"ascii", "sparkline", "detail_pane", "interval", "gracetime",
                        "max_unknown", "timeout", "asn", "overrides"}
    PROVE  Settings(Apply(ParseArgv(env \o words), Given(env \o words), file))[key]
             = Ranked(words, env, file, key)
<1> DEFINE args == Apply(ParseArgv(env \o words), Given(env \o words), file)
           id   == ArgOf(key)
           inWords == Mentions(words, {id})
           inEnv   == Mentions(env, {id})
<1>1. key \in FileKeys \ {"color"} /\ key # "dns" /\ key # "max_ttl" /\ FlagOf(key) = id
  BY FileKeysAre, ArgOfIs
<1>2. \A a : Settings(a)[key] = a[id]
  BY SettingsAre, ArgOfIs
<1>3. BuiltIn[key] = DefaultArgs[id]
  BY <1>1, <1>2, EffectiveIs DEF BuiltIn
<1>4. /\ inWords => args[id] = Word(words, id)
      /\ ~inWords /\ inEnv => args[id] = Word(env, id)
      /\ ~inWords /\ ~inEnv /\ key \in DOMAIN file => args[id] = ArgValue(key, file[key])
      /\ ~inWords /\ ~inEnv /\ key \notin DOMAIN file => args[id] = DefaultArgs[id]
  <2>1. key \in FileKeys /\ FlagOf(key) = ArgOf(key)
    BY <1>1
  <2> DEFINE flag == FlagOf(key)
             said == Mentions(words, {flag}) \/ Mentions(env, {flag})
  <2>2. /\ flag = id /\ Mentions(words, {flag}) => args[id] = Word(words, id)
        /\ flag = id /\ ~Mentions(words, {flag}) /\ Mentions(env, {flag}) =>
              args[id] = Word(env, id)
        /\ ~said /\ key \in DOMAIN file => args[id] = ArgValue(key, file[key])
        /\ ~said /\ key \notin DOMAIN file => args[id] = DefaultArgs[id]
    BY <2>1, FromLayers
  <2>3. flag = id
    BY <2>1
  <2>. HIDE DEF flag, id, args
  <2>. QED  BY <2>2, <2>3
<1>5. ArgValue(key, file[key]) = file[key]
  BY <1>1 DEF ArgValue
<1>6. /\ Says(words, key) <=> inWords
      /\ Says(env, key) <=> inEnv
      /\ inWords => Said(words, key) = Word(words, id)
      /\ inEnv => Said(env, key) = Word(env, id)
  <2>. HIDE DEF id
  <2>1. \A ws : AreWords(ws) => /\ Says(ws, key) <=> Mentions(ws, {id})
                                /\ Says(ws, key) => Said(ws, key) = Word(ws, id)
    BY <1>1, SaysIs
  <2>. QED  BY <2>1
<1>. HIDE DEF args, id, inWords, inEnv
<1>7. Settings(args)[key] = args[id]
  BY <1>2
<1>. QED  BY <1>3, <1>4, <1>5, <1>6, <1>7 DEF Ranked, args

\* The settings for which no word and no key is another way to say the default.
LEMMA TextRanked ==
    ASSUME NEW env, AreWords(env), NEW words, AreWords(words), NEW file, IsFile(file),
           AreWords(env \o words), NEW key \in {"rtt_thresholds_ms", "fields"}
    PROVE  Settings(Apply(ParseArgv(env \o words), Given(env \o words), file))[key]
             = Ranked(words, env, file, key)
<1> DEFINE args == Apply(ParseArgv(env \o words), Given(env \o words), file)
           id   == ArgOf(key)
           inWords == Mentions(words, {id})
           inEnv   == Mentions(env, {id})
<1>1. key \in FileKeys \ {"color"} /\ key # "dns" /\ key # "max_ttl" /\ FlagOf(key) = id
  BY FileKeysAre, ArgOfIs
<1>2. \A a : Settings(a)[key] = OrElse(a[id], "default")
  BY SettingsAre, ArgOfIs
<1>3. BuiltIn[key] = OrElse(DefaultArgs[id], "default")
  BY <1>1, <1>2, EffectiveIs DEF BuiltIn
<1>4. /\ inWords => args[id] = Word(words, id)
      /\ ~inWords /\ inEnv => args[id] = Word(env, id)
      /\ ~inWords /\ ~inEnv /\ key \in DOMAIN file => args[id] = ArgValue(key, file[key])
      /\ ~inWords /\ ~inEnv /\ key \notin DOMAIN file => args[id] = DefaultArgs[id]
  <2>1. key \in FileKeys /\ FlagOf(key) = ArgOf(key)
    BY <1>1
  <2> DEFINE flag == FlagOf(key)
             said == Mentions(words, {flag}) \/ Mentions(env, {flag})
  <2>2. /\ flag = id /\ Mentions(words, {flag}) => args[id] = Word(words, id)
        /\ flag = id /\ ~Mentions(words, {flag}) /\ Mentions(env, {flag}) =>
              args[id] = Word(env, id)
        /\ ~said /\ key \in DOMAIN file => args[id] = ArgValue(key, file[key])
        /\ ~said /\ key \notin DOMAIN file => args[id] = DefaultArgs[id]
    BY <2>1, FromLayers
  <2>3. flag = id
    BY <2>1
  <2>. HIDE DEF flag, id, args
  <2>. QED  BY <2>2, <2>3
<1>5. ArgValue(key, file[key]) = file[key] /\ (key \in DOMAIN file => file[key] # None)
  BY <1>1 DEF ArgValue, IsFile
<1>6. /\ Says(words, key) <=> inWords
      /\ Says(env, key) <=> inEnv
      /\ inWords => Said(words, key) = Word(words, id) /\ Word(words, id) # None
      /\ inEnv => Said(env, key) = Word(env, id) /\ Word(env, id) # None
  <2>. HIDE DEF id
  <2>1. \A ws : AreWords(ws) => /\ Says(ws, key) <=> Mentions(ws, {id})
                                /\ Says(ws, key) => /\ Said(ws, key) = Word(ws, id)
                                                    /\ Word(ws, id) # None
    BY <1>1, SaysIs
  <2>. QED  BY <2>1
<1>. HIDE DEF args, id, inWords, inEnv
<1>7. Settings(args)[key] = OrElse(args[id], "default")
  BY <1>2
<1>. QED  BY <1>3, <1>4, <1>5, <1>6, <1>7 DEF Ranked, args, OrElse

\* A maximum TTL is brought into its range wherever it comes from; that of the file is in it.
LEMMA MaxTtlRanked ==
    ASSUME NEW env, AreWords(env), NEW words, AreWords(words), NEW file, IsFile(file),
           AreWords(env \o words), ValidFile(file)
    PROVE  Settings(Apply(ParseArgv(env \o words), Given(env \o words), file)).max_ttl
             = Ranked(words, env, file, "max_ttl")
<1> DEFINE args == Apply(ParseArgv(env \o words), Given(env \o words), file)
           inWords == Mentions(words, {"max_ttl"})
           inEnv   == Mentions(env, {"max_ttl"})
<1>1. /\ "max_ttl" \in FileKeys \ {"color"}
      /\ ArgOf("max_ttl") = "max_ttl" /\ FlagOf("max_ttl") = "max_ttl"
  BY FileKeysAre, ArgOfIs
<1>2. BuiltIn["max_ttl"] = Clamp(DefaultArgs["max_ttl"], 1, 255)
  BY <1>1, SettingsAre, EffectiveIs DEF BuiltIn
<1>3. /\ inWords => args["max_ttl"] = Word(words, "max_ttl")
      /\ ~inWords /\ inEnv => args["max_ttl"] = Word(env, "max_ttl")
      /\ ~inWords /\ ~inEnv /\ "max_ttl" \in DOMAIN file =>
            args["max_ttl"] = ArgValue("max_ttl", file["max_ttl"])
      /\ ~inWords /\ ~inEnv /\ "max_ttl" \notin DOMAIN file =>
            args["max_ttl"] = DefaultArgs["max_ttl"]
  BY <1>1, FromLayers
<1>4. "max_ttl" \in DOMAIN file =>
         /\ ArgValue("max_ttl", file["max_ttl"]) = file["max_ttl"]
         /\ Clamp(file["max_ttl"], 1, 255) = file["max_ttl"]
  <2>1. ASSUME "max_ttl" \in DOMAIN file
        PROVE  file["max_ttl"] \in Int /\ 1 <= file["max_ttl"] /\ file["max_ttl"] <= 255
    BY <2>1 DEF IsFile, ValidFile, InRange
  <2>. QED  BY <2>1 DEF ArgValue, Clamp
<1>5. /\ Says(words, "max_ttl") <=> inWords
      /\ Says(env, "max_ttl") <=> inEnv
      /\ inWords => Said(words, "max_ttl") = Clamp(Word(words, "max_ttl"), 1, 255)
      /\ inEnv => Said(env, "max_ttl") = Clamp(Word(env, "max_ttl"), 1, 255)
  <2>1. \A ws : AreWords(ws) =>
           /\ Says(ws, "max_ttl") <=> Mentions(ws, {"max_ttl"})
           /\ Says(ws, "max_ttl") =>
                 Said(ws, "max_ttl") = Clamp(Word(ws, "max_ttl"), 1, 255)
    <3>1. ASSUME NEW ws, AreWords(ws), NEW key, key = "max_ttl"
          PROVE  /\ Says(ws, key) <=> Mentions(ws, {FlagOf(key)})
                 /\ Says(ws, key) => Said(ws, key) = Clamp(Word(ws, FlagOf(key)), 1, 255)
      <4>1. key \in FileKeys \ {"color"}
        BY <1>1, <3>1
      <4>. QED  BY <3>1, <4>1, SaysIs
    <3>. QED  BY <1>1, <3>1
  <2>. QED  BY <2>1
<1>6. Settings(args).max_ttl = Clamp(args.max_ttl, 1, 255)
  BY SettingsAre
<1>. HIDE DEF args, inWords, inEnv
<1>. QED  BY <1>2, <1>3, <1>4, <1>5, <1>6 DEF Ranked, args

\* The only word about names is that there shall be none.
LEMMA DnsRanked ==
    ASSUME NEW env, AreWords(env), NEW words, AreWords(words), NEW file, IsFile(file),
           AreWords(env \o words)
    PROVE  Settings(Apply(ParseArgv(env \o words), Given(env \o words), file)).dns
             = Ranked(words, env, file, "dns")
<1> DEFINE args == Apply(ParseArgv(env \o words), Given(env \o words), file)
           inWords == Mentions(words, {"no_dns"})
           inEnv   == Mentions(env, {"no_dns"})
<1>1. /\ "dns" \in FileKeys \ {"color"}
      /\ ArgOf("dns") = "no_dns" /\ FlagOf("dns") = "no_dns"
  BY FileKeysAre, ArgOfIs
<1>2. BuiltIn["dns"] = ~DefaultArgs["no_dns"]
  BY <1>1, SettingsAre, EffectiveIs DEF BuiltIn
<1>3. /\ inWords => args["no_dns"] = Word(words, "no_dns")
      /\ ~inWords /\ inEnv => args["no_dns"] = Word(env, "no_dns")
      /\ ~inWords /\ ~inEnv /\ "dns" \in DOMAIN file =>
            args["no_dns"] = ArgValue("dns", file["dns"])
      /\ ~inWords /\ ~inEnv /\ "dns" \notin DOMAIN file =>
            args["no_dns"] = DefaultArgs["no_dns"]
  BY <1>1, FromLayers
<1>4. "dns" \in DOMAIN file =>
         /\ ArgValue("dns", file["dns"]) = ~file["dns"]
         /\ file["dns"] \in BOOLEAN
  BY DEF IsFile, ArgValue
<1>5. /\ Says(words, "dns") <=> inWords
      /\ Says(env, "dns") <=> inEnv
      /\ inWords => Said(words, "dns") = FALSE /\ Word(words, "no_dns") = TRUE
      /\ inEnv => Said(env, "dns") = FALSE /\ Word(env, "no_dns") = TRUE
  <2>1. \A ws : AreWords(ws) =>
           /\ Says(ws, "dns") <=> Mentions(ws, {"no_dns"})
           /\ Says(ws, "dns") => Said(ws, "dns") = FALSE /\ Word(ws, "no_dns") = TRUE
    <3>1. ASSUME NEW ws, AreWords(ws), NEW key, key = "dns"
          PROVE  /\ Says(ws, key) <=> Mentions(ws, {FlagOf(key)})
                 /\ Says(ws, key) => /\ Said(ws, key) = FALSE
                                     /\ Word(ws, FlagOf(key)) = TRUE
      <4>1. key \in FileKeys \ {"color"}
        BY <1>1, <3>1
      <4>. QED  BY <3>1, <4>1, SaysIs
    <3>. QED  BY <1>1, <3>1
  <2>. QED  BY <2>1
<1>6. Settings(args).dns = ~args.no_dns
  BY SettingsAre
<1>. HIDE DEF args, inWords, inEnv
<1>7. CASE inWords
  <2>1. Settings(args).dns = FALSE
    BY <1>3, <1>5, <1>6, <1>7, Zenon
  <2>2. Ranked(words, env, file, "dns") = FALSE
    BY <1>5, <1>7 DEF Ranked
  <2>. QED  BY <2>1, <2>2 DEF args
<1>8. CASE ~inWords /\ inEnv
  <2>1. Settings(args).dns = FALSE
    BY <1>3, <1>5, <1>6, <1>8, Zenon
  <2>2. Ranked(words, env, file, "dns") = FALSE
    BY <1>5, <1>8 DEF Ranked
  <2>. QED  BY <2>1, <2>2 DEF args
<1>9. CASE ~inWords /\ ~inEnv /\ "dns" \in DOMAIN file
  <2>1. Settings(args).dns = file["dns"]
    <3>1. args.no_dns = ~file["dns"]
      BY <1>3, <1>4, <1>9, Zenon
    <3>2. CASE file["dns"] = TRUE
      BY <1>6, <3>1, <3>2, Zenon
    <3>3. CASE file["dns"] = FALSE
      BY <1>6, <3>1, <3>3, Zenon
    <3>. QED  BY <1>4, <1>9, <3>2, <3>3
  <2>2. Ranked(words, env, file, "dns") = file["dns"]
    BY <1>5, <1>9 DEF Ranked
  <2>. QED  BY <2>1, <2>2 DEF args
<1>10. CASE ~inWords /\ ~inEnv /\ "dns" \notin DOMAIN file
  <2>1. Settings(args).dns = BuiltIn["dns"]
    BY <1>2, <1>3, <1>6, <1>10, Zenon
  <2>2. Ranked(words, env, file, "dns") = BuiltIn["dns"]
    BY <1>5, <1>10 DEF Ranked
  <2>. QED  BY <2>1, <2>2 DEF args
<1>. QED  BY <1>7, <1>8, <1>9, <1>10

\* --theme goes before the preset of the file, which has a field of its own.
LEMMA PresetRanked ==
    ASSUME NEW env, AreWords(env), NEW words, AreWords(words), NEW file, IsFile(file),
           AreWords(env \o words)
    PROVE  Settings(Apply(ParseArgv(env \o words), Given(env \o words), file)).preset
             = Ranked(words, env, file, "preset")
<1> DEFINE args == Apply(ParseArgv(env \o words), Given(env \o words), file)
           inWords == Mentions(words, {"theme"})
           inEnv   == Mentions(env, {"theme"})
<1>1. /\ "preset" \in FileKeys \ {"color"}
      /\ ArgOf("preset") = "theme_preset" /\ FlagOf("preset") = "theme"
      /\ "theme" \in DOMAIN DefaultArgs /\ \A key \in FileKeys : ArgOf(key) # "theme"
      /\ DefaultArgs["theme"] = None /\ DefaultArgs["theme_preset"] = None
  BY FileKeysAre, ArgOfIs, Defaults
<1>2. BuiltIn["preset"] = OrElse(DefaultArgs.theme, OrElse(DefaultArgs.theme_preset, "default"))
  BY <1>1, SettingsAre, EffectiveIs DEF BuiltIn
<1>3. /\ ~inWords /\ ~inEnv /\ "preset" \in DOMAIN file =>
            args["theme_preset"] = ArgValue("preset", file["preset"])
      /\ ~inWords /\ ~inEnv /\ "preset" \notin DOMAIN file =>
            args["theme_preset"] = DefaultArgs["theme_preset"]
  BY <1>1, FromLayers
<1>4. /\ inWords => args["theme"] = Word(words, "theme")
      /\ ~inWords /\ inEnv => args["theme"] = Word(env, "theme")
      /\ ~inWords /\ ~inEnv => args["theme"] = DefaultArgs["theme"]
  BY <1>1, FromWords
<1>5. "preset" \in DOMAIN file => /\ ArgValue("preset", file["preset"]) = file["preset"]
                                  /\ file["preset"] # None
  BY DEF IsFile, ArgValue
<1>6. /\ Says(words, "preset") <=> inWords
      /\ Says(env, "preset") <=> inEnv
      /\ inWords => Said(words, "preset") = Word(words, "theme") /\ Word(words, "theme") # None
      /\ inEnv => Said(env, "preset") = Word(env, "theme") /\ Word(env, "theme") # None
  <2>1. \A ws : AreWords(ws) =>
           /\ Says(ws, "preset") <=> Mentions(ws, {"theme"})
           /\ Says(ws, "preset") =>
                 Said(ws, "preset") = Word(ws, "theme") /\ Word(ws, "theme") # None
    <3>1. ASSUME NEW ws, AreWords(ws), NEW key, key = "preset"
          PROVE  /\ Says(ws, key) <=> Mentions(ws, {FlagOf(key)})
                 /\ Says(ws, key) => /\ Said(ws, key) = Word(ws, FlagOf(key))
                                     /\ Word(ws, FlagOf(key)) # None
      <4>1. key \in FileKeys \ {"color"} /\ key \notin {"dns", "max_ttl"}
        BY <1>1, <3>1
      <4>. QED  BY <3>1, <4>1, SaysIs
    <3>. QED  BY <1>1, <3>1
  <2>. QED  BY <2>1
<1>7. Settings(args).preset = OrElse(args.theme, OrElse(args.theme_preset, "default"))
  BY SettingsAre
<1>. HIDE DEF args, inWords, inEnv
<1>. QED  BY <1>1, <1>2, <1>3, <1>4, <1>5, <1>6, <1>7 DEF Ranked, args, OrElse

\* Where one of two options is not mentioned, the last of both is the last of the other.
LEMMA LastOfOne ==
    ASSUME NEW words, IsList(words), NEW ids, NEW id \in ids,
           \A i \in DOMAIN words : words[i].id \in ids => words[i].id = id
    PROVE  /\ Mentions(words, ids) <=> Mentions(words, {id})
           /\ Mentions(words, {id}) => LastAt(words, ids) = LastAt(words, {id})
<1>1. Mentions(words, ids) <=> Mentions(words, {id})
  BY DEF Mentions
<1>2. ASSUME Mentions(words, {id}) PROVE LastAt(words, ids) = LastAt(words, {id})
  <2> DEFINE l == LastAt(words, {id})
  <2>1. PICK k \in DOMAIN words : words[k].id \in {id}
    BY <1>2 DEF Mentions
  <2>2. /\ l \in DOMAIN words /\ words[l].id \in {id}
        /\ \A j \in DOMAIN words : words[j].id \in {id} => j <= l
    BY <2>1, LastOf
  <2>. HIDE DEF l
  <2>3. words[l].id \in ids /\ \A j \in DOMAIN words : words[j].id \in ids => j <= l
    BY <2>2
  <2>4. LastAt(words, ids) = l
    BY <2>2, <2>3, LastIs
  <2>. QED  BY <2>4 DEF l
<1>. QED  BY <1>1, <1>2

\* What a layer says about colours when only one of the two options is used at all.
LEMMA SaysColor ==
    ASSUME NEW words, AreWords(words)
    PROVE  /\ ~Mentions(words, {"no_color"}) =>
                 /\ Says(words, "color") <=> Mentions(words, {"color"})
                 /\ Says(words, "color") => /\ Said(words, "color") = Word(words, "color")
                                            /\ Word(words, "color") # None
           /\ ~Mentions(words, {"color"}) =>
                 /\ Says(words, "color") <=> Mentions(words, {"no_color"})
                 /\ Says(words, "color") => /\ Said(words, "color") = "never"
                                            /\ Word(words, "no_color") = TRUE
<1> DEFINE ids == {"color", "no_color"}
           last(is) == LastAt(words, is)
<1>1. FlagsOf("color") = ids /\ (Says(words, "color") <=> Mentions(words, ids))
  BY DEF FlagsOf, Says, Mentions
<1>2. Said(words, "color") = CASE words[last(ids)].id = "no_color" -> "never"
                               [] words[last(ids)].id = "no_dns"   -> FALSE
                               [] words[last(ids)].id = "max_ttl"  ->
                                     Clamp(words[last(ids)].val, 1, 255)
                               [] OTHER                        -> words[last(ids)].val
  <2>. HIDE DEF ids
  <2>. QED  BY <1>1, Zenon DEF Said
<1>3. IsList(words) /\ ids \subseteq DOMAIN DefaultArgs
  BY WordsList, Defaults
<1>4. \A id \in ids : Mentions(words, {id}) =>
         /\ words[last({id})].id = id /\ words[last({id})].val # None
         /\ id \in Switches => words[last({id})].val = TRUE
  BY <1>3, Parsed
<1>5. ASSUME NEW id \in ids, \A other \in ids : other # id => ~Mentions(words, {other})
      PROVE  /\ Mentions(words, ids) <=> Mentions(words, {id})
             /\ Mentions(words, {id}) => last(ids) = last({id})
  <2>1. \A i \in DOMAIN words : words[i].id \in ids => words[i].id = id
    BY <1>5 DEF Mentions
  <2>. HIDE DEF ids
  <2>. QED  BY <1>3, <2>1, LastOfOne
<1>. HIDE DEF last
<1>6. ASSUME ~Mentions(words, {"no_color"})
      PROVE  /\ Says(words, "color") <=> Mentions(words, {"color"})
             /\ Says(words, "color") => /\ Said(words, "color") = Word(words, "color")
                                        /\ Word(words, "color") # None
  <2>1. /\ Mentions(words, ids) <=> Mentions(words, {"color"})
        /\ Mentions(words, {"color"}) => last(ids) = last({"color"})
    BY <1>5, <1>6
  <2>2. Mentions(words, {"color"}) =>
           words[last(ids)].id = "color" /\ words[last(ids)].val # None
    BY <1>4, <2>1
  <2>3. Word(words, "color") = words[last({"color"})].val
    BY DEF Word, last
  <2>. QED  BY <1>1, <1>2, <2>1, <2>2, <2>3
<1>7. ASSUME ~Mentions(words, {"color"})
      PROVE  /\ Says(words, "color") <=> Mentions(words, {"no_color"})
             /\ Says(words, "color") => /\ Said(words, "color") = "never"
                                        /\ Word(words, "no_color") = TRUE
  <2>1. /\ Mentions(words, ids) <=> Mentions(words, {"no_color"})
        /\ Mentions(words, {"no_color"}) => last(ids) = last({"no_color"})
    BY <1>5, <1>7
  <2>2. Mentions(words, {"no_color"}) =>
           words[last(ids)].id = "no_color" /\ words[last({"no_color"})].val = TRUE
    BY <1>4, <2>1 DEF Switches
  <2>3. Word(words, "no_color") = words[last({"no_color"})].val
    BY DEF Word, last
  <2>. QED  BY <1>1, <1>2, <2>1, <2>2, <2>3
<1>. QED  BY <1>6, <1>7

\* The colours, unless both options are given.
LEMMA ColorRanked ==
    ASSUME NEW env, AreWords(env), NEW words, AreWords(words), NEW file, IsFile(file),
           AreWords(env \o words), ~({"color", "no_color"} \subseteq Given(env \o words))
    PROVE  Settings(Apply(ParseArgv(env \o words), Given(env \o words), file)).color
             = Ranked(words, env, file, "color")
<1> DEFINE args == Apply(ParseArgv(env \o words), Given(env \o words), file)
<1>1. /\ "color" \in FileKeys /\ ArgOf("color") = "color_choice" /\ FlagOf("color") = "color"
      /\ {"color", "no_color"} \subseteq DOMAIN DefaultArgs
      /\ \A key \in FileKeys : ArgOf(key) # "color" /\ ArgOf(key) # "no_color"
      /\ DefaultArgs["color"] = None /\ DefaultArgs["color_choice"] = None
      /\ DefaultArgs["no_color"] = FALSE
  BY FileKeysAre, ArgOfIs, Defaults
<1>2. BuiltIn["color"] = "auto"
  <2>1. BuiltIn["color"] = ColorOf(DefaultArgs)
    BY <1>1, SettingsAre, EffectiveIs DEF BuiltIn
  <2>. QED  BY <1>1, <2>1 DEF ColorOf, OrElse
<1>3. ~Mentions(words, {"color"}) /\ ~Mentions(env, {"color"}) =>
         /\ "color" \in DOMAIN file => args["color_choice"] = ArgValue("color", file["color"])
         /\ "color" \notin DOMAIN file => args["color_choice"] = DefaultArgs["color_choice"]
  BY <1>1, FromLayers
<1>4. \A id \in {"color", "no_color"} :
         /\ Mentions(words, {id}) => args[id] = Word(words, id)
         /\ ~Mentions(words, {id}) /\ Mentions(env, {id}) => args[id] = Word(env, id)
         /\ ~Mentions(words, {id}) /\ ~Mentions(env, {id}) => args[id] = DefaultArgs[id]
  <2>1. ASSUME NEW id \in {"color", "no_color"}
        PROVE  /\ Mentions(words, {id}) => args[id] = Word(words, id)
               /\ ~Mentions(words, {id}) /\ Mentions(env, {id}) => args[id] = Word(env, id)
               /\ ~Mentions(words, {id}) /\ ~Mentions(env, {id}) =>
                     args[id] = DefaultArgs[id]
    <3>1. id \in DOMAIN DefaultArgs /\ \A key \in FileKeys : ArgOf(key) # id
      BY <1>1
    <3>. QED  BY <3>1, FromWords
  <2>. QED  BY <2>1
<1>5. "color" \in DOMAIN file => /\ ArgValue("color", file["color"]) = file["color"]
                                 /\ file["color"] # None
  BY DEF IsFile, ArgValue
<1>6. \/ ~Mentions(words, {"color"}) /\ ~Mentions(env, {"color"})
      \/ ~Mentions(words, {"no_color"}) /\ ~Mentions(env, {"no_color"})
  <2>1. IsList(env) /\ IsList(words)
    BY WordsList
  <2>2. \A id \in {"color", "no_color"} :
           Mentions(env, {id}) \/ Mentions(words, {id}) => id \in Given(env \o words)
    <3>1. ASSUME NEW id \in {"color", "no_color"}, Mentions(env, {id}) \/ Mentions(words, {id})
          PROVE  id \in Given(env \o words)
      <4>1. Mentions(env \o words, {id})
        BY <2>1, <3>1, LastOfBoth
      <4>. QED  BY <1>1, <4>1, Parsed
    <3>. QED  BY <3>1
  <2>. QED  BY <2>2
<1>7. Settings(args).color = ColorOf(args)
  BY SettingsAre
<1>. HIDE DEF args
<1>8. Settings(args).color = IF args["color"] # None THEN args["color"]
                             ELSE IF args["no_color"] THEN "never"
                             ELSE IF args["color_choice"] = None THEN "auto"
                                  ELSE args["color_choice"]
  BY <1>7, Zenon DEF ColorOf, OrElse
<1>9. CASE ~Mentions(words, {"no_color"}) /\ ~Mentions(env, {"no_color"})
  <2>1. args["no_color"] = FALSE
    BY <1>1, <1>4, <1>9
  <2>2. /\ Says(words, "color") <=> Mentions(words, {"color"})
        /\ Says(words, "color") => /\ Said(words, "color") = Word(words, "color")
                                   /\ Word(words, "color") # None
        /\ Says(env, "color") <=> Mentions(env, {"color"})
        /\ Says(env, "color") => /\ Said(env, "color") = Word(env, "color")
                                 /\ Word(env, "color") # None
    BY <1>9, SaysColor
  <2>3. /\ Mentions(words, {"color"}) => args["color"] = Word(words, "color")
        /\ ~Mentions(words, {"color"}) /\ Mentions(env, {"color"}) =>
              args["color"] = Word(env, "color")
        /\ ~Mentions(words, {"color"}) /\ ~Mentions(env, {"color"}) => args["color"] = None
    BY <1>1, <1>4
  <2>4. CASE Mentions(words, {"color"})
    BY <1>8, <2>2, <2>3, <2>4 DEF Ranked, args
  <2>5. CASE ~Mentions(words, {"color"}) /\ Mentions(env, {"color"})
    BY <1>8, <2>2, <2>3, <2>5 DEF Ranked, args
  <2>6. CASE ~Mentions(words, {"color"}) /\ ~Mentions(env, {"color"})
    BY <1>1, <1>2, <1>3, <1>5, <1>8, <2>1, <2>2, <2>3, <2>6 DEF Ranked, args
  <2>. QED  BY <2>4, <2>5, <2>6
<1>10. CASE ~Mentions(words, {"color"}) /\ ~Mentions(env, {"color"})
  <2>1. args["color"] = None
    BY <1>1, <1>4, <1>10
  <2>2. /\ Says(words, "color") <=> Mentions(words, {"no_color"})
        /\ Says(words, "color") => /\ Said(words, "color") = "never"
                                   /\ Word(words, "no_color") = TRUE
        /\ Says(env, "color") <=> Mentions(env, {"no_color"})
        /\ Says(env, "color") => /\ Said(env, "color") = "never"
                                 /\ Word(env, "no_color") = TRUE
    BY <1>10, SaysColor
  <2>3. /\ Mentions(words, {"no_color"}) \/ Mentions(env, {"no_color"}) =>
              args["no_color"] = TRUE
        /\ ~Mentions(words, {"no_color"}) /\ ~Mentions(env, {"no_color"}) =>
              args["no_color"] = FALSE
    BY <1>1, <1>4, <2>2
  <2>4. CASE Mentions(words, {"no_color"})
    BY <1>8, <2>1, <2>2, <2>3, <2>4 DEF Ranked, args
  <2>5. CASE ~Mentions(words, {"no_color"}) /\ Mentions(env, {"no_color"})
    BY <1>8, <2>1, <2>2, <2>3, <2>5 DEF Ranked, args
  <2>6. CASE ~Mentions(words, {"no_color"}) /\ ~Mentions(env, {"no_color"})
    BY <1>1, <1>2, <1>3, <1>5, <1>8, <1>10, <2>1, <2>2, <2>3, <2>6 DEF Ranked, args
  <2>. QED  BY <2>4, <2>5, <2>6
<1>. QED  BY <1>6, <1>9, <1>10

\* All of them.
LEMMA AllRanked ==
    ASSUME NEW env, AreWords(env), NEW words, AreWords(words), NEW file, IsFile(file),
           AreWords(env \o words), ValidFile(file), NEW key \in FileKeys,
           key = "color" => ~({"color", "no_color"} \subseteq Given(env \o words))
    PROVE  Settings(Apply(ParseArgv(env \o words), Given(env \o words), file))[key]
             = Ranked(words, env, file, key)
<1>1. CASE key \in {"ascii", "sparkline", "detail_pane", "interval", "gracetime",
                    "max_unknown", "timeout", "asn", "overrides"}
  BY <1>1, PlainRanked
<1>2. CASE key \in {"rtt_thresholds_ms", "fields"}
  BY <1>2, TextRanked
<1>3. CASE key = "max_ttl"
  BY <1>3, MaxTtlRanked
<1>4. CASE key = "dns"
  BY <1>4, DnsRanked
<1>5. CASE key = "preset"
  BY <1>5, PresetRanked
<1>6. CASE key = "color"
  BY <1>6, ColorRanked
<1>. QED  BY <1>1, <1>2, <1>3, <1>4, <1>5, <1>6, FileKeysAre

-----------------------------------------------------------------------------
(* Every layer, once read *)

\* Words after words are words.
LEMMA WordsJoin ==
    ASSUME NEW env, AreWords(env), NEW words, AreWords(words)
    PROVE  AreWords(env \o words)
<1> DEFINE both == env \o words
           S    == ToSet(env) \cup ToSet(words)
           Right(word) == /\ word.id \in DOMAIN DefaultArgs \ FileOnly /\ word.val # None
                          /\ word.id \in Switches => word.val = TRUE
                          /\ word.id \in Wholes => word.val \in Int
<1>1. IsList(env) /\ IsList(words) /\ IsList(both)
  BY WordsList, ListsJoin
<1>2. env \in Seq(S) /\ words \in Seq(S)
  BY <1>1 DEF IsList
<1>3. both \in Seq(S)
  BY <1>2, ConcatProperties
<1>4. \A word \in S : Right(word)
  BY DEF AreWords, ToSet
<1>. HIDE DEF both, S, Right
<1>5. \A i \in DOMAIN both : Right(both[i])
  BY <1>3, <1>4
<1>6. both \in Seq({both[i] : i \in DOMAIN both})
  BY <1>1 DEF IsList, ToSet
<1>. QED  BY <1>5, <1>6 DEF AreWords, both, Right

\* No words are words, and a file may be empty.
LEMMA Nothing == AreWords(<<>>) /\ IsFile(Empty)
<1>1. DOMAIN <<>> = {} /\ <<>> \in Seq({})
  BY EmptySeq
<1>2. <<>> \in Seq({(<<>>)[i] : i \in DOMAIN <<>>})
  BY <1>1, EmptySeq
<1>. QED  BY <1>1, <1>2 DEF AreWords, IsFile, Empty

\* Any of the values in effect make a file.
LEMMA SomeSettings ==
    ASSUME NEW words, AreWords(words), NEW file, IsFile(file), NEW keys \in SUBSET FileKeys
    PROVE  LET all == Effective(Apply(ParseArgv(words), Given(words), file)) IN
           DOMAIN all = FileKeys /\ IsFile([k \in keys |-> all[k]])
<1> DEFINE args == Apply(ParseArgv(words), Given(words), file)
           all  == Effective(args)
           some == [k \in keys |-> all[k]]
<1>1. ArgsTyped(args)
  BY ArgsType
<1>. HIDE DEF args
<1>2. DOMAIN all = FileKeys /\ \A k \in FileKeys : all[k] = Settings(args)[k]
  BY SettingsAre, EffectiveIs DEF Effective
<1>3. "default" # None /\ "auto" # None /\ "never" # None
  BY OptionsAssumption
<1>4. \A k \in {"rtt_thresholds_ms", "fields", "color", "preset"} : Settings(args)[k] # None
  BY <1>3, SettingsAre DEF OrElse, ColorOf
<1>5. Settings(args).max_ttl \in Int /\ Settings(args).max_unknown \in Int
  BY <1>1, SettingsAre DEF ArgsTyped, Clamp
<1>6. Settings(args).dns \in BOOLEAN
  BY SettingsAre
<1>. HIDE DEF all
<1>7. DOMAIN some = keys /\ \A k \in keys : some[k] = Settings(args)[k]
  BY <1>2
<1>. HIDE DEF some
<1>8. IsFile(some)
  BY <1>4, <1>5, <1>6, <1>7 DEF IsFile
<1>. QED  BY <1>2, <1>8 DEF all, some, args

\* What --init-config writes is a file, as much as it gets written.
LEMMA SavedFits ==
    ASSUME NEW words, AreWords(words), NEW file, IsFile(file)
    PROVE  LET all == Effective(Apply(ParseArgv(words), Given(words), file)) IN
           /\ DOMAIN all = FileKeys
           /\ IsConfig(Toml(Saved(all)))
           /\ \A rest \in Truncated(Saved(all)) : IsConfig(rest)
<1> DEFINE all == Effective(Apply(ParseArgv(words), Given(words), file))
<1>1. DOMAIN all = FileKeys
  BY SomeSettings
<1>2. \A keys \in SUBSET FileKeys : IsFile([k \in keys |-> all[k]])
  BY SomeSettings
<1>. HIDE DEF all
<1> DEFINE changed == {key \in FileKeys : all[key] # BuiltIn[key]}
<1>3. Saved(all) = [k \in changed |-> all[k]]
  BY DEF Saved
<1>4. \A keys : IsFile(keys) => IsConfig(Toml(keys))
  BY DEF IsConfig, Toml
<1>5. IsConfig(Toml(Saved(all)))
  <2>1. changed \in SUBSET FileKeys
    OBVIOUS
  <2>. HIDE DEF changed
  <2>. QED  BY <2>1, <1>2, <1>3, <1>4
<1>6. ASSUME NEW rest \in Truncated(Saved(all)) PROVE IsConfig(rest)
  <2>1. CASE rest = Broken
    BY <2>1 DEF IsConfig
  <2>2. CASE rest # Broken
    <3>1. PICK n \in 0..Len(KeyOrder) :
             rest = Toml([k \in DOMAIN Saved(all) \cap ToSet(SubSeq(KeyOrder, 1, n))
                            |-> Saved(all)[k]])
      BY <2>2 DEF Truncated
    <3> DEFINE keys == DOMAIN Saved(all) \cap ToSet(SubSeq(KeyOrder, 1, n))
    <3>2. keys \subseteq changed /\ \A k \in keys : Saved(all)[k] = all[k]
      BY <1>3
    <3>. HIDE DEF keys
    <3>3. [k \in keys |-> Saved(all)[k]] = [k \in keys |-> all[k]]
      BY <3>2
    <3>4. IsFile([k \in keys |-> Saved(all)[k]])
      BY <3>2, <3>3, <1>2
    <3>. QED  BY <3>1, <3>4, <1>4 DEF keys
  <2>. QED  BY <2>1, <2>2
<1>. QED  BY <1>1, <1>5, <1>6 DEF all

\* What has been read so far: the words of both sources, a file that is valid, and options that
\* have been accepted once the targets are looked at.
Reading   == {"init", "config", "hosts"}
Accepting == {"preflight", "resolve all"} \cup Begun

Layers ==
    /\ AreWords(argv) /\ IsFile(read)
    /\ pc \in Reading => /\ AreWords(world.env) /\ AreWords(world.words)
                         /\ argv = BuildArgv(world.env, world.words)
    /\ pc \in {"hosts"} \cup Accepting => ValidFile(read)
    /\ pc \in Accepting => Accepted(Args, world.root)

\* What lies in the files: what has been saved is there, and what has been read was there.
Stored ==
    /\ DOMAIN files = {"default", "named"} /\ \A path \in DOMAIN files : IsConfig(files[path])
    /\ pc = "hosts" /\ ~world.guard /\ ConfigPath # None /\ files[ConfigPath] # Absent =>
          files[ConfigPath] = Toml(read)
    /\ saved # None => /\ saved.path \in DOMAIN files \ {None}
                       /\ DOMAIN saved.settings = FileKeys
                       /\ files[saved.path] = Toml(Saved(saved.settings))
                       /\ CanSave(saved.settings, world.root)

LayersInv == WellFormed(world) /\ Layers /\ Stored

\* A process starts with nothing read.
LEMMA LayersInit == Init => LayersInv
<1>. SUFFICES ASSUME Init PROVE LayersInv
  OBVIOUS
<1>1. /\ world \in Worlds /\ files = world.files /\ pc = "start" /\ argv = <<>>
      /\ read = Empty /\ saved = None
  BY DEF Init
<1>2. WellFormed(world)
  BY <1>1, WorldsWellFormed
<1>3. DOMAIN files = {"default", "named"} /\ \A path \in DOMAIN files : IsConfig(files[path])
  BY <1>1, SessionAssumption
<1>4. pc \notin Reading /\ pc \notin {"hosts"} \cup Accepting
  BY <1>1 DEF Reading, Accepting, Begun, Looping, Running
<1>5. AreWords(argv) /\ IsFile(read)
  BY <1>1, Nothing
<1>6. Layers
  BY <1>4, <1>5 DEF Layers
<1>7. Stored
  BY <1>1, <1>3 DEF Stored
<1>. QED  BY <1>2, <1>6, <1>7 DEF LayersInv

\* The contents of a file are those it was made of, and it is not absent.
LEMMA TomlIs ==
    /\ \A k, l : Toml(k) = Toml(l) => k = l
    /\ \A k : Toml(k) # Absent /\ Toml(k) # Broken /\ Toml(k).kind = "toml" /\ Toml(k).keys = k
<1>1. \A k : Toml(k).kind = "toml" /\ Toml(k).keys = k
  BY DEF Toml
<1>2. Absent.kind = "absent" /\ Broken.kind = "broken"
  BY DEF Absent, Broken
<1>. QED  BY <1>1, <1>2

\* Once the options are accepted, nothing that they are made of changes.
LEMMA LayersMove ==
    ASSUME LayersInv, pc \in Accepting, pc' \in Accepting \cup {"exit"},
           UNCHANGED <<world, files, argv, read, saved>>
    PROVE  LayersInv'
<1>1. Args' = Args
  BY DEF Args
<1>2. WellFormed(world)'
  BY DEF LayersInv
<1>3. pc' \notin Reading /\ pc' # "hosts"
  BY DEF Reading, Accepting, Begun, Looping, Running
<1>4. Layers'
  BY <1>1, <1>3 DEF LayersInv, Layers
<1>5. Stored'
  BY <1>3 DEF LayersInv, Stored
<1>. QED  BY <1>2, <1>4, <1>5 DEF LayersInv

\* The configuration file is read, or there is none.
LEMMA LayersRead == LayersInv /\ LoadConfig => LayersInv'
<1>. SUFFICES ASSUME LayersInv, LoadConfig PROVE LayersInv'
  OBVIOUS
<1> DEFINE contents == IF world.guard \/ ConfigPath = None THEN Absent ELSE files[ConfigPath]
<1>1. pc = "config" /\ UNCHANGED <<world, files, argv, saved>>
  BY DEF LoadConfig
<1>2. WellFormed(world) /\ Layers /\ Stored /\ pc \in Reading
  BY <1>1 DEF LayersInv, Reading
<1>3. ConfigPath' = ConfigPath /\ ConfigPath \in {"named", "default", None}
  BY <1>1 DEF ConfigPath
<1>4. \/ pc' = "exit" /\ read' = read
      \/ pc' = "hosts" /\ contents = Absent /\ read' = Empty
      \/ /\ pc' = "hosts" /\ contents # Absent /\ contents # Broken
         /\ ValidFile(contents.keys) /\ read' = contents.keys
  <2>1. (CASE world.guard /\ "config" \in Given(argv) -> Exit(1) /\ read' = read
           [] contents = Absent                       -> Goto("hosts") /\ read' = Empty
           [] contents = Broken                       -> Exit(1) /\ read' = read
           [] OTHER -> IF ValidFile(contents.keys)
                       THEN Goto("hosts") /\ read' = contents.keys
                       ELSE Exit(1) /\ read' = read)
    BY DEF LoadConfig
  <2>2. (Exit(1) => pc' = "exit") /\ (Goto("hosts") => pc' = "hosts")
    BY DEF Exit, Goto
  <2> DEFINE forbidden == world.guard /\ "config" \in Given(argv)
             invalid   == ~ValidFile(contents.keys)
  <2>3. CASE forbidden
    <3>1. contents = Absent /\ contents # Broken
      BY <2>3 DEF Absent, Broken
    <3>. HIDE DEF contents, invalid
    <3>2. \/ Exit(1) /\ read' = read
          \/ Goto("hosts") /\ read' = Empty
      BY <2>1, <2>3, <3>1
    <3>. QED  BY <3>1, <3>2, <2>2
  <2>. HIDE DEF contents
  <2>4. CASE ~forbidden /\ contents = Absent
    BY <2>1, <2>2, <2>4
  <2>5. CASE ~forbidden /\ contents # Absent /\ contents = Broken
    BY <2>1, <2>2, <2>5
  <2>6. CASE ~forbidden /\ contents # Absent /\ contents # Broken
    BY <2>1, <2>2, <2>6
  <2>. QED  BY <2>3, <2>4, <2>5, <2>6
<1>5. CASE pc' = "exit" /\ read' = read
  <2>1. pc' \notin Reading /\ pc' # "hosts" /\ pc' \notin {"hosts"} \cup Accepting
    BY <1>5 DEF Reading, Accepting, Begun, Looping, Running
  <2>2. Layers'
    BY <1>1, <1>2, <1>5, <2>1 DEF Layers
  <2>3. Stored'
    BY <1>1, <1>2, <2>1 DEF Stored
  <2>. QED  BY <1>1, <1>2, <2>2, <2>3 DEF LayersInv
<1>6. ASSUME pc' = "hosts", IsFile(read'), ValidFile(read'),
             ~world.guard /\ ConfigPath # None /\ files[ConfigPath] # Absent =>
                files[ConfigPath] = Toml(read')
      PROVE  LayersInv'
  <2>1. pc' \in Reading /\ pc' \notin Accepting
    BY <1>6 DEF Reading, Accepting, Begun, Looping, Running
  <2>2. Layers'
    BY <1>1, <1>2, <1>6, <2>1 DEF Layers
  <2>3. Stored'
    BY <1>1, <1>2, <1>3, <1>6 DEF Stored
  <2>. QED  BY <1>1, <1>2, <2>2, <2>3 DEF LayersInv
<1>7. CASE pc' = "hosts" /\ contents = Absent /\ read' = Empty
  <2>1. IsFile(read') /\ ValidFile(read')
    <3>1. DOMAIN Empty = {}
      BY DEF Empty
    <3>. QED  BY <1>7, <3>1, Nothing DEF ValidFile
  <2>2. ~(~world.guard /\ ConfigPath # None /\ files[ConfigPath] # Absent)
    BY <1>7
  <2>. QED  BY <1>6, <1>7, <2>1, <2>2
<1>8. CASE /\ pc' = "hosts" /\ contents # Absent /\ contents # Broken
           /\ ValidFile(contents.keys) /\ read' = contents.keys
  <2>1. /\ ~world.guard /\ ConfigPath # None /\ contents = files[ConfigPath]
        /\ IsConfig(contents)
    BY <1>2, <1>3, <1>8 DEF Stored
  <2>2. contents = Toml(contents.keys) /\ IsFile(contents.keys)
    BY <1>8, <2>1 DEF IsConfig
  <2>. QED  BY <1>6, <1>8, <2>1, <2>2
<1>. QED  BY <1>4, <1>5, <1>7, <1>8

\* --init-config leaves the file it was to leave, or part of it where there was nothing.
LEMMA LayersSave == LayersInv /\ InitConfig => LayersInv'
<1>. SUFFICES ASSUME LayersInv, InitConfig PROVE LayersInv'
  OBVIOUS
<1> DEFINE settings == Effective(Args)
           refused  == \/ world.guard \/ ConfigPath = None
                       \/ ~CanSave(settings, world.root) \/ files[ConfigPath] # Absent
<1>1. pc' = "exit" /\ UNCHANGED <<world, argv, read>>
  BY DEF InitConfig, Exit
<1>2. WellFormed(world) /\ Layers /\ Stored
  BY DEF LayersInv
<1>3. pc' \notin Reading /\ pc' # "hosts" /\ pc' \notin {"hosts"} \cup Accepting
  BY <1>1 DEF Reading, Accepting, Begun, Looping, Running
<1>4. Layers'
  BY <1>1, <1>2, <1>3 DEF Layers
<1>5. /\ DOMAIN settings = FileKeys
      /\ IsConfig(Toml(Saved(settings)))
      /\ \A rest \in Truncated(Saved(settings)) : IsConfig(rest)
  BY <1>2, SavedFits DEF Args, Layers
<1>6. \/ UNCHANGED <<files, saved>>
      \/ /\ ~refused /\ files' = [files EXCEPT ![ConfigPath] = Toml(Saved(settings))]
         /\ saved' = [path |-> ConfigPath, settings |-> settings]
      \/ /\ ~refused /\ saved' = saved
         /\ \E rest \in Truncated(Saved(settings)) :
               files' = [files EXCEPT ![ConfigPath] = rest]
  BY DEF InitConfig
<1>. HIDE DEF settings
<1>7. ConfigPath # None => ConfigPath \in DOMAIN files
  BY <1>2 DEF Stored, ConfigPath
<1>8. Stored'
  <2>1. CASE UNCHANGED <<files, saved>>
    BY <1>1, <1>2, <1>3, <2>1 DEF Stored
  <2>2. CASE /\ ~refused /\ files' = [files EXCEPT ![ConfigPath] = Toml(Saved(settings))]
             /\ saved' = [path |-> ConfigPath, settings |-> settings]
    <3>1. /\ DOMAIN files' = DOMAIN files /\ files'[ConfigPath] = Toml(Saved(settings))
          /\ \A path \in DOMAIN files : path # ConfigPath => files'[path] = files[path]
          /\ ConfigPath \in DOMAIN files
      BY <2>2, <1>7
    <3>2. \A path \in DOMAIN files' : IsConfig(files'[path])
      BY <3>1, <1>2, <1>5 DEF Stored
    <3>3. saved'.path = ConfigPath /\ saved'.settings = settings
          /\ saved'.path # None
      BY <2>2
    <3>4. CanSave(settings, world.root)
      BY <2>2
    <3>. QED  BY <1>1, <1>2, <1>3, <1>5, <3>1, <3>2, <3>3, <3>4 DEF Stored
  <2>3. CASE /\ ~refused /\ saved' = saved
             /\ \E rest \in Truncated(Saved(settings)) :
                   files' = [files EXCEPT ![ConfigPath] = rest]
    <3>1. PICK rest \in Truncated(Saved(settings)) : files' = [files EXCEPT ![ConfigPath] = rest]
      BY <2>3
    <3>2. /\ DOMAIN files' = DOMAIN files /\ files'[ConfigPath] = rest
          /\ \A path \in DOMAIN files : path # ConfigPath => files'[path] = files[path]
          /\ ConfigPath \in DOMAIN files /\ files[ConfigPath] = Absent
      BY <2>3, <3>1, <1>7
    <3>3. \A path \in DOMAIN files' : IsConfig(files'[path])
      BY <3>2, <1>2, <1>5 DEF Stored
    <3>4. saved # None => saved.path # ConfigPath
      BY <1>2, <3>2, TomlIs DEF Stored
    <3>. QED  BY <1>1, <1>2, <1>3, <2>3, <3>2, <3>3, <3>4 DEF Stored
  <2>. QED  BY <1>6, <2>1, <2>2, <2>3
<1>. QED  BY <1>1, <1>2, <1>4, <1>8 DEF LayersInv

\* Every step keeps the layers and what is stored.
LEMMA LayersStep == LayersInv /\ Next => LayersInv'
<1>. SUFFICES ASSUME LayersInv, Next PROVE LayersInv'
  OBVIOUS
<1>1. WellFormed(world) /\ Layers /\ Stored
  BY DEF LayersInv
<1>2. CASE Parse
  <2>1. pc = "start" /\ UNCHANGED <<world, files, read, saved>>
    BY <1>2 DEF Parse
  <2>2. \/ pc' = "exit" /\ argv' = argv
        \/ /\ Wrong \notin {world.env, world.words} /\ world.words # Help
           /\ argv' = BuildArgv(world.env, world.words)
           /\ pc' \in {"exit", "init", "config"}
    BY <1>2 DEF Parse, Exit, Goto
  <2>3. pc' # "hosts" /\ pc' \notin {"hosts"} \cup Accepting
    BY <2>2 DEF Accepting, Begun, Looping, Running
  <2>4. AreWords(argv') /\ (pc' \in Reading =>
                              /\ AreWords(world.env) /\ AreWords(world.words)
                              /\ argv' = BuildArgv(world.env, world.words))
    <3>1. CASE pc' = "exit" /\ argv' = argv
      BY <3>1, <1>1 DEF Layers, Reading
    <3>2. CASE /\ Wrong \notin {world.env, world.words} /\ world.words # Help
               /\ argv' = BuildArgv(world.env, world.words)
      <4>1. AreWords(world.env) /\ AreWords(world.words)
        BY <3>2, <1>1 DEF WellFormed
      <4>. QED  BY <3>2, <4>1, WordsJoin DEF BuildArgv
    <3>. QED  BY <2>2, <3>1, <3>2
  <2>5. Layers'
    BY <1>1, <2>1, <2>3, <2>4 DEF Layers
  <2>6. Stored'
    BY <1>1, <2>1, <2>3 DEF Stored
  <2>. QED  BY <1>1, <2>1, <2>5, <2>6 DEF LayersInv
<1>3. CASE IntoOptions
  <2>1. pc = "hosts" /\ UNCHANGED <<world, files, argv, read, saved>>
    BY <1>3 DEF IntoOptions
  <2>2. pc' = "exit" \/ (pc' = "preflight" /\ Accepted(Args, world.root))
    BY <1>3 DEF IntoOptions, Exit, Goto
  <2>3. pc' \notin Reading /\ pc' # "hosts" /\ Args' = Args
        /\ (pc' \in Accepting => Accepted(Args, world.root))
    BY <2>1, <2>2 DEF Reading, Accepting, Begun, Looping, Running, Args
  <2>4. ValidFile(read)
    BY <1>1, <2>1 DEF Layers
  <2>5. Layers'
    BY <1>1, <2>1, <2>3, <2>4 DEF Layers
  <2>6. Stored'
    BY <1>1, <2>1, <2>3 DEF Stored
  <2>. QED  BY <1>1, <2>1, <2>5, <2>6 DEF LayersInv
<1>4. CASE NextProcess
  <2>1. PICK words \in LaterWords : world' = [world EXCEPT !.words = words]
    BY <1>4 DEF NextProcess
  <2>2. pc' = "start" /\ argv' = <<>> /\ read' = Empty /\ UNCHANGED <<files, saved>>
    BY <1>4 DEF NextProcess
  <2>3. AreWords(words)
    BY SessionAssumption
  <2>4. WellFormed(world)' /\ world'.root = world.root
    <3>1. /\ DOMAIN world' = DOMAIN world
          /\ \A field \in DOMAIN world : field # "words" => world'[field] = world[field]
          /\ "words" \in DOMAIN world => world'["words"] = words
      BY <2>1
    <3>. QED  BY <3>1, <2>3, <1>1 DEF WellFormed
  <2>5. pc' \notin Reading /\ pc' # "hosts" /\ pc' \notin {"hosts"} \cup Accepting
    BY <2>2 DEF Reading, Accepting, Begun, Looping, Running
  <2>6. Layers'
    BY <2>2, <2>5, Nothing DEF Layers
  <2>7. Stored'
    BY <1>1, <2>2, <2>4, <2>5 DEF Stored
  <2>. QED  BY <2>4, <2>6, <2>7 DEF LayersInv
<1>5. CASE \/ Preflight \/ ResolveAll \/ ResolveNext \/ FindLocal \/ Spawn \/ Check \/ Begin
           \/ Finished \/ Interrupted \/ RunFails \/ PrintDocuments
  <2>1. UNCHANGED <<world, files, argv, read, saved>>
    BY <1>5 DEF Preflight, ResolveAll, ResolveNext, FindLocal, Spawn, Check, Begin, Finished,
                Interrupted, RunFails, PrintDocuments, LoopStep
  <2>2. pc \in Accepting
    BY <1>5 DEF Preflight, ResolveAll, ResolveNext, FindLocal, Spawn, Check, Begin, Finished,
                Interrupted, RunFails, PrintDocuments, Accepting, Begun, Looping, Running
  <2>3. pc' \in Accepting \cup {"exit"}
    <3>1. (\E place \in Accepting : Proceed(place) \/ Goto(place)) => pc' \in Accepting
      BY DEF Proceed, Goto
    <3>2. TargetFails => pc' \in {"targets", "exit"}
      BY DEF TargetFails, Exit
    <3>3. {"targets", "local", "spawn", "check", "running", "print", "resolve all"}
             \subseteq Accepting
      BY DEF Accepting, Begun, Looping, Running
    <3>4. CASE Preflight
      <4>1. Goto("targets") \/ Goto("resolve all")
        BY <3>4 DEF Preflight
      <4>. QED  BY <4>1, <3>1, <3>3
    <3>5. CASE ResolveAll
      <4>1. Goto("targets") \/ Goto("resolve all") \/ Exit(1)
        BY <3>5 DEF ResolveAll
      <4>. QED  BY <4>1, <3>1, <3>3 DEF Exit
    <3>6. CASE ResolveNext
      <4>1. TargetFails \/ Proceed("local")
        BY <3>6 DEF ResolveNext
      <4>. QED  BY <4>1, <3>1, <3>2, <3>3
    <3>7. CASE FindLocal
      <4>1. TargetFails \/ Proceed("spawn")
        BY <3>7 DEF FindLocal
      <4>. QED  BY <4>1, <3>1, <3>2, <3>3
    <3>8. CASE Spawn
      <4>1. TargetFails \/ Proceed("check")
        BY <3>8 DEF Spawn
      <4>. QED  BY <4>1, <3>1, <3>2, <3>3
    <3>9. CASE Check
      <4>1. TargetFails \/ Proceed("check")
        BY <3>9 DEF Check
      <4>. QED  BY <4>1, <3>1, <3>2, <3>3
    <3>10. CASE Begin
      <4>1. TargetFails \/ Proceed("running")
        BY <3>10 DEF Begin
      <4>. QED  BY <4>1, <3>1, <3>2, <3>3
    <3>11. CASE Finished \/ Interrupted \/ RunFails \/ PrintDocuments
      <4>1. pc' \in {"targets", "print", "exit"}
        BY <3>2, <3>11 DEF Finished, Interrupted, RunFails, PrintDocuments, Goto, Exit
      <4>. QED  BY <4>1, <3>3
    <3>. QED  BY <1>5, <3>4, <3>5, <3>6, <3>7, <3>8, <3>9, <3>10, <3>11
  <2>. QED  BY <2>1, <2>2, <2>3, LayersMove
<1>. QED  BY <1>2, <1>3, <1>4, <1>5, LayersRead, LayersSave DEF Next

\* Standing still changes no layer.
LEMMA LayersStutter == LayersInv /\ UNCHANGED vars => LayersInv'
BY DEF vars, loopVars, LayersInv, Layers, Stored, Args, ConfigPath

\* All of it holds in every state.
LEMMA LayersAlways == Spec => []LayersInv
<1>1. LayersInv /\ [Next]_vars => LayersInv'
  BY LayersStep, LayersStutter
<1>. QED  BY <1>1, LayersInit, PTL DEF Spec

\* Whatever the words and the file ask for, a run gives the engine a configuration it can work
\* with: the TTLs, the counts and their order are what module Engine assumes.
THEOREM ConfigurationFits == Spec => []EngineGetsValid
<1>1. LayersInv => EngineGetsValid
  <2>1. SUFFICES ASSUME LayersInv, pc = "running" PROVE FitForEngine(EngineConfig(Args, argv))
    BY DEF EngineGetsValid
  <2>2. pc \in Accepting
    BY <2>1 DEF Accepting, Begun, Looping, Running
  <2>3. AreWords(argv) /\ IsFile(read) /\ Accepted(Args, world.root)
    BY <2>1, <2>2 DEF LayersInv, Layers
  <2>4. ArgsTyped(Args)
    BY <2>3, ArgsType DEF Args
  <2>. QED  BY <2>3, <2>4, AcceptedFits
<1>. QED  BY <1>1, LayersAlways, PTL

\* Where the options have been read, the settings are those of the layers.
LEMMA ReadRanked ==
    ASSUME LayersInv, pc = "hosts", NEW key \in FileKeys, key = "color" => ~ColorTwice
    PROVE  Settings(Args)[key] = Ranked(world.words, world.env, read, key)
<1>1. /\ AreWords(argv) /\ AreWords(world.env) /\ AreWords(world.words) /\ IsFile(read)
      /\ argv = world.env \o world.words /\ ValidFile(read)
  BY DEF LayersInv, Layers, Reading, BuildArgv
<1>2. key = "color" => ~({"color", "no_color"} \subseteq Given(world.env \o world.words))
  BY <1>1 DEF ColorTwice
<1>3. AreWords(world.env \o world.words)
  BY <1>1
<1>4. Settings(Apply(ParseArgv(world.env \o world.words), Given(world.env \o world.words), read))
         [key] = Ranked(world.words, world.env, read, key)
  BY <1>1, <1>2, <1>3, AllRanked
<1>. QED  BY <1>1, <1>4 DEF Args

\* Every setting comes from the highest layer that says something about it: the command line,
\* then the environment, then the file, then the built-in default.
THEOREM LayersKeepOrder == Spec => []LayersInOrder
<1>1. LayersInv => LayersInOrder
  <2>1. SUFFICES ASSUME LayersInv, pc = "hosts",
                        NEW key \in FileKeys \ (IF ColorTwice THEN {"color"} ELSE {})
                 PROVE  Settings(Args)[key] = ByRank(key)
    BY DEF LayersInOrder, OptionsRead
  <2>2. Settings(Args)[key] = Ranked(world.words, world.env, read, key)
    BY <2>1, ReadRanked
  <2>. QED  BY <2>2 DEF ByRank, Ranked
<1>. QED  BY <1>1, LayersAlways, PTL

-----------------------------------------------------------------------------
(* What has been saved *)

\* The file that is saved is valid when the settings are.
LEMMA SavedValid ==
    ASSUME NEW settings, DOMAIN settings = FileKeys, ValidFile(settings)
    PROVE  ValidFile(Saved(settings))
<1>1. /\ DOMAIN Saved(settings) \subseteq FileKeys
      /\ \A k \in DOMAIN Saved(settings) : Saved(settings)[k] = settings[k]
  BY DEF Saved
<1>. QED  BY <1>1 DEF ValidFile

\* Options that would be accepted without a file are accepted with a valid one that leaves the
\* interval to root, unless the user has a say on the other two TTLs.
LEMMA AcceptedStill ==
    ASSUME NEW words, AreWords(words), NEW file, IsFile(file), ValidFile(file), NEW root,
           "interval" \in DOMAIN file => root \/ file["interval"] >= 10,
           Given(words) \cap {"first_ttl", "due_ttl"} = {},
           Accepted(ParseArgv(words), root)
    PROVE  Accepted(Apply(ParseArgv(words), Given(words), file), root)
<1> DEFINE before == ParseArgv(words)
           after  == Apply(before, Given(words), file)
<1>1. DOMAIN before = DOMAIN DefaultArgs
  BY DEF ParseArgv
<1>2. before.first_ttl = 1 /\ before.due_ttl = None
  <2>1. \A id \in {"first_ttl", "due_ttl"} : id \in DOMAIN DefaultArgs /\ id \notin Given(words)
    BY Defaults
  <2>. QED  BY <2>1, Defaults DEF ParseArgv
<1>3. ArgsTyped(after)
  BY ArgsType
<1>. HIDE DEF before
<1>4. /\ DOMAIN after = DOMAIN before
      /\ \A key \in FileKeys : ArgOf(key) \in DOMAIN before =>
            after[ArgOf(key)] = IF key \in DOMAIN file /\ FlagOf(key) \notin Given(words)
                                THEN ArgValue(key, file[key]) ELSE before[ArgOf(key)]
      /\ \A id \in DOMAIN before : (\A key \in FileKeys : ArgOf(key) # id) =>
            after[id] = before[id]
  BY Applied
<1>. HIDE DEF after
<1>5. \A id \in {"first_ttl", "due_ttl", "report_cycles", "ipinfo", "address", "psize",
                 "bitpattern", "tos", "cache", "mark", "port", "localport", "udp", "tcp",
                 "sctp", "inet4", "inet6"} : after[id] = before[id]
  <2>1. \A id \in {"first_ttl", "due_ttl", "report_cycles", "ipinfo", "address", "psize",
                   "bitpattern", "tos", "cache", "mark", "port", "localport", "udp", "tcp",
                   "sctp", "inet4", "inet6"} :
           id \in DOMAIN before /\ \A key \in FileKeys : ArgOf(key) # id
    BY <1>1, FileKeysAre, ArgOfIs, Defaults
  <2>. QED  BY <2>1, <1>4
<1>6. \A key \in {"interval", "gracetime", "timeout", "max_unknown"} :
         after[key] = before[key] \/ (key \in DOMAIN file /\ after[key] = file[key])
  <2>1. \A key \in {"interval", "gracetime", "timeout", "max_unknown"} :
           /\ key \in FileKeys /\ ArgOf(key) = key /\ key \in DOMAIN before
           /\ ArgValue(key, file[key]) = file[key]
    BY <1>1, FileKeysAre, ArgOfIs, Defaults DEF ArgValue
  <2>. QED  BY <2>1, <1>4
<1>7. \/ after["order"] = before["order"]
      \/ "fields" \in DOMAIN file /\ after["order"] = file["fields"]
  <2>1. /\ "fields" \in FileKeys /\ ArgOf("fields") = "order" /\ "order" \in DOMAIN before
        /\ ArgValue("fields", file["fields"]) = file["fields"]
    BY <1>1, FileKeysAre, ArgOfIs, Defaults DEF ArgValue
  <2>. QED  BY <2>1, <1>4
<1>8. ExclusiveFlags(before) /\ ValidNumbers(before) /\ ValidTimes(before, root)
      /\ ValidPorts(before) /\ ValidText(before)
  BY DEF Accepted, before
<1>9. ExclusiveFlags(after)
  BY <1>5, <1>8 DEF ExclusiveFlags
<1>10. ValidNumbers(after)
  <2>1. InRange(after.timeout, 1, IntMax) /\ InRange(after.max_unknown, 1, IntMax)
    BY <1>6, <1>8 DEF ValidNumbers, ValidFile
  <2>2. /\ after.psize = before.psize /\ after.bitpattern = before.bitpattern
        /\ after.tos = before.tos /\ after.cache = before.cache
        /\ after.report_cycles = before.report_cycles /\ after.mark = before.mark
    BY <1>5
  <2>. QED  BY <2>1, <2>2, <1>8, Zenon DEF ValidNumbers
<1>11. ValidTimes(after, root)
  BY <1>6, <1>8 DEF ValidTimes, ValidFile
<1>12. Ttls(after).ok
  <2>1. after.first_ttl = 1 /\ after.due_ttl = None /\ after.max_ttl \in Int
    BY <1>2, <1>3, <1>5 DEF ArgsTyped
  <2> DEFINE first == IF after.first_ttl < 1 THEN 1 ELSE after.first_ttl
             max   == Clamp(after.max_ttl, 1, 255)
             due   == IF after.due_ttl = None THEN 0
                      ELSE IF after.due_ttl > 255 THEN 255 ELSE after.due_ttl
  <2>2. Ttls(after).ok <=> (/\ after.due_ttl # None => after.due_ttl > 0
                            /\ first <= max
                            /\ due > 0 => first <= due
                            /\ due <= max)
    BY Zenon DEF Ttls
  <2>3. first = 1 /\ due = 0 /\ max \in 1..255
    BY <2>1 DEF Clamp
  <2>. HIDE DEF first, max, due
  <2>. QED  BY <2>1, <2>2, <2>3
<1>13. ValidPorts(after)
  <2>1. /\ after.port = before.port /\ after.localport = before.localport
        /\ Protocol(after) = Protocol(before)
    BY <1>5 DEF Protocol
  <2>. QED  BY <2>1, <1>8 DEF ValidPorts
<1>14. ValidText(after)
  BY <1>5, <1>7, <1>8 DEF ValidText, ValidFile
<1>. QED  BY <1>9, <1>10, <1>11, <1>12, <1>13, <1>14, Zenon DEF Accepted, after, before

\* What --init-config has saved loads again, gives a later process of the same user the very
\* settings it was saved from where the words of that process are silent, and never makes one
\* refuse that would have run without it.
THEOREM SavedComesBack == Spec => []SavedReproduces
<1>1. LayersInv => SavedReproduces
  <2>. SUFFICES ASSUME LayersInv, saved # None PROVE SavedReproduces
    BY DEF SavedReproduces
  <2> DEFINE all == saved.settings
  <2>1. /\ DOMAIN all = FileKeys /\ files[saved.path] = Toml(Saved(all))
        /\ CanSave(all, world.root) /\ saved.path \in DOMAIN files \ {None}
        /\ DOMAIN files = {"default", "named"}
    BY DEF LayersInv, Stored
  <2>2. files[saved.path].kind = "toml" /\ files[saved.path].keys = Saved(all)
        /\ files[saved.path] # Absent
    BY <2>1, TomlIs
  <2>3. ValidFile(Saved(all))
    BY <2>1, SavedValid DEF CanSave
  <2>4. ASSUME OptionsRead, ConfigPath = saved.path, ~world.guard
        PROVE  /\ \A key \in FileKeys :
                     FlagsOf(key) \cap Given(argv) = {} => Settings(Args)[key] = all[key]
               /\ Given(argv) \cap {"first_ttl", "due_ttl"} = {} =>
                     (Accepted(ParseArgv(argv), world.root) => Accepted(Args, world.root))
    <3>1. pc = "hosts" /\ ConfigPath \in {"default", "named", None}
      BY <2>4 DEF OptionsRead, ConfigPath
    <3>2. ConfigPath # None
      BY <2>1, <2>4
    <3>3. read = Saved(all)
      <4>1. files[saved.path] = Toml(read)
        BY <2>2, <2>4, <3>1, <3>2 DEF LayersInv, Stored
      <4>. QED  BY <4>1, <2>1, TomlIs
    <3>4. /\ DOMAIN read = {key \in FileKeys : all[key] # BuiltIn[key]}
          /\ \A key \in DOMAIN read : read[key] = all[key]
      BY <3>3 DEF Saved
    <3>5. AreWords(argv) /\ IsFile(read) /\ ValidFile(read)
          /\ argv = world.env \o world.words /\ AreWords(world.env) /\ AreWords(world.words)
      BY <3>1 DEF LayersInv, Layers, Reading, BuildArgv
    <3>6. ASSUME NEW key \in FileKeys, FlagsOf(key) \cap Given(argv) = {}
          PROVE  Settings(Args)[key] = all[key]
      <4>1. key = "color" => ~ColorTwice
        BY <3>6 DEF ColorTwice, FlagsOf
      <4>2. Settings(Args)[key] = Ranked(world.words, world.env, read, key)
        BY <3>1, <4>1, ReadRanked
      <4>3. ~Says(world.words, key) /\ ~Says(world.env, key)
        <5>1. IsList(world.env) /\ IsList(world.words)
          BY <3>5, WordsList
        <5>2. ~Mentions(argv, FlagsOf(key))
          BY <3>6 DEF Mentions, Given
        <5>3. ~Mentions(world.env, FlagsOf(key)) /\ ~Mentions(world.words, FlagsOf(key))
          BY <3>5, <5>1, <5>2, LastOfBoth
        <5>. QED  BY <5>3 DEF Says, Mentions
      <4>. QED  BY <3>4, <4>2, <4>3 DEF Ranked
    <3>7. ASSUME Given(argv) \cap {"first_ttl", "due_ttl"} = {},
                 Accepted(ParseArgv(argv), world.root)
          PROVE  Accepted(Args, world.root)
      <4>1. "interval" \in DOMAIN read => world.root \/ read["interval"] >= 10
        BY <2>1, <3>4 DEF CanSave
      <4>. QED  BY <3>5, <3>7, <4>1, AcceptedStill DEF Args
    <3>. QED  BY <3>6, <3>7
  <2>. QED  BY <2>2, <2>3, <2>4 DEF SavedReproduces
<1>. QED  BY <1>1, LayersAlways, PTL
=============================================================================
