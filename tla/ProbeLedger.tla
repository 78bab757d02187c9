----------------------------- MODULE ProbeLedger -----------------------------
(***************************************************************************)
(* What the engine promises about the probes of a path, without tokens,    *)
(* slots or history: per hop, how many probes were sent, which of them may *)
(* still be answered, and how many were.  A probe is answered at most once *)
(* and only while it is open; it is never opened again.                    *)
(***************************************************************************)
EXTENDS Integers, FiniteSets

CONSTANT Hops

VARIABLES
    sent,      \* [Hops -> Nat] probes sent, numbered from 1
    open,      \* [Hops -> SUBSET Nat] the send numbers that may be answered
    answered   \* [Hops -> Nat]

ledger == <<sent, open, answered>>

OpenProbes == {p \in Hops \X UNION {open[g] : g \in Hops} : p[2] \in open[p[1]]}

Init ==
    /\ sent = [h \in Hops |-> 0]
    /\ open = [h \in Hops |-> {}]
    /\ answered = [h \in Hops |-> 0]

\* A new probe; the token it takes may be one an older probe still used, and
\* that probe can then no longer be answered.
Send(h) ==
    \E forgotten \in {{}} \cup {{p} : p \in OpenProbes} :
        /\ sent' = [sent EXCEPT ![h] = @ + 1]
        /\ open' = [g \in Hops |->
                       {n \in open[g] : <<g, n>> \notin forgotten}
                       \cup {n \in {sent[h] + 1} : g = h}]
        /\ UNCHANGED answered

Answer(h, n) ==
    /\ n \in open[h]
    /\ open' = [open EXCEPT ![h] = @ \ {n}]
    /\ answered' = [answered EXCEPT ![h] = @ + 1]
    /\ UNCHANGED sent

\* The probe could not be sent: it is a drop.
Fail(h, n) ==
    /\ n \in open[h]
    /\ open' = [open EXCEPT ![h] = @ \ {n}]
    /\ UNCHANGED <<sent, answered>>

Restart ==
    /\ sent' = [h \in Hops |-> 0]
    /\ open' = [h \in Hops |-> {}]
    /\ answered' = [h \in Hops |-> 0]

Next ==
    \/ \E h \in Hops : Send(h)
    \/ \E h \in Hops : \E n \in open[h] : Answer(h, n) \/ Fail(h, n)
    \/ Restart

Spec == Init /\ [][Next]_ledger
=============================================================================
