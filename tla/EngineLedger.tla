----------------------------- MODULE EngineLedger -----------------------------
(***************************************************************************)
(* The engine implements ProbeLedger: its token slots, wrapping token      *)
(* counter, pause, reset and late answers amount to a ledger of probes.    *)
(***************************************************************************)
EXTENDS Engine

\* The send numbers of a hop that a live token names.
OpenAt(h) == {seqs[t].saved : t \in LiveSlots(h)}

Ledger == INSTANCE ProbeLedger WITH
    Hops     <- HopIndex,
    sent     <- [h \in HopIndex |-> hops[h].xmit],
    open     <- [h \in HopIndex |-> OpenAt(h)],
    answered <- [h \in HopIndex |-> hops[h].returned]

\* Whatever order responses, token reuse, pauses and resets come in, an answer
\* is credited to the hop and the probe it was sent for, at most once.
ImplementsLedger == Ledger!Spec
=============================================================================
