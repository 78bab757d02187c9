------------------------------- MODULE MCEngine -------------------------------
(***************************************************************************)
(* Instances of Engine for TLC: report modes on a path of up to three hops *)
(* and the TUI on a path of two, with few tokens so that they are reused.  *)
(***************************************************************************)
EXTENDS EngineLedger

Base == [ firstTtl |-> 1, maxTtl |-> 2, dueTtl |-> 0, maxUnknown |-> 1, maxPing |-> 2,
          interactive |-> FALSE, forceMaxPing |-> FALSE, cache |-> FALSE ]

\* Reports whose cycles end at the maximum TTL, at the target, after too many
\* unknown hops (the one with four TTLs), or past a due TTL; from TTL 1 or 2; with
\* --cache; and three cycles on one hop, so that the ring of two samples evicts.
ReportConfigs ==
    { Base,
      [Base EXCEPT !.maxTtl = 3, !.dueTtl = 2, !.maxPing = 1],
      [Base EXCEPT !.firstTtl = 2, !.maxTtl = 4, !.maxPing = 1],
      [Base EXCEPT !.maxTtl = 3, !.firstTtl = 2],
      [Base EXCEPT !.cache = TRUE],
      [Base EXCEPT !.maxTtl = 1, !.maxPing = 3] }

\* The TUI without -c, and with -c 1 so that the grace period is reached.
TuiConfigs ==
    { [Base EXCEPT !.interactive = TRUE],
      [Base EXCEPT !.interactive = TRUE, !.forceMaxPing = TRUE, !.maxPing = 1,
                   !.dueTtl = 2] }
=============================================================================
