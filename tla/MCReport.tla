------------------------------- MODULE MCReport -------------------------------
(***************************************************************************)
(* Instances of Report for TLC: one hop with many round-trip times, one     *)
(* with many responders, and a path of three hops whose TTLs change.        *)
(***************************************************************************)
EXTENDS Report

CONSTANTS a, b, t, e, name, as, l, m

MCAddrs  == {a, b, t}
MCNames  == (a :> name) @@ (b :> None) @@ (t :> None)
MCAsns   == (a :> <<as, l>>) @@ (b :> None) @@ (t :> <<as>>)

Base == [ firstTtl |-> 1, maxTtl |-> 1, dueTtl |-> 0, interactive |-> FALSE,
          fields |-> <<"L", "S", " ", "A", "_", "V">>, wide |-> FALSE, mpls |-> FALSE,
          ipinfo |-> <<>>, dns |-> TRUE, showIps |-> FALSE, maxDisplayPath |-> 2,
          sends |-> 5, froms |-> {a}, rtts |-> {3}, labels |-> {<<>>}, errs |-> {None} ]

\* Times far apart, equal and zero, in every order of five.
Numbers == [Base EXCEPT !.rtts = {0, 2, 3, 40}]

\* Three responders at two hops, one of them the target before its due TTL, with labels
\* that change; one more address than a hop remembers.
Responding ==
    [Base EXCEPT !.sends = 3, !.froms = {a, b, t}, !.labels = {<<>>, <<l>>, <<m>>},
                 !.mpls = TRUE, !.wide = TRUE, !.ipinfo = <<0, 1>>, !.showIps = TRUE]

\* The route ends at an error or the target, which moves; the user changes the TTLs.
Routes ==
    [Base EXCEPT !.maxTtl = 3, !.sends = 1, !.froms = {a, t}, !.errs = {None, e},
                 !.interactive = TRUE, !.ipinfo = <<1>>]

MCInstances ==
    { Numbers, Responding, [Responding EXCEPT !.dueTtl = 2, !.maxDisplayPath = 1],
      [Responding EXCEPT !.maxTtl = 2, !.dueTtl = 2, !.sends = 2, !.labels = {<<>>, <<l>>},
                         !.errs = {None, e}],
      Routes }
=============================================================================
