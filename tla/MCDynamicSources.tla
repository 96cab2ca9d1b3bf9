-------------------------- MODULE MCDynamicSources --------------------------
(* Two sources, three entries, two revisions. *)
EXTENDS DynamicSources, TLC

CONSTANTS e1, e2, e3, s1, s2

MCListOf == (s1 :> <<{e1, e2, e3}, {e1}>>) @@ (s2 :> <<{e1, e2}, {e2, e3}>>)

Case(k, t, srcs, a, n) == [kind |-> k, tags |-> t, sources |-> srcs, actors |-> a, changes |-> n]

MCSettings ==
    { Case("domains", "own", {s1}, {"cuts", "faults"}, 4),
      Case("domains", "own", {s1}, {"cuts", "deploys", "crashes", "others"}, 2),
      Case("domains", "own", {s2}, {"publishes", "deploys", "cuts", "others"}, 4),
      Case("domains", "own", {s1}, {"publishes", "removals", "crashes"}, 4),
      Case("redirects", "shared", {s1, s2}, {"publishes", "deploys", "faults"}, 5),
      Case("redirects", "shared", {s1, s2}, {"publishes", "removals", "deploys", "others"}, 5),
      Case("redirects", "shared", {s1, s2}, {"deploys", "crashes", "others", "cuts"}, 4) }

\* A service whose domains move to a source that counts its revisions too.
MCSwitch == { Case("domains", "shared", {s1, s2}, {"deploys"}, 1) }

\* One revision that shrinks the list, and one short answer.
MCShort == { Case("domains", "own", {s1}, {"publishes", "cuts"}, 2) }

MCSymmetry == Permutations(Poller)
=============================================================================
