---------------------------- MODULE MCCertEstate ----------------------------
(***************************************************************************)
(* Instance of CertEstate for TLC.                                         *)
(***************************************************************************)
EXTENDS CertEstate, TLC

CONSTANTS a, b, g, h, z, svc, prod, staging, dns, j1, j2, k1, k2, A, B, d1, d2

Symmetry == Permutations(Job) \cup Permutations(Conn)

MCzoneOf == [n \in Name |-> IF n \in {a, b} THEN z ELSE None]
MCproviderOf == [x \in Zone |-> dns]
MCowner == [n \in Name |-> svc]

Ladder == <<1>>

NoCerts == [c \in {} |-> Fresh]

With(parties, faults) == parties \cup faults

AllFaults == {"failed", "limited", "unusable"}

MCSetting ==
    { \* nobody: the half that stands still
      [registered |-> {}, dynamic |-> {}, routes |-> {}, lives |-> NoCerts,
       actors |-> {}, changes |-> 0],
      \* two new tenants of one zone: the CA refuses, or limits
      [registered |-> {}, dynamic |-> {a, b}, routes |-> {a, b}, lives |-> NoCerts,
       actors |-> With({"issuer"}, {"failed"}), changes |-> 0],
      [registered |-> {}, dynamic |-> {a, b}, routes |-> {a, b}, lives |-> NoCerts,
       actors |-> With({"issuer"}, {"limited"}), changes |-> 0],
      \* a tenant of its own zone, whose DNS and source change
      [registered |-> {}, dynamic |-> {h}, routes |-> {h}, lives |-> NoCerts,
       actors |-> With({"issuer", "prober", "operator"}, AllFaults), changes |-> 2],
      \* an expiring tenant certificate, renewed while the issuer works
      [registered |-> {}, dynamic |-> {g, h}, routes |-> {g, h}, lives |-> ({h} :> TenantWindow),
       actors |-> With({"issuer", "renewer"}, {}), changes |-> 1],
      [registered |-> {}, dynamic |-> {g, h}, routes |-> {g, h}, lives |-> ({h} :> TenantWindow),
       actors |-> With({"issuer", "renewer"}, {"failed"}), changes |-> 0],
      \* two tenant certificates of one zone, to be replaced by its wildcard
      [registered |-> {}, dynamic |-> {a, b}, routes |-> {a, b},
       lives |-> ({a} :> RegisteredWindow @@ {b} :> Fresh - 1),
       actors |-> With({"renewer"}, AllFaults), changes |-> 1],
      \* a certificate of a registered host and a tenant, under deploys
      [registered |-> {h}, dynamic |-> {g}, routes |-> {g, h}, lives |-> ({g, h} :> TenantWindow),
       actors |-> With({"issuer", "renewer", "clients", "deploys"}, {}), changes |-> 1],
      \* handshakes for two new hosts
      [registered |-> {g, h}, dynamic |-> {}, routes |-> {g, h}, lives |-> NoCerts,
       actors |-> With({"clients", "prober"}, AllFaults), changes |-> 0],
      [registered |-> {a, b}, dynamic |-> {}, routes |-> {}, lives |-> NoCerts,
       actors |-> With({"clients", "deploys"}, {"failed"}), changes |-> 1] }

\* The store: a certificate of one domain and one of two.  The CA issues odd
\* expiries, imports bring even ones.
MCnames == [i \in Id |-> IF i = A THEN {d1} ELSE {d1, d2}]
MCOrdered == <<3>>
MCLegacy == {{}, {[id |-> A, cert |-> 2]}, {[id |-> B, cert |-> 0]}}
MCTraefik == <<[id |-> B, cert |-> 4]>>

\* Wider instances, for the properties no run checks: tenants in and out of
\* the zone, one that is yet to be pointed here, orders around the imports, and
\* a legacy cache with an entry that cannot be read.
Nobody ==
    [registered |-> {}, dynamic |-> {}, routes |-> {}, lives |-> NoCerts, actors |-> {},
     changes |-> 0]
MCMixed ==
    { Nobody,
      [Nobody EXCEPT !.dynamic = {a, h}, !.routes = {a, h}, !.actors = {"issuer", "failed"}],
      [Nobody EXCEPT !.dynamic = {a}, !.actors = {"issuer"}] }
MCOrders == <<1, 5>>
MCUnreadable == {{[id |-> A, cert |-> 2], [id |-> B, cert |-> 0]}}
=============================================================================
