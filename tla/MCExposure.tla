------------------------------- MODULE MCExposure -------------------------------
(* Instances of Exposure for TLC. *)
EXTENDS Exposure, TLC

Setting(e, n, a) == [exposed |-> e, nodePort |-> n, auth |-> a, min |-> 1]

\* Not exposed; by node port; by a route with and without authentication.
SomeDefs == {Setting(FALSE, FALSE, FALSE), Setting(TRUE, TRUE, FALSE),
             Setting(TRUE, FALSE, TRUE), Setting(TRUE, FALSE, FALSE)}

Config(r, g, k) == [route |-> r, gateway |-> g, kueue |-> k, user |-> TRUE]

\* Both route kinds with and without Kueue, and HTTPRoutes without a gateway.
SomeConfigs == {Config("ingress", TRUE, FALSE), Config("httproute", TRUE, FALSE),
                Config("httproute", FALSE, FALSE),
                Config("ingress", TRUE, TRUE)}
Symmetry == Permutations(Reqs)
=============================================================================
