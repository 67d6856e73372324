------------------------------ MODULE MCDelegation ------------------------------
EXTENDS Delegation, TLC

\* Two replicas in clusters that have room, of a service in the shared namespace.
TwoClusters(mode, priorities) ==
    [delegation |-> mode, kind |-> <<"oscar", "oscar">>, defined |-> {1, 2}, roomy |-> {1, 2},
     priority |-> priorities, numeric |-> TRUE, shared |-> TRUE]

Static == TwoClusters("static", <<5, 0>>)
OneUsable == TwoClusters("static", <<0, 150>>)
Random == [TwoClusters("random", <<0, 0>>) EXCEPT !.roomy = {1}]
LoadBased == TwoClusters("load-based", <<0, 150>>)
OneRoomy == [LoadBased EXCEPT !.roomy = {2}]
Topsis == TwoClusters("topsis", <<0, 0>>)
WithEndpoint == [TwoClusters("static", <<0, 0>>) EXCEPT !.kind = <<"oscar", "endpoint">>, !.defined = {}]

\* A CPU of "500m", an endpoint, and a namespace of the service's own.
Millicores == [TwoClusters("load-based", <<0, 100>>) EXCEPT
                 !.kind = <<"oscar", "endpoint">>, !.numeric = FALSE, !.shared = FALSE]

ServicesAll == {Static, Random, LoadBased, Topsis, Millicores}
ServicesProgress == {OneUsable, OneRoomy, WithEndpoint, Millicores}

=============================================================================
