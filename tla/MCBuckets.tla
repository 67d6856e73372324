-------------------------------- MODULE MCBuckets --------------------------------
(* Instances of Buckets for TLC. *)
EXTENDS Buckets

CONSTANTS u1, u2, nobody, b1, b2, p1

\* p1 is bucket b1 with a folder behind it.
FirstPart == [n \in {b1, b2, p1} |-> IF n = p1 THEN b1 ELSE n]
Same12 == [n \in {b1, b2} |-> n]

Ask(v, us) == [vis |-> v, allowed |-> us]
SomeAsks == {Ask("private", <<>>), Ask("public", <<>>), Ask("restricted", <<u2>>),
             Ask("restricted", <<>>), Ask("restricted", <<nobody>>)}

Def(i, o, m, v, us, iso) ==
    [in |-> i, out |-> o, mount |-> m, vis |-> v, allowed |-> us, isolated |-> iso]

\* Input and output; an input whose users are isolated and another bucket mounted.
SomeServices == {Def(b1, b2, None, "private", <<>>, FALSE),
                 Def(b2, None, b1, "restricted", <<u2>>, TRUE)}

\* A private bucket and a public service whose users are isolated.
PrivateAsk == {Ask("private", <<>>)}
IsolatedService == {Def(b1, None, None, "public", <<u2>>, TRUE)}
=============================================================================
