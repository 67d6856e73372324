------------------------------- MODULE MCTenancy -------------------------------
(* Instances of Tenancy for TLC. *)
EXTENDS Tenancy, TLC

CONSTANTS n1, n2

NoChange == [cpu |-> None, memory |-> None, disk |-> None, vols |-> None, max |-> None, min |-> None]

\* Limits of which the last is above the default maximum; memory, and a maximum that makes
\* room for that; processors and a size that is none.
SomeAsks == {[NoChange EXCEPT !.cpu = 1, !.disk = 3, !.vols = 1, !.min = 3],
             [NoChange EXCEPT !.memory = 3, !.max = 3],
             [NoChange EXCEPT !.cpu = 3, !.max = Bad]}

\* A volume that goes with its service; one that another service makes under that name and
\* that outlives it; a service in another namespace.
Plain(n) == [name |-> n, place |-> "own", vol |-> None, size |-> 0, retain |-> FALSE]
SomeBodies == {[Plain(n1) EXCEPT !.vol = n1, !.size = 2],
               [Plain(n2) EXCEPT !.vol = n1, !.size = 2, !.retain = TRUE],
               [Plain(n2) EXCEPT !.place = "other"]}

Config(k, v, y) == [kueue |-> k, volume |-> v, yunikorn |-> y]
StartIn(c, b, h) == [cfg |-> c, base |-> b, byHand |-> h]
SomeStarts == {StartIn(Config(TRUE, TRUE, TRUE), "bound", FALSE),
               StartIn(Config(TRUE, FALSE, FALSE), "pending", TRUE)}

\* Room for the shared volume and two others.
SomeDefaults == [disk |-> 4, vols |-> 3, max |-> 2, min |-> 1]
=============================================================================
