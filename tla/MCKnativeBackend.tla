---------------------------- MODULE MCKnativeBackend ----------------------------
EXTENDS KnativeBackend, TLC

CONSTANTS v1

Plain == [allowed |-> TRUE, podSpec |-> TRUE, volume |-> "none", vname |-> v1,
          policy |-> "", exposed |-> FALSE, secrets |-> FALSE,
          prefetch |-> FALSE, folders |-> TRUE]
Mounts == [Plain EXCEPT !.volume = "mount", !.prefetch = TRUE]
Makes == [Plain EXCEPT !.volume = "create"]
Keeps == [Makes EXCEPT !.policy = "retain", !.folders = FALSE]
BadSpec == [Makes EXCEPT !.podSpec = FALSE]
BadImage == [Makes EXCEPT !.allowed = FALSE]
Exposed == [Plain EXCEPT !.exposed = TRUE, !.secrets = TRUE]

Symmetry == Permutations(Reqs) \cup Permutations(Names)

DefsKnative == {Mounts, Makes, Keeps, BadSpec, BadImage, Exposed}

=============================================================================
