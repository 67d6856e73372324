----------------------------- MODULE MCKubeBackend -----------------------------
EXTENDS KubeBackend, TLC

CONSTANTS v1

Plain == [allowed |-> TRUE, podSpec |-> TRUE, volume |-> "none", vname |-> v1,
          policy |-> "", exposed |-> FALSE, secrets |-> FALSE,
          prefetch |-> FALSE, folders |-> TRUE]
Prefetched == [Plain EXCEPT !.prefetch = TRUE]
NoFolder == [Plain EXCEPT !.folders = FALSE]
Mounts == [Plain EXCEPT !.volume = "mount"]
Makes == [Plain EXCEPT !.volume = "create"]
Keeps == [Makes EXCEPT !.policy = "retain"]
BadSpec == [Plain EXCEPT !.podSpec = FALSE]
BadImage == [Plain EXCEPT !.allowed = FALSE]
Exposed == [Plain EXCEPT !.exposed = TRUE]
Secretive == [Mounts EXCEPT !.secrets = TRUE]

Symmetry == Permutations(Reqs) \cup Permutations(Names)

DefsSequential == {Plain, Mounts, Makes, Keeps, BadSpec}
DefsRaces == {Makes, [Makes EXCEPT !.podSpec = FALSE]}
DefsAll == {Plain, Makes, BadSpec, BadImage, Exposed, Secretive, Prefetched, NoFolder}

=============================================================================
