---------------------------- MODULE ServiceRegistry ----------------------------
(***************************************************************************)
(* What KubeBackend promises about service names.  A free name is claimed  *)
(* by one request at a time; only the claimant publishes the service or    *)
(* releases the name; a published service is retired by exactly one        *)
(* request, which then holds the claim.  A claimant that stops half-way    *)
(* strands the name: nothing in OSCAR ever frees it again.                 *)
(***************************************************************************)
CONSTANTS Names, Reqs, None

VARIABLE reg

Free == [st |-> "free", by |-> None]
Claimed(r) == [st |-> "claimed", by |-> r]
Live(r) == [st |-> "live", by |-> r]
Stranded == [st |-> "stranded", by |-> None]

Init == reg = [n \in Names |-> Free]

Claim(n, r) == reg[n] = Free /\ reg' = [reg EXCEPT ![n] = Claimed(r)]

Publish(n, r) == reg[n] = Claimed(r) /\ reg' = [reg EXCEPT ![n] = Live(r)]

Release(n, r) == reg[n] = Claimed(r) /\ reg' = [reg EXCEPT ![n] = Free]

Retire(n, r) ==
    /\ \E q \in Reqs : reg[n] = Live(q)
    /\ reg' = [reg EXCEPT ![n] = Claimed(r)]

\* A claimant fails to release its name, or the process stops under all of them.
Strand ==
    \E S \in SUBSET {n \in Names : \E r \in Reqs : reg[n] = Claimed(r)} :
        reg' = [n \in Names |-> IF n \in S THEN Stranded ELSE reg[n]]

Next ==
    \/ \E n \in Names, r \in Reqs :
          Claim(n, r) \/ Publish(n, r) \/ Release(n, r) \/ Retire(n, r)
    \/ Strand

Spec == Init /\ [][Next]_reg

=============================================================================
