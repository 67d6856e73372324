------------------------------ MODULE KubeBackend ------------------------------
(***************************************************************************)
(* KubeBackend: a service is a ConfigMap (its definition) and a            *)
(* PodTemplate (wl).  CreateService makes the ConfigMap first and the      *)
(* PodTemplate last; DeleteService removes them in the opposite order.     *)
(***************************************************************************)
EXTENDS ServiceStore

(* CreateService *)

\* ToPodSpec and PodTemplates.Create.
CreatePodTemplate(r) ==
    /\ pc[r] = "createWL"
    /\ \/ /\ D(r).podSpec /\ wl[N(r)] = None
          /\ wl' = [wl EXCEPT ![N(r)] = NewObject(r, D(r))]
          /\ Goto(r, "exposeNew")
          /\ UNCHANGED <<err, budget>>
       \/ /\ D(r).podSpec /\ wl[N(r)] # None
          /\ Fails(r, "exists") /\ Goto(r, "rollbackCM")
          /\ UNCHANGED <<wl, budget>>
       \/ /\ ~D(r).podSpec
          /\ Fails(r, "other") /\ Goto(r, "rollbackCM")
          /\ UNCHANGED <<wl, budget>>
       \/ /\ Fault
          /\ Fails(r, "other") /\ Goto(r, "rollbackCM")
          /\ UNCHANGED wl
    /\ UNCHANGED <<cm, pvc, secret, jobs, expose, call, prior, snap, undo, resp>>

\* CreateExpose: an error is returned with no rollback.
ExposeService(r) ==
    /\ pc[r] = "exposeNew"
    /\ \/ /\ D(r).exposed => ~expose[N(r)]
          /\ expose' = [expose EXCEPT ![N(r)] = @ \/ D(r).exposed]
          /\ Goto(r, "prefetch")
          /\ UNCHANGED <<err, budget>>
       \/ /\ D(r).exposed /\ expose[N(r)]
          /\ Fails(r, "other") /\ Goto(r, "createFailed")
          /\ UNCHANGED <<expose, budget>>
       \/ /\ D(r).exposed /\ Fault
          /\ \E b \in {expose[N(r)], TRUE} : expose' = [expose EXCEPT ![N(r)] = b]
          /\ Fails(r, "other") /\ Goto(r, "createFailed")
    /\ UNCHANGED <<cm, wl, pvc, secret, jobs, call, prior, snap, undo, resp>>

(* ReadService *)

ReadPodTemplate(r) ==
    /\ pc[r] = "readWL"
    /\ \/ /\ wl[N(r)] # None
          /\ Goto(r, "readCM")
          /\ UNCHANGED <<resp, budget>>
       \/ /\ wl[N(r)] = None
          /\ Answer(r, "error")
          /\ UNCHANGED budget
       \/ /\ Fault
          /\ Answer(r, "error")
    /\ UNCHANGED <<objects, call, err, prior, snap, undo>>

(* UpdateService *)

\* ToPodSpec and PodTemplates.Update, which carries no resourceVersion.
UpdatePodTemplate(r) ==
    /\ pc[r] = "uWL"
    /\ \/ /\ Applied(r).podSpec /\ wl[N(r)] # None
          /\ wl' = [wl EXCEPT ![N(r)] = Updated(@, Applied(r))]
          /\ Goto(r, "uExpose")
          /\ UNCHANGED budget
       \/ /\ ~Applied(r).podSpec \/ wl[N(r)] = None
          /\ Goto(r, "uRestore")
          /\ UNCHANGED <<wl, budget>>
       \/ /\ Fault
          /\ Goto(r, "uRestore")
          /\ UNCHANGED wl
    /\ UNCHANGED <<cm, pvc, secret, jobs, expose, call, err, prior, snap, undo, resp>>

(* DeleteService *)

\* Mutant: "not found" is no error, and the rest is deleted too.
DeletePodTemplate_NotFoundIsOk(r) ==
    /\ pc[r] = "delWL"
    /\ wl' = [wl EXCEPT ![N(r)] = None]
    /\ Goto(r, "delCM")
    /\ UNCHANGED <<cm, pvc, secret, jobs, expose, call, err, prior, snap, undo, resp, budget>>

\* Mutant: the error is logged, like those of the calls that follow.
DeletePodTemplate_ErrorLogged(r) ==
    /\ pc[r] = "delWL"
    /\ Goto(r, "delCM")
    /\ \/ wl' = [wl EXCEPT ![N(r)] = None] /\ UNCHANGED budget
       \/ Fault /\ UNCHANGED wl
    /\ UNCHANGED <<cm, pvc, secret, jobs, expose, call, err, prior, snap, undo, resp>>

\* Any error of this first call, "not found" included, ends DeleteService.
DeletePodTemplate(r) ==
    /\ pc[r] = "delWL"
    /\ \/ /\ wl[N(r)] # None
          /\ wl' = [wl EXCEPT ![N(r)] = None]
          /\ Goto(r, "delCM")
          /\ UNCHANGED <<err, budget>>
       \/ /\ wl[N(r)] = None
          /\ Fails(r, "notfound") /\ Goto(r, "dEnd")
          /\ UNCHANGED <<wl, budget>>
       \/ /\ Fault
          /\ Fails(r, "other") /\ Goto(r, "dEnd")
          /\ UNCHANGED wl
    /\ UNCHANGED <<cm, pvc, secret, jobs, expose, call, prior, snap, undo, resp>>

-----------------------------------------------------------------------------
Step(r) ==
    \/ SharedStep(r)
    \/ EnsureServiceVolume(r, "createWL", "rollbackCM")
    \/ RollbackConfigMap(r, "rollbackCM", "rollbackVol")
    \/ CreatePodTemplate(r) \/ ExposeService(r)
    \/ ResolveServiceNamespace(r, "readWL") \/ ReadPodTemplate(r) \/ ReadServiceConfigMap(r)
    \/ AdmitUpdate(r, "uGet") \/ UpdatePodTemplate(r)
    \/ DeletePodTemplate(r)

Arrive(r) ==
    \/ StartCreate(r) \/ StartUpdate(r) \/ StartDelete(r, "readWL")
    \/ StartInvoke(r) \/ StartCreateVolume(r) \/ StartDeleteVolume(r)

Next == (\E r \in Reqs : Arrive(r) \/ Step(r) \/ ImagePulled(r)) \/ Crash \/ AllServed

Spec == Init /\ [][Next]_vars

\* Go runs every handler: a request in progress takes its next step.  No fairness for
\* ImagePulled, which waits for the pods of the image puller.
FairSpec == Spec /\ \A r \in Reqs : WF_vars(Step(r))

-----------------------------------------------------------------------------
(* Properties. *)

\* Request r is between the two objects of service n: it made the ConfigMap and
\* has not yet made the PodTemplate nor undone the ConfigMap, or it deleted the
\* PodTemplate and is about to delete the ConfigMap.
Creating(r, n) == pc[r] \in {"ensureVol", "createWL", "rollbackCM"} /\ N(r) = n
Holds(r, n) == Creating(r, n) \/ (pc[r] = "delCM" /\ N(r) = n)
Holders(n) == {r \in Reqs : Holds(r, n)}

\* A PodTemplate is never without its ConfigMap, whatever the interleaving, the
\* calls that fail (before they take effect) and the crashes: ReadService on a live
\* service finds a definition, made by the create that made the PodTemplate.
LiveServiceIsReadable ==
    \A n \in Names : wl[n] # None => cm[n] # None /\ cm[n].by = wl[n].by

\* No two requests at a time are between the ConfigMap and the PodTemplate of one
\* name, and the rollback of a failed CreateService deletes its own ConfigMap only.
RollbackIsOwn ==
    \A n \in Names :
        /\ \A r, q \in Holders(n) : r = q
        /\ \A r \in Reqs : Creating(r, n) => cm[n] # None /\ cm[n].by = r

\* Without a failed call or a crash no half service is left behind: when nothing
\* is in progress a name has a ConfigMap exactly when it has a PodTemplate.
NoHalfService ==
    (Quiescent /\ faults = 0 /\ crashes = 0) =>
        \A n \in Names : cm[n] # None <=> wl[n] # None

\* The inductive invariant behind the three: a holder has the ConfigMap to itself
\* and there is no PodTemplate, and a ConfigMap that is alone and that nobody
\* holds is the trace of a failed call or of a crash.
Ownership ==
    /\ \A n \in Names : wl[n] # None => cm[n] # None /\ cm[n].by = wl[n].by
    /\ \A n \in Names, r \in Reqs : Holds(r, n) => cm[n] # None /\ wl[n] = None
    /\ \A n \in Names, r \in Reqs : Creating(r, n) => cm[n].by = r
    /\ \A n \in Names, r, q \in Reqs : Holds(r, n) /\ Holds(q, n) => r = q
    /\ \A n \in Names :
          cm[n] # None /\ wl[n] = None /\ (\A r \in Reqs : ~Holds(r, n))
             => faults > 0 \/ crashes > 0

IInv == TypeOK /\ CallOK /\ Ownership

\* The state of name n in the registry that the two objects implement.
Registered(n) ==
    IF cm[n] = None THEN [st |-> "free", by |-> None]
    ELSE IF wl[n] # None THEN [st |-> "live", by |-> wl[n].by]
    ELSE IF Holders(n) # {} THEN [st |-> "claimed", by |-> CHOOSE r \in Holders(n) : TRUE]
    ELSE [st |-> "stranded", by |-> None]

Registry == INSTANCE ServiceRegistry WITH reg <- [n \in Names |-> Registered(n)]

\* The interleaved API calls of CreateService, UpdateService and DeleteService
\* implement the registry: one claimant per name, and nobody else publishes,
\* releases or retires under it.
ImplementsRegistry == Registry!Spec

=============================================================================
