------------------------------ MODULE Workload ------------------------------
(***************************************************************************)
(* Deployments as Clowder judges them: the readiness check of status.go,   *)
(* the update filter of filters.go, and the Kubernetes Deployment          *)
(* controller that moves them.  A Deployment asks for one replica; pod is  *)
(* the progress of the pod of the current template (0 none, 1 created,     *)
(* 2 ready, 3 available) and old counts the pods of the previous template. *)
(***************************************************************************)
EXTENDS Naturals

Replicas == 1

NoBuild == [own |-> 0, env |-> 0]
NoDeployment == [there |-> FALSE, gen |-> 0, obs |-> 0, pod |-> 0, old |-> 0, of |-> NoBuild]

Build == [own : Nat, env : Nat]
Deployment == [there : BOOLEAN, gen : Nat, obs : Nat, pod : 0..3, old : 0..1, of : Build]

UpdatedReplicas(d) == IF d.pod >= 1 THEN 1 ELSE 0
ReadyReplicas(d) == d.old + (IF d.pod >= 2 THEN 1 ELSE 0)
AvailableReplicas(d) == d.old + (IF d.pod = 3 THEN 1 ELSE 0)

\* Mutant: the observed generation has to be beyond the current one.
deploymentStatusChecker_Strict(d) ==
    /\ d.gen < d.obs
    /\ AvailableReplicas(d) = Replicas
    /\ UpdatedReplicas(d) = Replicas

\* With one replica the Available condition is true as soon as a pod is available.
deploymentStatusChecker(d) ==
    /\ d.gen <= d.obs
    /\ AvailableReplicas(d) = Replicas
    /\ UpdatedReplicas(d) = Replicas

\* What countDeployments finds: <<managed, ready>>.
countDeployments(d) ==
    <<IF d.there THEN 1 ELSE 0, IF d.there /\ deploymentStatusChecker(d) THEN 1 ELSE 0>>

ResourcesReady(d) == countDeployments(d)[1] = countDeployments(d)[2]

\* Which updates of a Deployment wake its owner; every creation does.
deploymentUpdateFunc(o, n) ==
    \/ n.gen # o.gen
    \/ /\ AvailableReplicas(o) # AvailableReplicas(n)
       /\ AvailableReplicas(n) = ReadyReplicas(n)
    \/ /\ AvailableReplicas(o) = ReadyReplicas(o)
       /\ AvailableReplicas(n) # ReadyReplicas(n)

DeploymentWakes(o, n) == ~o.there \/ ~n.there \/ deploymentUpdateFunc(o, n)

\* The Deployment after the resource cache applied a template built from b.
Applied(d, b) ==
    IF ~d.there THEN [NoDeployment EXCEPT !.there = TRUE, !.gen = 1, !.of = b]
    ELSE IF d.of = b THEN d
    ELSE [d EXCEPT !.gen = @ + 1, !.of = b]

\* What the Deployment controller may do next: observe a new generation, which
\* replaces the pods only if the pod template changed, or advance the rollout.
RollSteps(d) ==
    IF ~d.there THEN {}
    ELSE IF d.obs < d.gen
         THEN {[d EXCEPT !.obs = d.gen],
               [d EXCEPT !.obs = d.gen, !.pod = 0, !.old = IF d.pod = 3 THEN 1 ELSE @]}
    ELSE IF d.pod < 3 THEN {[d EXCEPT !.pod = @ + 1]}
    ELSE IF d.old = 1 THEN {[d EXCEPT !.old = 0]}
    ELSE {}

=============================================================================
