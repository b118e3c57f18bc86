----------------------------- MODULE Admission -----------------------------
(***************************************************************************)
(* The webhooks: which ClowdApps are admitted, and what is put into a pod  *)
(* whose deployment asks for the authentication sidecar.                   *)
(***************************************************************************)
EXTENDS Dependencies, SupportProviders

validateDatabase(app) ==
    /\ app.db.name = "" \/ app.db.shared = ""
    /\ app.db.shared = "" \/ ~app.cyndi.enabled

\* only of deployments
validateInit(app) == \A d \in DeploymentsOf(app) : ~Unnamed(d.initContainers)

\* of jobs with a schedule, disabled or not
validateSidecars(app) ==
    /\ \A d \in DeploymentsOf(app) : KnownSidecars(d.sidecars)
    /\ \A job \in ToSet(app.jobs) : job.schedule # "" => KnownSidecars(job.sidecars)

validateDeploymentStrategy(app) == \A d \in DeploymentsOf(app) : ~(d.public /\ d.strategy = "Recreate")

\* creating and updating check the same
processValidations(app) ==
    validateDatabase(app) /\ validateInit(app) /\ validateSidecars(app) /\ validateDeploymentStrategy(app)

(* The pod mutator, on a pod of an object: the sidecar listens on 8080, in *)
(* front of the port of the annotation.                                    *)
AuthSidecar(pods) == "authConfig" \in DOMAIN pods.anno
Handle(pods) ==
    IF ~AuthSidecar(pods) THEN pods
    ELSE [pods EXCEPT !.ports = @ \union {8080},
                      !.uses = @ \union FromSecret(pods.anno.authConfig, {"bopurl", "keycloakurl", "whitelist"})]
=============================================================================
