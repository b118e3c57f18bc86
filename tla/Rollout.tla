------------------------------ MODULE Rollout ------------------------------
(***************************************************************************)
(* What the ClowdEnvironment and the ClowdApp controller promise together  *)
(* about generations.  An environment's status.generation only grows up to *)
(* its generation.  The resources of a ClowdApp are only ever rebuilt from *)
(* the same or newer specifications: of the app itself, and of an          *)
(* environment that had been reconciled with it.  The app's                *)
(* status.generation follows what has been built.                          *)
(***************************************************************************)
EXTENDS Naturals

CONSTANT Apps

VARIABLES
    gen,          \* generation of the environment
    statusGen,    \* its status.generation
    appGen,       \* per app: generation
    appStatusGen, \* per app: status.generation
    built         \* per app: the generations its resources were built from

Init ==
    /\ gen \in Nat /\ statusGen \in 0..gen
    /\ appGen \in [Apps -> Nat] /\ appStatusGen \in [Apps -> Nat]
    /\ built \in [Apps -> [own : Nat, env : Nat]]
    /\ \A a \in Apps : /\ appStatusGen[a] <= built[a].own /\ built[a].own <= appGen[a]
                       /\ built[a].env <= statusGen

EnvEdit == gen' = gen + 1 /\ UNCHANGED <<statusGen, appGen, appStatusGen, built>>

EnvPublish == statusGen' \in statusGen..gen /\ UNCHANGED <<gen, appGen, appStatusGen, built>>

AppEdit(a) ==
    /\ appGen' = [appGen EXCEPT ![a] = @ + 1]
    /\ UNCHANGED <<gen, statusGen, appStatusGen, built>>

Build(a) ==
    /\ \E o \in built[a].own..appGen[a], e \in built[a].env..statusGen :
         built' = [built EXCEPT ![a] = [own |-> o, env |-> e]]
    /\ UNCHANGED <<gen, statusGen, appGen, appStatusGen>>

AppPublish(a) ==
    /\ \E g \in appStatusGen[a]..built[a].own : appStatusGen' = [appStatusGen EXCEPT ![a] = g]
    /\ UNCHANGED <<gen, statusGen, appGen, built>>

Next ==
    \/ EnvEdit \/ EnvPublish
    \/ \E a \in Apps : AppEdit(a) \/ Build(a) \/ AppPublish(a)

Spec == Init /\ [][Next]_<<gen, statusGen, appGen, appStatusGen, built>>

=============================================================================
