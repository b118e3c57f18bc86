---------------------------- MODULE EnvContract ----------------------------
(***************************************************************************)
(* What a ClowdApp relies on in its ClowdEnvironment: the status changes   *)
(* only while the environment is locked, and the generation it reports is  *)
(* the one it reported before or the generation of the specification at    *)
(* that moment.                                                            *)
(***************************************************************************)
EXTENDS Naturals

VARIABLES
    gen,       \* metadata.generation
    statusGen, \* status.generation
    ready,     \* status.ready
    locked     \* the environment is being reconciled

Init == gen \in Nat /\ statusGen \in 0..gen /\ ready \in BOOLEAN /\ locked = FALSE

Edit == gen' = gen + 1 /\ UNCHANGED <<statusGen, ready, locked>>

Lock == ~locked /\ locked' = TRUE /\ UNCHANGED <<gen, statusGen, ready>>

\* Also the end of a reconcile, which releases the lock.
Publish ==
    /\ locked
    /\ statusGen' \in {statusGen, gen}
    /\ ready' \in BOOLEAN
    /\ locked' \in BOOLEAN
    /\ UNCHANGED gen

Next == Edit \/ Lock \/ Publish

Spec == Init /\ [][Next]_<<gen, statusGen, ready, locked>>

=============================================================================
