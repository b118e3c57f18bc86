------------------------------ MODULE EnvVars ------------------------------
(***************************************************************************)
(* The environment variables of containers: the deployment's own, those    *)
(* that an init container inherits, those of a sidecar, which environment  *)
(* and app both set, and those of a test job.                              *)
(***************************************************************************)
EXTENDS Integers, Sequences, SequencesExt

\* a list of <<name, value>>
ACGConfig == <<<<"ACG_CONFIG", "cdappconfig">>>>
Names(vars) == {v[1] : v \in ToSet(vars)}
loadEnvVars(vars) == vars \o ACGConfig

\* the last of several variables of a name counts, and one's own before the given ones
Value(list, name) == list[Max({i \in DOMAIN list : list[i][1] = name})][2]
Overrides(list, own, given) ==
    /\ Names(list) = Names(own) \union Names(given)
    /\ \A v \in ToSet(own) : Value(list, v[1]) = Value(own, v[1])
    /\ \A v \in ToSet(given) : v[1] \in Names(own) \/ Value(list, v[1]) = Value(given, v[1])

\* an init container's own variables win over the inherited ones
InheritVar(own, seq, v) == IF v[1] \in Names(own) THEN seq ELSE Append(seq, v)
InitVars(ic, vars) ==
    LET step(seq, v) == InheritVar(ic.env, seq, v)
    IN  IF ic.inheritEnv THEN FoldLeft(step, ic.env, vars) ELSE ACGConfig \o ic.env

\* mutant: the environment's variables after the app's
MergeEnvVars_Appended(vars, appVars) == appVars \o vars

\* an app's variable takes the place of the first one of its name
FirstNamed(seq, name) == Min({i \in DOMAIN seq : seq[i][1] = name})
MergeVar(seq, v) ==
    IF v[1] \in Names(seq) THEN [seq EXCEPT ![FirstNamed(seq, v[1])] = v] ELSE Append(seq, v)
MergeEnvVars(vars, appVars) == FoldLeft(MergeVar, vars, appVars)

\* a new value replaces those of its name; an empty one changes nothing
UpdateVar(seq, v) ==
    IF v[2] = "" THEN seq
    ELSE IF v[1] \notin Names(seq) THEN Append(seq, v)
    ELSE [i \in DOMAIN seq |-> IF seq[i][1] = v[1] THEN v ELSE seq[i]]
updateEnvVars(vars, newVars) == FoldLeft(UpdateVar, vars, newVars)
=============================================================================
