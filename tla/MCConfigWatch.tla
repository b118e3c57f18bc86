--------------------------- MODULE MCConfigWatch ---------------------------
(***************************************************************************)
(* Instances of ConfigWatch for TLC: two apps in the namespace "n1".  In   *)
(* the first set-up the pods of both name the Secret "s", those of "b"     *)
(* also its own Secret; in the second the pods of "b" name a Secret and a  *)
(* ConfigMap of one name; in the third "s" is a pull secret as well.  In   *)
(* each of the others a provider reads Secrets for the environment.        *)
(***************************************************************************)
EXTENDS ConfigWatch

MCNamespace == [a \in Apps |-> "n1"]
SharedSecret == <<"Secret", "n1", "s">>
SharedMap == <<"ConfigMap", "n1", "s">>
PullSecret == <<"Secret", "n0", "p">>
BrokerSecret == <<"Secret", "n0", "k">>
OwnSecret(a) == <<"Secret", "n1", a>>
MCObjects == {SharedSecret, SharedMap, PullSecret, BrokerSecret, OwnSecret("b"), <<"Secret", "n1", "cloudwatch">>}

\* by name, as the names are
MCRank == [o \in MCObjects |-> CASE Name(o) = "b" -> 1 [] Name(o) = "cloudwatch" -> 2 [] Name(o) = "k" -> 3
                                 [] Name(o) = "p" -> 4 [] OTHER -> 5]

Plain == [logging |-> "none", featureFlags |-> "none", credentialRef |-> PullSecret,
          objectStore |-> "none", minioSecret |-> BrokerSecret, buckets |-> {"a"},
          kafka |-> "none", kafkaSecret |-> BrokerSecret, userSecret |-> [a \in Apps |-> PullSecret], topics |-> {"b"},
          pullSecrets |-> <<>>, refs |-> [a \in Apps |-> <<>>]]
Naming(a, b) == [Plain EXCEPT !.refs = [x \in Apps |-> IF x = "a" THEN a ELSE b]]
SharedSetup == {Naming(<<SharedSecret>>, <<OwnSecret("b"), SharedSecret>>)}
MCSetups == SharedSetup \union
            {Naming(<<>>, <<SharedSecret, SharedMap>>),
             [Naming(<<>>, <<SharedSecret>>) EXCEPT !.pullSecrets = <<SharedSecret>>],
             [Plain EXCEPT !.logging = "app-interface"],
             [Plain EXCEPT !.featureFlags = "app-interface"],
             [Plain EXCEPT !.objectStore = "minio"]}
              \union {[Plain EXCEPT !.kafka = m] : m \in {"operator", "managed", "app-interface", "msk"}}
=============================================================================
