------------------------- MODULE Providers_proofs -------------------------
(* What the providers work out, for every specification of environment and *)
(* apps: the values of a topic that several apps share, and the endpoints  *)
(* apps are told of each other.                                            *)
EXTENDS Dependencies, EnvVars_proofs

----------------------------------------------------------------------------
(* What a topic is given when several apps ask for it *)

\* The counts and sizes that are asked for fit a machine integer.
Bounded(t, Limit) ==
    /\ t.partitions \in -Limit..Limit /\ t.replicas \in -Limit..Limit
    /\ \A k \in DOMAIN t.config : conversionMap[k] = "IntMax" => t.config[k] \in -Limit..Limit

(* Whatever apps ask for a topic, and whatever each of them leaves out,    *)
(* the values that processTopicValues works out will do for every one of   *)
(* them: no app gets fewer partitions, a shorter retention or fewer        *)
(* policies than it asks for.  The partitions are those that one of them   *)
(* asks for, or three, and there are no more replicas than brokers.        *)
THEOREM TopicsTheorem ==
    ASSUME NEW env, NEW apps, NEW name, NEW Limit \in Nat, env.kafka.cluster.replicas \in Int,
           \A t \in Asked(apps, name) : Bounded(t, Limit),
           ~TopicFails(env, apps, name), Asked(apps, name) # {}
    PROVE  LET values == processTopicValues(env, apps, name)
           IN  /\ \A t \in Asked(apps, name) : Covers(values, t)
               /\ values.partitions = 3 \/ \E t \in Asked(apps, name) : values.partitions = t.partitions
               /\ values.replicas \in 1..AtLeastOne(env.kafka.cluster.replicas)
  <1> DEFINE same == Asked(apps, name)
             keys == UNION {DOMAIN t.config : t \in same}
             Count(ns) == IF ns = {} THEN 0 ELSE IF Max(ns) < 1 THEN 3 ELSE Max(ns)
             partitions == {t.partitions : t \in same}
             replicas == {t.replicas : t \in same}
             available == AtLeastOne(env.kafka.cluster.replicas)
             values == processTopicValues(env, apps, name)
  <1>1. /\ values.partitions = Count(partitions)
        /\ values.replicas = IF available < Count(replicas) \/ env.kafka.cluster.replicas < 1
                             THEN available ELSE Count(replicas)
        /\ values.config = [k \in keys \intersect DOMAIN conversionMap |->
                              Convert(k, {t.config[k] : t \in {u \in same : k \in DOMAIN u.config}})]
    BY Zenon DEF processTopicValues
  <1>2. Max(partitions) \in partitions /\ \A n \in partitions : Max(partitions) >= n
    <2>1. partitions \subseteq -Limit..Limit /\ partitions # {}
      BY Zenon DEF Bounded
    <2> QED
      BY Zenon, <2>1, Largest
  <1>3. Max(replicas) \in Int
    <2>1. replicas \subseteq -Limit..Limit /\ replicas # {}
      BY Zenon DEF Bounded
    <2>2. Max(replicas) \in replicas
      BY Zenon, <2>1, Largest
    <2> QED
      BY <2>1, <2>2
  <1>4. ASSUME NEW t \in same PROVE values.partitions >= t.partitions
    <2>1. t.partitions \in Int /\ Max(partitions) \in Int /\ Max(partitions) >= t.partitions
      BY <1>2 DEF Bounded
    <2>2. values.partitions = IF Max(partitions) < 1 THEN 3 ELSE Max(partitions)
      BY Zenon, <1>1
    <2> HIDE DEF partitions, values
    <2> QED
      BY <2>1, <2>2
  <1>5. values.partitions = 3 \/ \E t \in same : values.partitions = t.partitions
    BY Zenon, <1>1, <1>2
  <1>6. values.replicas \in 1..available
    <2>1. values.replicas = IF available < Count(replicas) \/ env.kafka.cluster.replicas < 1
                            THEN available ELSE Count(replicas)
      BY Zenon, <1>1
    <2>2. Count(replicas) \in Int /\ Count(replicas) >= 1
      <3>1. Count(replicas) = IF Max(replicas) < 1 THEN 3 ELSE Max(replicas)
        BY Zenon
      <3> HIDE DEF Count, replicas
      <3> QED
        BY <1>3, <3>1
    <2>3. available \in Int /\ available >= 1
      BY DEF AtLeastOne
    <2> HIDE DEF values, available, Count
    <2> QED
      BY <2>1, <2>2, <2>3
  <1>7. ASSUME NEW t \in same, NEW k \in DOMAIN t.config
        PROVE  IF conversionMap[k] = "IntMax" THEN values.config[k] >= t.config[k]
               ELSE t.config[k] \subseteq values.config[k]
    <2> DEFINE vals == {u.config[k] : u \in {v \in same : k \in DOMAIN v.config}}
    <2>1. k \in keys \intersect DOMAIN conversionMap
      BY Zenon, <1>7 DEF TopicFails
    <2>2. values.config[k] = Convert(k, vals) /\ t.config[k] \in vals
      BY Zenon, <1>1, <1>7, <2>1
    <2>3. CASE conversionMap[k] = "IntMax"
      <3>1. vals \subseteq -Limit..Limit /\ vals # {}
        BY Zenon, <2>2, <2>3 DEF Bounded
      <3>2. \A n \in vals : Max(vals) >= n
        BY Zenon, <3>1, Largest
      <3> QED
        BY Zenon, <2>2, <2>3, <3>2 DEF Convert
    <2>4. CASE conversionMap[k] # "IntMax"
      BY Zenon, <2>2, <2>4 DEF Convert
    <2> QED
      BY Zenon, <2>3, <2>4
  <1> QED
    BY Zenon, <1>4, <1>5, <1>6, <1>7 DEF Covers

----------------------------------------------------------------------------
(* The endpoints apps are told *)

\* a record with at least these fields
HasFields(r, fields) == fields \subseteq DOMAIN r /\ r = [f \in DOMAIN r |-> r[f]]

\* The Service of deployment d, which has the ports of both sorts, has port n.
Serves(env, d, n) == \E p \in PlainPorts(env, d) \union TLSPorts(env, d) : p[2] = n

\* "web: true", which is deprecated, is told a TLS port that no Service has.
PublicServed(e, env, d) ==
    /\ \A n \in {e.port, e.h2c, e.h2cTLS} \ {0} : Serves(env, d, n)
    /\ e.tls # 0 => Serves(env, d, e.tls) \/ (d.web /\ ~d.public)
PrivateServed(e, env, d) == \A n \in {e.port, e.tls, e.h2c, e.h2cTLS} \ {0} : Serves(env, d, n)

\* An endpoint of the first sort is one of the Service of its deployment.
LEMMA PublicEndpoint ==
    ASSUME NEW env, NEW d, NEW web, NEW app, NEW host,
           web.port = env.web.port, web.h2cPort = env.web.h2cPort, web.tls = env.web.tls,
           NEW e \in appendPublicDependencyEndpoint(app, d, host, web)
    PROVE  e.host = host /\ e.name = d.name /\ PublicServed(e, env, d)
  <1> DEFINE tls == IsPublicTLSEnabled(d, web.tls)
  <1>1. /\ e.host = host /\ e.name = d.name
        /\ e.port = If(Exposed(d), web.port) /\ e.tls = If(Exposed(d) /\ tls, web.tls.port)
        /\ e.h2c = If(d.publicH2C, web.h2cPort) /\ e.h2cTLS = If(d.publicH2C /\ tls, web.tls.h2cPort)
    BY DEF appendPublicDependencyEndpoint, Endpoint, When
  <1>2. e.port # 0 => Serves(env, d, e.port)
    <2> SUFFICES ASSUME e.port # 0 PROVE Serves(env, d, e.port)
      BY Zenon
    <2>1. Port("public", web.port) \in PlainPorts(env, d)
      BY <1>1 DEF PlainPorts, When, If
    <2> QED
      BY <1>1, <2>1 DEF Serves, Port, If
  <1>3. e.h2c # 0 => Serves(env, d, e.h2c)
    <2> SUFFICES ASSUME e.h2c # 0 PROVE Serves(env, d, e.h2c)
      BY Zenon
    <2>1. <<"h2c", web.h2cPort, Or(d.publicH2CTarget, web.h2cPort)>> \in PlainPorts(env, d)
      BY <1>1 DEF PlainPorts, When, If
    <2> QED
      BY <1>1, <2>1 DEF Serves, If
  <1>4. e.h2cTLS # 0 => Serves(env, d, e.h2cTLS)
    <2> SUFFICES ASSUME e.h2cTLS # 0 PROVE Serves(env, d, e.h2cTLS)
      BY Zenon
    <2>1. Port("h2c-tls", web.tls.h2cPort) \in TLSPorts(env, d)
      BY Zenon, <1>1 DEF TLSPorts, When, If
    <2> QED
      BY <1>1, <2>1 DEF Serves, Port, If
  <1>5. e.tls # 0 /\ d.public => Serves(env, d, e.tls)
    <2> SUFFICES ASSUME e.tls # 0, d.public PROVE Serves(env, d, e.tls)
      BY Zenon
    <2>1. Port("tls", web.tls.port) \in TLSPorts(env, d)
      BY Zenon, <1>1 DEF TLSPorts, When, If
    <2> QED
      BY <1>1, <2>1 DEF Serves, Port, If
  <1>6. e.tls # 0 => d.web \/ d.public
    BY Zenon, <1>1 DEF If, Exposed
  <1> QED
    BY Zenon, <1>1, <1>2, <1>3, <1>4, <1>5, <1>6 DEF PublicServed

\* An endpoint of the second sort is one of the Service of its deployment.
LEMMA PrivateEndpoint ==
    ASSUME NEW env, NEW d, NEW web, NEW app, NEW host,
           web.privatePort = Or(env.web.privatePort, 10000), web.h2cPrivatePort = env.web.h2cPrivatePort, web.tls = env.web.tls,
           NEW e \in appendPrivateDependencyEndpoint(app, d, host, web)
    PROVE  e.host = host /\ e.name = d.name /\ PrivateServed(e, env, d)
  <1> DEFINE tls == IsPrivateTLSEnabled(d, web.tls)
  <1>1. /\ e.host = host /\ e.name = d.name
        /\ e.port = If(d.private, web.privatePort) /\ e.tls = If(d.private /\ tls, web.tls.privatePort)
        /\ e.h2c = If(d.privateH2C, web.h2cPrivatePort) /\ e.h2cTLS = If(d.privateH2C /\ tls, web.tls.h2cPrivatePort)
    BY DEF appendPrivateDependencyEndpoint, Endpoint, When
  <1>2. e.port # 0 => Serves(env, d, e.port)
    <2> SUFFICES ASSUME e.port # 0 PROVE Serves(env, d, e.port)
      OBVIOUS
    <2>1. Port("private", web.privatePort) \in PlainPorts(env, d)
      BY <1>1 DEF PlainPorts, When, If
    <2> QED
      BY <1>1, <2>1 DEF Serves, Port, If
  <1>3. e.h2c # 0 => Serves(env, d, e.h2c)
    <2> SUFFICES ASSUME e.h2c # 0 PROVE Serves(env, d, e.h2c)
      OBVIOUS
    <2>1. <<"h2c-private", web.h2cPrivatePort, Or(d.privateH2CTarget, web.h2cPrivatePort)>> \in PlainPorts(env, d)
      BY <1>1 DEF PlainPorts, When, If
    <2> QED
      BY <1>1, <2>1 DEF Serves, If
  <1>4. e.h2cTLS # 0 => Serves(env, d, e.h2cTLS)
    <2> SUFFICES ASSUME e.h2cTLS # 0 PROVE Serves(env, d, e.h2cTLS)
      OBVIOUS
    <2>1. Port("h2c-tls-private", web.tls.h2cPrivatePort) \in TLSPorts(env, d)
      BY <1>1 DEF TLSPorts, When, If
    <2> QED
      BY <1>1, <2>1 DEF Serves, Port, If
  <1>5. e.tls # 0 => Serves(env, d, e.tls)
    <2> SUFFICES ASSUME e.tls # 0 PROVE Serves(env, d, e.tls)
      OBVIOUS
    <2>1. Port("tls-private", web.tls.privatePort) \in TLSPorts(env, d)
      BY <1>1 DEF TLSPorts, When, If
    <2> QED
      BY <1>1, <2>1 DEF Serves, Port, If
  <1> QED
    BY <1>1, <1>2, <1>3, <1>4, <1>5 DEF PrivateServed

\* e is an endpoint of a deployment of app, and names ports of its Service.
PublicAt(app, env, e) ==
    \E d \in DeploymentsOf(app) : e.host = Host(DeploymentNN(app, d)) /\ e.name = d.name /\ PublicServed(e, env, d)
PrivateAt(app, env, e) ==
    \E d \in DeploymentsOf(app) : e.host = Host(DeploymentNN(app, d)) /\ e.name = d.name /\ PrivateServed(e, env, d)

SamePorts(web, given) ==
    /\ web.port = given.port /\ web.privatePort = Or(given.privatePort, 10000) /\ web.tls = given.tls
    /\ web.h2cPort = given.h2cPort /\ web.h2cPrivatePort = given.h2cPrivatePort

\* The endpoints of a ClowdApp, told by the ports of the environment.
LEMMA AppEndpoints ==
    ASSUME NEW app, NEW env, NEW web, SamePorts(web, env.web)
    PROVE  /\ \A e \in configureAppDependencyEndpoints(app, web).public : PublicAt(app, env, e)
           /\ \A e \in configureAppDependencyEndpoints(app, web).private : PrivateAt(app, env, e)
  <1>1. ASSUME NEW e \in configureAppDependencyEndpoints(app, web).public
        PROVE  PublicAt(app, env, e)
    <2>1. PICK d \in DeploymentsOf(app) :
            e \in appendPublicDependencyEndpoint(app.name, d, Host(DeploymentNN(app, d)), web)
      BY Zenon, <1>1 DEF configureAppDependencyEndpoints
    <2>2. e.host = Host(DeploymentNN(app, d)) /\ e.name = d.name /\ PublicServed(e, env, d)
      BY <2>1, PublicEndpoint DEF SamePorts
    <2> QED
      BY Zenon, <2>2 DEF PublicAt
  <1>2. ASSUME NEW e \in configureAppDependencyEndpoints(app, web).private
        PROVE  PrivateAt(app, env, e)
    <2>1. PICK d \in DeploymentsOf(app) :
            e \in appendPrivateDependencyEndpoint(app.name, d, Host(DeploymentNN(app, d)), web)
      BY Zenon, <1>2 DEF configureAppDependencyEndpoints
    <2>2. e.host = Host(DeploymentNN(app, d)) /\ e.name = d.name /\ PrivateServed(e, env, d)
      BY <2>1, PrivateEndpoint DEF SamePorts
    <2> QED
      BY Zenon, <2>2 DEF PrivateAt
  <1> QED
    BY Zenon, <1>1, <1>2

WebFields == {"port", "privatePort", "h2cPort", "h2cPrivatePort", "tls"}

\* The web ports that makeDependencies goes by.
LEMMA DependencyPorts ==
    ASSUME NEW web, HasFields(web, WebFields)
    PROVE  SamePorts(DefaultPorts(web), web)
  BY DEF HasFields, WebFields, DefaultPorts, SamePorts

\* What an app may be told of the first and of the second sort: a port of a
\* Service of a ClowdApp, or a host that a ClowdAppRef names.
OfRef(s, e) == \E r \in s.env.refs : \E d \in DeploymentsOf(r) : e.host = d.hostname
PublicTold(s, e) == OfRef(s, e) \/ \E b \in {s.app} \union s.apps : PublicAt(b, s.env, e)
PrivateTold(s, e) == OfRef(s, e) \/ \E b \in {s.app} \union s.apps : PrivateAt(b, s.env, e)

\* The endpoints of a ClowdAppRef are at the hosts it names.
LEMMA RefEndpoints ==
    ASSUME NEW s, NEW r \in s.env.refs, NEW web,
           NEW e \in configureAppRefDependencyEndpoints(r, web).public
                       \union configureAppRefDependencyEndpoints(r, web).private
    PROVE  OfRef(s, e)
  <1> DEFINE remote == RemoteWeb(r.remote, web)
  <1>1. PICK d \in DeploymentsOf(r) :
          \/ e \in appendPublicDependencyEndpoint(r.name, d, d.hostname, remote)
          \/ e \in appendPrivateDependencyEndpoint(r.name, d, d.hostname, remote)
    BY Zenon DEF configureAppRefDependencyEndpoints
  <1>2. e.host = d.hostname
    BY SMTT(30), <1>1 DEF appendPublicDependencyEndpoint, appendPrivateDependencyEndpoint, Endpoint, When
  <1> QED
    BY Zenon, <1>2 DEF OfRef

\* The endpoints of the apps and refs that an app depends on.
LEMMA OtherEndpoints ==
    ASSUME NEW s, NEW web, NEW names, SamePorts(web, s.env.web)
    PROVE  /\ \A e \in processAppAndAppRefEndpoints(s, web, names).public : PublicTold(s, e)
           /\ \A e \in processAppAndAppRefEndpoints(s, web, names).private : PrivateTold(s, e)
  <1> DEFINE told == processAppAndAppRefEndpoints(s, web, names)
             known == names \ MissingDeps(s, names)
             of(n) == IF UsesRef(s, n) THEN configureAppRefDependencyEndpoints(RefNamed(s, n), web)
                      ELSE configureAppDependencyEndpoints(AppNamed(s, n), web)
  <1>1. told.public = UNION {of(n).public : n \in known} /\ told.private = UNION {of(n).private : n \in known}
    BY Zenon DEF processAppAndAppRefEndpoints
  <1>2. ASSUME NEW n \in known
        PROVE  (\A e \in of(n).public : PublicTold(s, e)) /\ (\A e \in of(n).private : PrivateTold(s, e))
    <2>1. CASE UsesRef(s, n)
      <3>1. RefNamed(s, n) \in s.env.refs
        BY Zenon, <2>1 DEF UsesRef, RefNamed
      <3> QED
        BY Zenon, <2>1, <3>1, RefEndpoints DEF PublicTold, PrivateTold
    <2>2. CASE ~UsesRef(s, n)
      <3>1. HasApp(s, n)
        BY Zenon, <2>2 DEF MissingDeps
      <3>2. AppNamed(s, n) \in s.apps
        BY Zenon, <3>1 DEF HasApp, AppNamed
      <3> QED
        BY Zenon, <2>2, <3>2, AppEndpoints DEF PublicTold, PrivateTold
    <2> QED
      BY Zenon, <2>1, <2>2
  <1> QED
    BY SMTT(30), <1>1, <1>2

(* makeDependencies tells an app, as endpoints of either sort, its own and *)
(* those of the ClowdApps and ClowdAppRefs it depends on.  Every port that *)
(* is told of a ClowdApp is one that makeService gives the Service of that *)
(* deployment, whatever ports the environment sets or leaves at 0 and      *)
(* whatever the deployments expose; only the TLS port of the deprecated    *)
(* "web: true" is not.  The private port 10000 that stands in for one that *)
(* is not set is the same on both sides.                                   *)
THEOREM EndpointsTheorem ==
    ASSUME NEW s, HasFields(s.env.web, WebFields)
    PROVE  LET web == DefaultPorts(s.env.web)
               own == configureAppDependencyEndpoints(s.app, web)
               others == processAppAndAppRefEndpoints(s, web, s.app.dependencies \union s.app.optional)
           IN  /\ \A e \in own.public \union others.public : PublicTold(s, e)
               /\ \A e \in own.private \union others.private : PrivateTold(s, e)
  <1> DEFINE web == DefaultPorts(s.env.web)
             own == configureAppDependencyEndpoints(s.app, web)
             others == processAppAndAppRefEndpoints(s, web, s.app.dependencies \union s.app.optional)
  <1>1. SamePorts(web, s.env.web)
    BY Zenon, DependencyPorts
  <1>2. (\A e \in own.public : PublicTold(s, e)) /\ (\A e \in own.private : PrivateTold(s, e))
    BY Zenon, <1>1, AppEndpoints DEF PublicTold, PrivateTold
  <1>3. (\A e \in others.public : PublicTold(s, e)) /\ (\A e \in others.private : PrivateTold(s, e))
    BY Zenon, <1>1, OtherEndpoints
  <1> QED
    BY Zenon, <1>2, <1>3
=============================================================================
