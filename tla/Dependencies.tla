---------------------------- MODULE Dependencies ----------------------------
(***************************************************************************)
(* The dependencies provider: the endpoints an app is given for itself and *)
(* for the ClowdApps and ClowdAppRefs it depends on.                       *)
(***************************************************************************)
EXTENDS WebProviders

\* a deployment's endpoint of either sort, in an environment with those web ports
Endpoint(app, name, host, port, tls, h2c, h2cTLS) ==
    [app |-> app, name |-> name, host |-> host, port |-> port, tls |-> tls, h2c |-> h2c, h2cTLS |-> h2cTLS,
     ca |-> tls # 0 \/ h2cTLS # 0]
anyNotZero(e) == \E n \in {e.port, e.tls, e.h2c, e.h2cTLS} : n # 0
If(cond, n) == IF cond THEN n ELSE 0

\* the deprecated "web: true" counts as public here, for TLS as well
appendPublicDependencyEndpoint(app, d, host, web) ==
    LET tls == IsPublicTLSEnabled(d, web.tls)
        e == Endpoint(app, d.name, host, If(Exposed(d), web.port), If(Exposed(d) /\ tls, web.tls.port),
                      If(d.publicH2C, web.h2cPort), If(d.publicH2C /\ tls, web.tls.h2cPort))
    IN  When(anyNotZero(e), e)

appendPrivateDependencyEndpoint(app, d, host, web) ==
    LET tls == IsPrivateTLSEnabled(d, web.tls)
        e == Endpoint(app, d.name, host, If(d.private, web.privatePort), If(d.private /\ tls, web.tls.privatePort),
                      If(d.privateH2C, web.h2cPrivatePort), If(d.privateH2C /\ tls, web.tls.h2cPrivatePort))
    IN  When(anyNotZero(e), e)

\* the endpoints of a ClowdApp are Services of its namespace
configureAppDependencyEndpoints(app, web) ==
    [public |-> UNION {appendPublicDependencyEndpoint(app.name, d, Host(DeploymentNN(app, d)), web) : d \in DeploymentsOf(app)},
     private |-> UNION {appendPrivateDependencyEndpoint(app.name, d, Host(DeploymentNN(app, d)), web) : d \in DeploymentsOf(app)}]

\* the ports of the remote environment, else those of this one; TLS is not enabled by default there
RemoteWeb(remote, web) ==
    [port |-> Or(remote.port, web.port), privatePort |-> Or(remote.privatePort, web.privatePort),
     h2cPort |-> Or(remote.h2cPort, web.h2cPort), h2cPrivatePort |-> Or(remote.h2cPrivatePort, web.h2cPrivatePort),
     tls |-> [enabled |-> FALSE, port |-> Or(remote.tls.port, web.tls.port),
              privatePort |-> Or(remote.tls.privatePort, web.tls.privatePort),
              h2cPort |-> Or(remote.tls.h2cPort, web.tls.h2cPort),
              h2cPrivatePort |-> Or(remote.tls.h2cPrivatePort, web.tls.h2cPrivatePort)]]

\* a ClowdAppRef says at which host each of its deployments is
configureAppRefDependencyEndpoints(ref, web) ==
    LET remote == RemoteWeb(ref.remote, web)
    IN  [public |-> UNION {appendPublicDependencyEndpoint(ref.name, d, d.hostname, remote) : d \in DeploymentsOf(ref)},
         private |-> UNION {appendPrivateDependencyEndpoint(ref.name, d, d.hostname, remote) : d \in DeploymentsOf(ref)}]

\* a ClowdAppRef with the name of a ClowdApp stands in for it for those it serves
UsesRef(s, name) ==
    \E r \in s.env.refs : r.name = name /\ (HasApp(s, name) => s.app.name \in r.serves)
RefNamed(s, name) == CHOOSE r \in s.env.refs : r.name = name
MissingDeps(s, names) == {n \in names : ~HasApp(s, n) /\ ~UsesRef(s, n)}

processAppAndAppRefEndpoints(s, web, names) ==
    LET of(n) == IF UsesRef(s, n) THEN configureAppRefDependencyEndpoints(RefNamed(s, n), web)
                 ELSE configureAppDependencyEndpoints(AppNamed(s, n), web)
        known == names \ MissingDeps(s, names)
    IN  [public |-> UNION {of(n).public : n \in known}, private |-> UNION {of(n).private : n \in known}]

\* every port that is not 0 under a key of its own
buildV2EndpointMap(endpoints) ==
    UNION {{[app |-> e.app, key |-> <<e.name, k[1]>>, scheme |-> k[2], host |-> e.host, port |-> k[3]]
              : k \in {x \in {<<"", "http", e.port>>, <<"tls", "https", e.tls>>,
                              <<"h2c", "http", e.h2c>>, <<"h2c_tls", "https", e.h2cTLS>>} : x[3] > 0}}
            : e \in endpoints}
makeV2DependencyEndpoints(s, public) ==
    IF public = {} THEN s ELSE Configure(s, "endpointsV2", buildV2EndpointMap(public))
makeV2PrivateDependencyEndpoints(s, private) ==
    IF private = {} THEN s ELSE Configure(s, "privateEndpointsV2", buildV2EndpointMap(private))

\* the private port's default
DefaultPorts(web) == [web EXCEPT !.privatePort = Or(@, 10000)]

\* an app without dependencies gets its own endpoints, and no second version of them
makeDependencies(s) ==
    LET web == DefaultPorts(s.env.web)
        own == configureAppDependencyEndpoints(s.app, web)
        others == processAppAndAppRefEndpoints(s, web, s.app.dependencies \union s.app.optional)
        public == own.public \union others.public
        private == own.private \union others.private
        t == [s EXCEPT !.env.web = web]
        V1(p, q) == Configure(Configure(t, "endpoints", p), "privateEndpoints", q)
    IN  IF s.app.dependencies \union s.app.optional = {} THEN V1(own.public, own.private)
        ELSE IF MissingDeps(s, s.app.dependencies) # {} THEN Err(t, "missing dependencies")
        ELSE makeV2PrivateDependencyEndpoints(makeV2DependencyEndpoints(V1(public, private), public), private)

DependenciesProvide(s, c) == makeDependencies(s)
=============================================================================
