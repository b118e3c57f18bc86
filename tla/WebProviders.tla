---------------------------- MODULE WebProviders ----------------------------
(***************************************************************************)
(* The web provider: Services and their ports, the TLS proxy that runs     *)
(* beside an app, and, in local mode, Keycloak, the mocks of the back      *)
(* office and of entitlements, Ingresses with authentication, and the      *)
(* gateway for client certificates.                                        *)
(***************************************************************************)
EXTENDS KafkaProviders

\* the deprecated "web: true" is a public service
Exposed(d) == d.web \/ d.public

\* mutant: no default for the private port
PlainPorts_NoDefault(env, d) ==
    LET web == env.web
    IN  When(Exposed(d), Port("public", web.port))
          \union When(Exposed(d) /\ web.mode = "local", Port("auth", Or(web.authPort, 8080)))
          \union When(d.publicH2C /\ web.h2cPort # 0, <<"h2c", web.h2cPort, Or(d.publicH2CTarget, web.h2cPort)>>)
          \union When(d.private, Port("private", web.privatePort))
          \union When(d.privateH2C /\ web.h2cPrivatePort # 0,
                      <<"h2c-private", web.h2cPrivatePort, Or(d.privateH2CTarget, web.h2cPrivatePort)>>)

PlainPorts(env, d) ==
    LET web == env.web
    IN  When(Exposed(d), Port("public", web.port))
          \union When(Exposed(d) /\ web.mode = "local", Port("auth", Or(web.authPort, 8080)))
          \union When(d.publicH2C /\ web.h2cPort # 0, <<"h2c", web.h2cPort, Or(d.publicH2CTarget, web.h2cPort)>>)
          \union When(d.private, Port("private", Or(web.privatePort, 10000)))
          \union When(d.privateH2C /\ web.h2cPrivatePort # 0,
                      <<"h2c-private", web.h2cPrivatePort, Or(d.privateH2CTarget, web.h2cPrivatePort)>>)

\* not for the deprecated "web: true"
TLSPorts(env, d) ==
    LET tls == env.web.tls
        public == IsPublicTLSEnabled(d, tls)
        private == IsPrivateTLSEnabled(d, tls)
    IN  When(public /\ d.public, Port("tls", tls.port))
          \union When(private /\ d.private, Port("tls-private", tls.privatePort))
          \union When(public /\ d.publicH2C /\ tls.h2cPort # 0, Port("h2c-tls", tls.h2cPort))
          \union When(private /\ d.privateH2C /\ tls.h2cPrivatePort # 0, Port("h2c-tls-private", tls.h2cPrivatePort))

\* the port of the app behind each port of the proxy; no default for the private port
generateServers(env, d) ==
    "tls" :> env.web.port @@ "tls-private" :> env.web.privatePort
      @@ "h2c-tls" :> Or(d.publicH2CTarget, env.web.h2cPort)
      @@ "h2c-tls-private" :> Or(d.privateH2CTarget, env.web.h2cPrivatePort)
generateCaddyConfig(env, d, ports) == {<<p[2], generateServers(env, d)[p[1]]>> : p \in ports}

CertSecret(nn) == nn[2] \o <<"serving-cert">>
CaddyConfig(nn) == nn[2] \o <<"caddy-config">>

\* written at once, without labels
generateCaddyConfigMap(s, c, nn, servers) ==
    PutNow(s, c, Id("ConfigMap", <<nn[1], CaddyConfig(nn)>>), ConfigMap(s.app, NoData, "caddy.json" :> servers))

\* the ports and volumes of the proxy's container
populateSideCar(dd, nn, ports) ==
    [dd EXCEPT !.ports = @ \union {p[2] : p \in ports},
               !.uses = @ \union Mounted("Secret", CertSecret(nn)) \union Mounted("ConfigMap", CaddyConfig(nn))]

\* the Service's annotation stays when TLS is turned off
makeService(s, c, d) ==
    LET nn == DeploymentNN(s.app, d)
        dep == CoreDeployment(s.app, d)
        svc == Id("Service", nn)
        plain == PlainPorts(s.env, d)
        tls == TLSPorts(s.env, d)
        main == [s.objs[dep] EXCEPT !.ports = {p[3] : p \in {q \in plain : q[1] # "auth"}}]
        proxied == IF tls = {} THEN s ELSE generateCaddyConfigMap(s, c, nn, generateCaddyConfig(s.env, d, tls))
        cert == IF tls # {} THEN CertSecret(nn) ELSE IF svc \in DOMAIN c THEN c[svc].cert ELSE <<>>
    IN  IF dep \notin DOMAIN s.objs THEN Err(s, "no deployment")
        ELSE PutAll(proxied, c,
                svc :> ([cert |-> cert] @@ MakeService(s.app, "pod" :> nn[2], plain \union tls))
                  @@ dep :> (IF tls = {} THEN main ELSE populateSideCar(main, nn, tls)))

MountCA(s, c, id) == IF IsTLSConfiguredForEnv(s.env.web.tls) THEN Put(s, c, id, AddCertVolume(s.objs[id])) ELSE s

\* the ports every app is told
WebConfig(s) ==
    Configure(s, "web",
        [port |-> s.env.web.port, private |-> Or(s.env.web.privatePort, 10000),
         h2c |-> s.env.web.h2cPort, h2cPrivate |-> s.env.web.h2cPrivatePort, tlsCA |-> s.env.web.tls.enabled])

CoreCronJobs(s) == {id \in DOMAIN s.objs : id[1] = "CronJob"}

WebProvide(s, c) ==
    LET step(t, d) ==
            LET u == IfOk(t, makeService(t, c, d)) IN IfOk(u, MountCA(u, c, CoreDeployment(s.app, d)))
        served == FoldLeft(step, WebConfig(s), s.app.deployments)
    IN  IfOk(served,
             IF ~IsTLSConfiguredForEnv(s.env.web.tls) THEN served
             ELSE PutAll(served, c, [id \in CoreCronJobs(served) |-> AddCertVolume(served.objs[id])]))

----------------------------------------------------------------------------
(* Local mode, for an app *)

KeycloakNN(env) == GetNamespacedName(env, "keycloak")
BopURL(env) == <<Host(GetNamespacedName(env, "mbop")), 8090>>
KeycloakURL(env) == <<Host(KeycloakNN(env)), 8080>>
AuthData(env, bop, whitelist) == [bopurl |-> bop, keycloakurl |-> KeycloakURL(env), whitelist |-> whitelist]

createIngress(s, c, d) ==
    LET nn == DeploymentNN(s.app, d)
    IN  IF ~Exposed(d) THEN s
        ELSE Put(s, c, Id("Ingress", nn),
                 [paths |-> GetAPIPaths(d, nn[2])] @@ Ingress(s.app, GetLabels(s.app), {<<nn[2], "auth">>}))

Annotated(obj, key, value) == [obj EXCEPT !.anno = (key :> value) @@ @]

\* the sidecar's configuration and, as an annotation of the pods, its hash
AuthConfig(s, c, owner, secret, dep, data) ==
    PutAll(s, c, Id("Secret", secret) :> Secret(owner, NoData, data)
                   @@ dep :> Annotated(s.objs[dep], "authHash", data))

LocalWebProvide(s, c) ==
    LET step(t, d) ==
            LET dep == CoreDeployment(s.app, d)
                u == IfOk(t, makeService(t, c, d))
                v == MountCA(createIngress(u, c, d), c, dep)
            IN  IfOk(u, AuthConfig(v, c, s.env, <<s.app.ns, <<"caddy-config", s.app.name, d.name>>>>, dep,
                                   AuthData(s.env, BopURL(s.env), d.whitelist)))
    IN  FoldLeft(step, WebConfig(s), s.app.deployments)

----------------------------------------------------------------------------
(* Local mode, for the environment *)

EnvApp(env, nn) == "env-app" :> nn[2] @@ GetLabels(env)

configureKeycloakDB(s, c) ==
    LET nn == <<s.env.ns, <<"keycloak-db">>>>
        init == NewDBSecret(s, nn, "keycloak")
    IN  PutAll(MakeOrGetSecret(s, c, s.env, nn, init), c,
               DBObjects(s.env, nn, [sub |-> "keycloak"], SecretData(c, Id("Secret", nn), init),
                         s.env.web.keycloakPVC, "keycloak", GetVolCapacityForSize("")))

ImportSecret(env) == GetNamespacedName(env, "keycloak-realm-import")

makeKeycloak(env, nn) ==
    [Deployment |->
        Deployment(env, EnvApp(env, nn),
            [ports |-> {8080}, image |-> Image(env, "keycloak"),
             uses |-> FromSecret(<<"keycloak-db">>, {"username", "password", "name", "hostname"})
                        \union FromSecret(nn[2], {"username", "password"})
                        \union Mounted("Secret", ImportSecret(env)[2])]),
     Service |-> MakeService(env, EnvApp(env, nn), {Port("keycloak", 8080)})]

setSecretVersion(data, version) == [data EXCEPT !.version = version]

makeAuthIngress(env) ==
    Ingress(env, GetLabels(env), {<<<<env.name, "keycloak">>, "keycloak">>, <<<<env.name, "mocktitlements">>, "auth">>})

\* Secret, Deployment and Service are written at once
configureKeycloak(s, c) ==
    LET nn == KeycloakNN(s.env)
        ids == {Id(k, nn) : k \in {"Secret", "Deployment", "Service"}}
        init == [username |-> Rnd(s, nn, "username"), password |-> Rnd(s, nn, "password"),
                 defaultPassword |-> Rnd(s, nn, "default"), version |-> s.env.web.keycloakVersion,
                 bopurl |-> BopURL(s.env)]
        data == setSecretVersion(SecretData(c, Id("Secret", nn), init), s.env.web.keycloakVersion)
        secret == Put(s, c, Id("Secret", nn), Secret(s.env, NoData, data))
        made == [CachedMakeComponent(secret, c, nn, makeKeycloak(s.env, nn)) EXCEPT !.now = @ \union ids]
    IN  PutAll(made, c,
            Id("Secret", ImportSecret(s.env)) :>
                Secret(s.env, EnvApp(s.env, ImportSecret(s.env)), "redhat-external-realm.json" :> data.defaultPassword)
              @@ Id("Ingress", GetNamespacedName(s.env, "auth")) :> makeAuthIngress(s.env))

\* both mocks listen on 8090 behind an authentication sidecar
Sidecar(env, port, config) == [authPort |-> port, authConfig |-> config, authImage |-> Image(env, "caddy")]

makeMock(env, nn, name, uses) ==
    [Deployment |->
        Deployment(env, EnvApp(env, nn),
            [ports |-> {8090}, image |-> Image(env, name), uses |-> uses,
             anno |-> Sidecar(env, 8090, <<"caddy-config", name>>)]),
     Service |-> MakeService(env, EnvApp(env, nn), {Port(name, 8090), Port("auth", 8080)})]

makeBOP(env, nn) == makeMock(env, nn, "mbop", FromSecret(KeycloakNN(env)[2], {"username", "password", "version"}))
makeMocktitlements(env, nn) == makeMock(env, nn, "mocktitlements", {})
makeBOPIngress(env, nn) == Ingress(env, GetLabels(env), {<<nn[2], "auth">>})
makeMocktitlementsIngress(env, nn) == Ingress(env, GetLabels(env), {<<nn[2], "auth">>})

\* Keycloak's Secret must be readable; the mock of the back office is its own back office
makeMBOPSecret(s, c, nn) ==
    LET kc == Id("Secret", KeycloakNN(s.env))
    IN  IF kc \notin DOMAIN View(s, c) THEN Err(s, "no secret")
        ELSE AuthConfig(s, c, s.env, <<s.env.ns, <<"caddy-config", "mbop">>>>, Id("Deployment", nn),
                        AuthData(s.env, <<<<"localhost">>, 8090>>, {}))
makeMocktitlementsSecret(s, c, nn) ==
    LET kc == Id("Secret", KeycloakNN(s.env))
    IN  IF kc \notin DOMAIN View(s, c) THEN Err(s, "no secret")
        ELSE AuthConfig(s, c, s.env, <<s.env.ns, <<"caddy-config", "mocktitlements">>>>, Id("Deployment", nn),
                        AuthData(s.env, View(s, c)[kc].data.bopurl, {}))

configureMBOP(s, c) ==
    LET nn == GetNamespacedName(s.env, "mbop")
        t == makeMBOPSecret(CachedMakeComponent(s, c, nn, makeBOP(s.env, nn)), c, nn)
    IN  IfOk(t, Put(t, c, Id("Ingress", nn), makeBOPIngress(s.env, nn)))
configureMocktitlements(s, c) ==
    LET nn == GetNamespacedName(s.env, "mocktitlements")
        t == makeMocktitlementsSecret(CachedMakeComponent(s, c, nn, makeMocktitlements(s.env, nn)), c, nn)
    IN  IfOk(t, Put(t, c, Id("Ingress", nn), makeMocktitlementsIngress(s.env, nn)))

\* the gateway's routes, all to port 8000 and by the one deprecated apiPath
GatewayRoutes(s) ==
    [routes |->
        {[upstream |-> BopURL(s.env), path |-> <<"v1">>]}
          \union UNION {{[upstream |-> <<Host(DeploymentNN(a, d)), 8000>>,
                          path |-> <<"api", IF d.apiPath = <<>> THEN <<d.name>> ELSE d.apiPath>>]
                           : d \in {e \in DeploymentsOf(a) : Exposed(e)}}
                         : a \in s.apps},
     whitelist |-> UNION {UNION {d.whitelist : d \in DeploymentsOf(a)} : a \in s.apps}]

makeWebGatewayCertificateIssuer(env) ==
    Meta(env, GetLabels(env)) @@ [issuer |-> env.web.gateway.mode, email |-> env.web.gateway.email]
makeWebGatewayCertificate(env, nn) ==
    Meta(env, GetLabels(env)) @@ [issuedBy |-> <<env.ns>>, secret |-> nn[2]]
makeWebGatewayDeployment(env, nn) ==
    [Deployment |->
        Deployment(env, EnvApp(env, nn),
            [ports |-> {9090}, image |-> Image(env, "caddyGateway"),
             uses |-> Mounted("ConfigMap", nn[2]) \union Mounted("Secret", nn[2])
                        \union (IF env.web.gateway.localCA = <<>> THEN {}
                                ELSE Mounted("ConfigMap", env.web.gateway.localCA))]),
     Service |-> MakeService(env, EnvApp(env, nn), {Port("gateway", 9090)})]
makeWebGatewayIngress(env, nn) == Ingress(env, GetLabels(env), {<<nn[2], "gateway">>})

configureWebGateway(s, c) ==
    LET nn == GetNamespacedName(s.env, "caddy-gateway")
        routes == GatewayRoutes(s)
        config == PutNow(Put(s, c, Id("Ingress", nn), makeWebGatewayIngress(s.env, nn)), c, Id("ConfigMap", nn),
                         ConfigMap(s.env, NoData, "Caddyfile.json" :> routes))
        deployed == CachedMakeComponent(config, c, nn, makeWebGatewayDeployment(s.env, nn))
        dep == Id("Deployment", nn)
    IN  IF ~s.env.web.gateway.enabled THEN s
        ELSE IF s.env.web.gateway.mode = "acme" /\ s.env.web.gateway.email = "" THEN Err(config, "no email address")
        ELSE PutAll(deployed, c,
                <<"Issuer", s.env.ns, <<s.env.ns>>>> :> makeWebGatewayCertificateIssuer(s.env)
                  @@ <<"Certificate", s.env.ns, <<"caddy-gateway">>>> :> makeWebGatewayCertificate(s.env, nn)
                  @@ dep :> Annotated(deployed.objs[dep], "authHash", routes))

\* the status has got its hostname; each part runs if the one before succeeded
LocalWebEnvProvide(s, c) ==
    LET keycloak == configureKeycloak(configureKeycloakDB(s, c), c)
        mbop == configureMBOP(keycloak, c)
        mock == configureMocktitlements(mbop, c)
    IN  IfOk(mbop, IfOk(mock, configureWebGateway(mock, c)))

LocalWebKinds == {"Deployment", "Service", "Ingress", "Secret", "PVC", "ConfigMap", "Certificate", "Issuer"}

\* GetWeb
WebServicesProvide(s, c) ==
    IF s.env.web.mode = "local" THEN LocalWebProvide(PossibleGVKs(s, LocalWebKinds), c)
    ELSE WebProvide(PossibleGVKs(s, {"Service", "ConfigMap"}), c)
WebServicesEnvProvide(s, c) ==
    IF s.env.web.mode = "local" THEN LocalWebEnvProvide(PossibleGVKs(s, LocalWebKinds), c)
    ELSE PossibleGVKs(s, {"Service", "ConfigMap"})
=============================================================================
