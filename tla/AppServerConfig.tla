---------------------------- MODULE AppServerConfig ----------------------------
(***************************************************************************)
(* What the application server is configured with and what its pods mount  *)
(* (internal/controller/appserver: GenerateOLSConfigMap,                   *)
(* GenerateOLSDeployment, updateOLSDeployment, reconcileExporterConfigMap; *)
(* internal/controller/utils: the validation of credentials, the           *)
(* enumeration of external resources, the comparison of Deployments).      *)
(*                                                                         *)
(* The ConfigMap is generated in Phase 1 and names files; the Deployment   *)
(* is generated in Phase 2 and mounts them. Each reads the CR's Secrets    *)
(* and ConfigMaps and the cluster's pull secret for itself, while others   *)
(* change them. The caches are taken to be current (their lag is in        *)
(* OperandRollout), the client CA Secrets to be there (AgenticHandoff),    *)
(* and a change of a resource to restart the Deployment (Watchers).        *)
(*                                                                         *)
(* A file is a directory and a key in it, "" for the whole directory.      *)
(***************************************************************************)
EXTENDS Naturals, Sequences, SequencesExt

CONSTANTS
    Cases,     \* bound: families of inputs
    Specs,     \* bound: per family, the values of the CR's spec
    Clusters,  \* bound: per family, the Secrets, ConfigMaps and pull secret
    MaxEvents  \* bound: per family, edits of the CR and changes of the cluster

ASSUME ConfigBounds ==
    /\ Cases \subseteq DOMAIN Specs /\ Cases \subseteq DOMAIN Clusters
    /\ \A c \in Cases : MaxEvents[c] \in Nat

VARIABLES
    case,      \* the family
    cr,        \* the spec of the CR
    cluster,   \* secret: the Secrets, by name, with the kind of text under each key;
               \* cmap: the ConfigMaps, with the certificate under each key;
               \* pull: none, off, on (telemetry is allowed), broken
    event,     \* an event of a watched resource is to be handled
    config,    \* the ConfigMap olsconfig: whether it exists, its content
    exporter,  \* the exporter's ConfigMap exists
    dep,       \* the Deployment: whether it exists, its content and annotations
    queued,    \* the CR's key is in the work queue
    pc,        \* of the worker: idle, validate, config, exporter, deploy
    read,      \* the spec the worker read
    failed,    \* the last reconciliation that ended has failed
    budget     \* events to come

vars == <<case, cr, cluster, event, config, exporter, dep, queued, pc, read, failed, budget>>
inputs == <<case, cr, cluster, event, budget>>

----------------------------------------------------------------------------
(* Validation.                                                             *)

DefaultCredentialKey == "apitoken"

CredentialKey(p) == IF p.key = "" THEN DefaultCredentialKey ELSE p.key

\* A key of the Secret, with a value that is not blank.
Text(s, k) == k \in DOMAIN s /\ s[k] = "text"

Credential(p, s) ==
    CASE p.type = "azure" ->
            \/ DefaultCredentialKey \in DOMAIN s
            \/ {"client_id", "tenant_id", "client_secret"} \subseteq DOMAIN s
      [] p.type = "vertex" -> CredentialKey(p) \in DOMAIN s
      [] p.type = "bedrock" ->
            /\ Text(s, "access_key") <=> Text(s, "secret_key")
            /\ Text(s, "access_key") \/ Text(s, DefaultCredentialKey)
      [] OTHER -> DefaultCredentialKey \in DOMAIN s

ValidateLLMCredentials(spec) ==
    \A i \in DOMAIN spec.providers :
        LET p == spec.providers[i]
        IN  p.secret \in DOMAIN cluster.secret /\ Credential(p, cluster.secret[p.secret])

ValidateTLSSecret(spec) ==
    spec.tls # "" =>
        /\ spec.tls \in DOMAIN cluster.secret
        /\ {"tls.crt", "tls.key"} \subseteq DOMAIN cluster.secret[spec.tls]

----------------------------------------------------------------------------
(* What both generators read.                                              *)

SeqIf(b, s) == IF b THEN s ELSE <<>>
SetIf(b, S) == IF b THEN S ELSE {}

\* ForEachExternalSecret: the Secrets of the providers and of the MCP headers, in the
\* order of the CR, whether the MCP feature is on or not.
ProviderSecrets(spec) ==
    SelectSeq([i \in DOMAIN spec.providers |-> spec.providers[i].secret],
              LAMBDA s : s # "")

HeaderSecrets(spec) ==
    LET headers == SelectSeq(FlattenSeq(spec.mcp),
                             LAMBDA h : h.type = "secret" /\ h.secret # "")
    IN  [i \in DOMAIN headers |-> headers[i].secret]

\* The Secrets are lists of names in every CR.
ASSUME SecretLists ==
    \A c \in Cases : \A spec \in Specs[c] :
        ProviderSecrets(spec) \in Seq(STRING) /\ HeaderSecrets(spec) \in Seq(STRING)

\* GetProxyCACertKey, GetProxyCACertConfigMapName.
CertKey(ref) == IF ref.key = "" THEN "proxy-ca.crt" ELSE ref.key
HasProxyCA(spec) == spec.proxy.name # ""

\* dataCollectorEnabled: the CR wants feedback or transcripts and the pull secret
\* allows telemetry; a pull secret that cannot be decoded is an error.
Wanted(spec) == spec.feedback \/ spec.transcripts
CollectorFails(spec) == Wanted(spec) /\ cluster.pull = "broken"
DataCollectorEnabled(spec) == Wanted(spec) /\ cluster.pull = "on"

----------------------------------------------------------------------------
(* GenerateOLSConfigMap.                                                   *)

File(dir, key) == [dir |-> dir, key |-> key]

\* Mutant: the key that the CR names is not looked at.
ProviderFilesDefault(spec) ==
    {File(<<"apikeys", p.secret>>, IF p.type = "vertex" THEN DefaultCredentialKey ELSE "") :
        p \in ToSet(spec.providers)}

\* buildProviderConfigs: the directory of the Secret, or for Vertex a file in it.
ProviderFiles(spec) ==
    {File(<<"apikeys", p.secret>>, IF p.type = "vertex" THEN CredentialKey(p) ELSE "") :
        p \in ToSet(spec.providers)}

\* generateMCPServerConfigs: a server with an invalid header is left out; the value of
\* a header of type secret is a file.
ServerFiles(spec) ==
    LET secrets(server) == {h.secret : h \in {g \in ToSet(server) : g.type = "secret"}}
        valid == {s \in ToSet(spec.mcp) : spec.gate /\ "" \notin secrets(s)}
    IN  {File(<<"headers", s>>, "header") : s \in UNION {secrets(v) : v \in valid}}

\* buildOLSConfig, postgresCacheConfig and the rest: the files the service is told of.
Files(spec) ==
    ProviderFiles(spec) \cup ServerFiles(spec)
    \cup {File(<<"credentials">>, "password"), File(<<"certs", "postgres">>, "ca"),
          File(<<"certs", "tls">>, "tls.crt"), File(<<"certs", "tls">>, "tls.key"),
          File(<<"certs", "root">>, "ca"), File(<<"certs", "otel">>, "ca"),
          File(<<"certs", "bundle">>, "")}
    \cup SetIf(spec.introspection, {File(<<"certs", "mcp">>, "ca")})
    \cup SetIf(~spec.byokOnly, {File(<<"certs", "rhokp">>, "ca")})
    \cup SetIf(HasProxyCA(spec), {File(<<"certs", "proxy">>, CertKey(spec.proxy))})
    \cup SetIf(spec.rag # <<>>, {File(<<"rag">>, "")})
    \cup SetIf(spec.prompt, {File(<<"ols">>, "system_prompt")})
    \cup SetIf(DataCollectorEnabled(spec), {File(<<"user-data">>, "")})

\* addAdditionalCAFileNames: a file per key, in the order in which Go walks a map,
\* which is another one each time.
UserCAs(spec) ==
    IF spec.userCA = "none" THEN {<<>>}
    ELSE {[i \in DOMAIN q |-> File(<<"certs", "user">>, q[i])] :
             q \in SetToSeqs(DOMAIN cluster.cmap[spec.userCA])}

\* A certificate that is missing or malformed is an error, and so is a reference to the
\* user's ConfigMap without a name.
CAFails(spec) ==
    \/ /\ HasProxyCA(spec)
       /\ ~ /\ spec.proxy.name \in DOMAIN cluster.cmap
            /\ CertKey(spec.proxy) \in DOMAIN cluster.cmap[spec.proxy.name]
            /\ cluster.cmap[spec.proxy.name][CertKey(spec.proxy)] # "bad"
    \/ /\ spec.userCA # "none"
       /\ ~ /\ spec.userCA \in DOMAIN cluster.cmap
            /\ "bad" \notin Range(cluster.cmap[spec.userCA])

\* A Google Vertex provider comes with a project and a location, which the rules of the
\* CRD ask of a CR when it is written.
VertexFails(spec) == \E p \in ToSet(spec.providers) : p.type = "vertex" /\ ~p.project

ConfigFails(spec) == VertexFails(spec) \/ CollectorFails(spec) \/ CAFails(spec)

GenerateOLSConfigMap(spec) ==
    {[there |-> TRUE, files |-> Files(spec), extraCAs |-> cas] : cas \in UserCAs(spec)}

----------------------------------------------------------------------------
(* GenerateOLSDeployment.                                                  *)

\* A volume with its mount. Its keys are those it projects, all when it lists none.
Volume(name, path, kind, source, keys) ==
    [name |-> name, path |-> path, kind |-> kind, source |-> source, keys |-> keys]

SecretVolumes(prefix, root, secrets) ==
    [i \in DOMAIN secrets |->
        Volume(<<prefix, secrets[i]>>, <<root, secrets[i]>>, "secret", secrets[i], {})]

CAVolume(dir) == <<Volume(<<dir>>, <<"certs", dir>>, "own", dir, {"ca"})>>

\* Mutant: header volumes are named like those of the providers.
HeaderVolumesMixed(spec) == SecretVolumes("secret", "headers", HeaderSecrets(spec))

HeaderVolumes(spec) == SecretVolumes("header", "headers", HeaderSecrets(spec))

Volumes(spec) ==
    SecretVolumes("secret", "apikeys", ProviderSecrets(spec))
    \o <<Volume(<<"secret", "postgres">>, <<"credentials">>, "own", "postgres", {"password"}),
         IF spec.tls # ""
         THEN Volume(<<"secret", "tls">>, <<"certs", "tls">>, "secret", spec.tls, {})
         ELSE Volume(<<"secret", "tls">>, <<"certs", "tls">>, "own", "tls",
                     {"tls.crt", "tls.key"}),
         Volume(<<"config">>, <<"ols">>, "olsconfig", "olsconfig", {}),
         Volume(<<"bundle">>, <<"certs", "bundle">>, "empty", "", {}),
         Volume(<<"tmp">>, <<"tmp">>, "empty", "", {})>>
    \o SeqIf(DataCollectorEnabled(spec),
             <<Volume(<<"user-data">>, <<"user-data">>, "empty", "", {}),
               Volume(<<"exporter">>, <<"exporter">>, "exporter", "exporter", {})>>)
    \o CAVolume("root") \o CAVolume("postgres") \o CAVolume("otel")
    \o SeqIf(spec.introspection, CAVolume("mcp"))
    \o SeqIf(~spec.byokOnly, CAVolume("rhokp"))
    \o SeqIf(spec.userCA \notin {"none", ""},
             <<Volume(<<"user">>, <<"certs", "user">>, "cmap", spec.userCA, {})>>)
    \o SeqIf(HasProxyCA(spec),
             <<Volume(<<"proxy">>, <<"certs", "proxy">>, "cmap", spec.proxy.name,
                      {CertKey(spec.proxy)})>>)
    \o SeqIf(spec.rag # <<>>, <<Volume(<<"rag">>, <<"rag">>, "empty", "", {})>>)
    \o HeaderVolumes(spec)

\* GetProxyCACertHash: the certificate, "" without one. A ConfigMap that is gone is no
\* error, a key that is gone is one.
ProxyHash(spec) ==
    IF HasProxyCA(spec) /\ spec.proxy.name \in DOMAIN cluster.cmap
    THEN cluster.cmap[spec.proxy.name][CertKey(spec.proxy)]
    ELSE ""

DeploymentFails(spec) ==
    \/ CollectorFails(spec)
    \/ /\ HasProxyCA(spec) /\ spec.proxy.name \in DOMAIN cluster.cmap
       /\ CertKey(spec.proxy) \notin DOMAIN cluster.cmap[spec.proxy.name]

\* The resource version of the ConfigMap stands for the content it names.
GenerateOLSDeployment(spec) ==
    [there |-> TRUE, volumes |-> Volumes(spec), pod |-> spec.pod,
     exporter |-> DataCollectorEnabled(spec),
     pullSecrets |-> IF spec.rag # <<>> THEN spec.pullSecrets ELSE <<>>,
     configVersion |-> config, ragHash |-> spec.rag, proxyHash |-> ProxyHash(spec)]

\* PodVolumeEqual and VolumeMountsEqual: by name, and without the projected keys.
VolumesEqual(a, b) ==
    /\ Len(a) = Len(b)
    /\ \A v \in ToSet(a) : \E w \in ToSet(b) :
          /\ v.name = w.name /\ v.path = w.path
          /\ v.kind = w.kind /\ v.source = w.source

\* DeploymentSpecEqual leaves out the init containers and the pull secrets.
DeploymentSpecEqual(a, b) ==
    VolumesEqual(a.volumes, b.volumes) /\ a.pod = b.pod /\ a.exporter = b.exporter

\* Mutant: the version of the ConfigMap is not compared.
ChangedSpecOnly(old, new) ==
    ~DeploymentSpecEqual(old, new)
        \/ old.proxyHash # new.proxyHash \/ old.ragHash # new.ragHash

\* updateOLSDeployment.
Changed(old, new) ==
    \/ ~DeploymentSpecEqual(old, new)
    \/ old.configVersion # new.configVersion
    \/ old.proxyHash # new.proxyHash
    \/ old.ragHash # new.ragHash

\* The API server takes a pod template only if no two volumes have a name and no two
\* mounts a path in common.
Acceptable(d) ==
    \A i, j \in DOMAIN d.volumes :
        i # j => d.volumes[i].name # d.volumes[j].name /\ d.volumes[i].path # d.volumes[j].path

----------------------------------------------------------------------------
(* The worker.                                                             *)

StartReconcile ==
    /\ pc = "idle" /\ queued
    /\ pc' = "validate" /\ queued' = FALSE /\ read' = cr
    /\ UNCHANGED <<inputs, config, exporter, dep, failed>>

\* The reconciliation ends with an error and the key is queued again.
Fail == pc' = "idle" /\ failed' = TRUE /\ queued' = TRUE

\* The first steps of annotateExternalResources.
Validate ==
    /\ pc = "validate"
    /\ IF ValidateLLMCredentials(read) /\ ValidateTLSSecret(read)
       THEN pc' = "config" /\ UNCHANGED <<failed, queued>>
       ELSE Fail
    /\ UNCHANGED <<inputs, config, exporter, dep, read>>

\* An update of an object of the CR queues the key.
Written(old, new) == queued' = (queued \/ old # new)

\* Mutant: the ConfigMap is written each time.
ReconcileOLSConfigMapAlways ==
    /\ pc = "config"
    /\ IF ConfigFails(read)
       THEN Fail /\ UNCHANGED config
       ELSE /\ config' \in GenerateOLSConfigMap(read)
            /\ queued' = TRUE
            /\ pc' = "exporter" /\ UNCHANGED failed
    /\ UNCHANGED <<inputs, exporter, dep, read>>

\* Mutant: Phase 2 starts although the task has failed.
ReconcileOLSConfigMapLenient ==
    /\ pc = "config"
    /\ IF ConfigFails(read)
       THEN UNCHANGED <<config, queued>>
       ELSE config' \in GenerateOLSConfigMap(read) /\ Written(config, config')
    /\ pc' = "exporter"
    /\ UNCHANGED <<inputs, exporter, dep, read, failed>>

\* The tasks that only check that the user's ConfigMaps exist come after this one; they
\* are one step with it and fail when it does.
ReconcileOLSConfigMap ==
    /\ pc = "config"
    /\ IF ConfigFails(read)
       THEN Fail /\ UNCHANGED config
       ELSE /\ config' \in GenerateOLSConfigMap(read)
            /\ Written(config, config')
            /\ pc' = "exporter" /\ UNCHANGED failed
    /\ UNCHANGED <<inputs, exporter, dep, read>>

\* It comes and goes with data collection.
ReconcileExporterConfigMap ==
    /\ pc = "exporter"
    /\ IF CollectorFails(read)
       THEN Fail /\ UNCHANGED exporter
       ELSE /\ exporter' = DataCollectorEnabled(read)
            /\ Written(exporter, exporter')
            /\ pc' = "deploy" /\ UNCHANGED failed
    /\ UNCHANGED <<inputs, config, dep, read>>

ReconcileDeployment ==
    /\ pc = "deploy"
    /\ \/ DeploymentFails(read) /\ Fail /\ UNCHANGED dep
       \/ /\ ~DeploymentFails(read)
          /\ \E new \in {GenerateOLSDeployment(read)} :
                \/ /\ dep.there /\ ~Changed(dep, new)
                   /\ pc' = "idle" /\ failed' = FALSE /\ UNCHANGED <<dep, queued>>
                \/ /\ dep.there => Changed(dep, new)
                   /\ Acceptable(new)
                   /\ pc' = "idle" /\ failed' = FALSE /\ dep' = new /\ queued' = TRUE
                \/ /\ dep.there => Changed(dep, new)
                   /\ ~Acceptable(new)
                   /\ Fail /\ UNCHANGED dep
    /\ UNCHANGED <<inputs, config, exporter, read>>

----------------------------------------------------------------------------
(* The cluster.                                                            *)

\* SecretUpdateHandler and ConfigMapUpdateHandler restart the Deployment, which queues
\* the key. There is nothing to restart before it exists. A deletion, which the
\* predicates drop, queues the key when the informer of the CR resyncs.
HandleEvent ==
    /\ event
    /\ event' = FALSE
    /\ queued' = (queued \/ dep.there)
    /\ UNCHANGED <<case, cr, cluster, budget, config, exporter, dep, pc, read, failed>>

Spend == budget > 0 /\ budget' = budget - 1

EditCR ==
    /\ Spend
    /\ cr' \in Specs[case] \ {cr}
    /\ queued' = TRUE
    /\ UNCHANGED <<case, cluster, event, config, exporter, dep, pc, read, failed>>

ChangeCluster ==
    /\ Spend
    /\ cluster' \in Clusters[case] \ {cluster}
    /\ event' = TRUE
    /\ UNCHANGED <<case, cr, config, exporter, dep, queued, pc, read, failed>>

Init ==
    /\ case \in Cases
    /\ cr \in Specs[case] /\ cluster \in Clusters[case]
    /\ event = FALSE
    /\ config = [there |-> FALSE, files |-> {}, extraCAs |-> <<>>]
    /\ exporter = FALSE
    /\ dep = [there |-> FALSE, volumes |-> <<>>]
    /\ queued = TRUE /\ pc = "idle" /\ read = cr /\ failed = FALSE
    /\ budget = MaxEvents[case]

Worker ==
    StartReconcile \/ Validate \/ ReconcileOLSConfigMap \/ ReconcileExporterConfigMap
        \/ ReconcileDeployment

Next == Worker \/ HandleEvent \/ EditCR \/ ChangeCluster

Spec == Init /\ [][Next]_vars

\* The worker and the informers go on.
FairSpec == Spec /\ WF_vars(Worker) /\ WF_vars(HandleEvent)

----------------------------------------------------------------------------
(* Properties.                                                             *)

\* The keys that a volume of the Deployment shows in the pods.
Shown(v) ==
    CASE v.kind = "secret" /\ v.source \in DOMAIN cluster.secret ->
            DOMAIN cluster.secret[v.source]
      [] v.kind = "cmap" /\ v.source \in DOMAIN cluster.cmap ->
            IF v.keys = {} THEN DOMAIN cluster.cmap[v.source]
            ELSE v.keys \cap DOMAIN cluster.cmap[v.source]
      [] v.kind = "own" -> v.keys
      [] v.kind = "olsconfig" ->
            SetIf(File(<<"ols">>, "system_prompt") \in config.files, {"system_prompt"})
      [] OTHER -> {}

\* Nothing checks that the Secret of an MCP header has the key "header".
Provided(f) ==
    \E v \in ToSet(dep.volumes) :
        v.path = f.dir /\ (f.key \in {"", "header"} \/ f.key \in Shown(v))

\* Every file the service is told of is in its pods, and every ConfigMap of the
\* operator that the pods mount exists.
Agreement ==
    /\ config.there /\ dep.there
    /\ \A f \in config.files \cup ToSet(config.extraCAs) : Provided(f)
    /\ \A v \in ToSet(dep.volumes) : v.kind = "exporter" => exporter

\* Every variable stays within its type; no Deployment exists before its ConfigMap.
TypeOK ==
    /\ case \in Cases /\ cr \in Specs[case] /\ read \in Specs[case]
    /\ cluster \in Clusters[case]
    /\ {event, exporter, queued, failed, dep.there, config.there} \subseteq BOOLEAN
    /\ dep.there => config.there
    /\ pc \in {"idle", "validate", "config", "exporter", "deploy"}
    /\ budget \in 0..MaxEvents[case]

\* When the last reconciliation succeeded, config and pods agree in the end, though
\* the two are generated in different phases, one after the other, from resources that
\* change in between.
AgreesInTheEnd == <>[](failed \/ Agreement)

\* In the end the Deployment is the one the generator gives for the CR, although the
\* comparison leaves out the projected keys; the pull secrets, which nothing compares,
\* and the version of the ConfigMap, which may go on changing, are left aside.
FollowsCR ==
    <>[](failed \/ /\ dep.there /\ ~DeploymentFails(cr)
                   /\ \A f \in {"volumes", "pod", "exporter", "ragHash", "proxyHash"} :
                         dep[f] = GenerateOLSDeployment(cr)[f])

\* No two providers share a Secret, nor two MCP headers, and no provider's has the name
\* of the database's or of the generated TLS Secret.
SecretsDistinct(spec) ==
    /\ IsInjective(ProviderSecrets(spec)) /\ IsInjective(HeaderSecrets(spec))
    /\ ToSet(ProviderSecrets(spec)) \cap {"postgres", "tls"} = {}

\* The API server takes the Deployment of every CR whose Secrets are distinct, also when
\* a provider shares one with an MCP header or the TLS configuration.
AcceptedWhenDistinct ==
    pc = "deploy" /\ ~DeploymentFails(read) /\ SecretsDistinct(read)
        => Acceptable(GenerateOLSDeployment(read))

\* The user's CA ConfigMap holds several certificates.
SeveralCAs == cr.userCA \in DOMAIN cluster.cmap /\ Len(config.extraCAs) > 1

Quiet == pc = "idle" /\ ~queued

\* When nothing changes any more the operator stops writing, or goes on retrying what
\* fails, unless the user's CA ConfigMap holds several certificates.
SettlesUnlessSeveral == <>[](failed \/ SeveralCAs \/ Quiet)

\* Objects are only updated when something actually changes: the operator stops writing.
Settles == <>[](failed \/ Quiet)

=============================================================================
