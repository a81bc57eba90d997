---------------------------- MODULE OperandRollout ----------------------------
(***************************************************************************)
(* The reconcilers of the operands (internal/controller/<operand>): two    *)
(* task lists, each task a Get of one object in the informer cache that is *)
(* followed by a Create or an Update, and the Deployment, which is rolled  *)
(* out again when its spec or the resource versions recorded in its        *)
(* annotations are out of date.                                            *)
(*                                                                         *)
(* Every object has its own informer cache, which lags; the data of an     *)
(* object is the version of the CR it was generated from, 0 once somebody  *)
(* else has edited it.                                                     *)
(***************************************************************************)
EXTENDS Naturals, Sequences

CONSTANTS
    Operands,     \* the operands to choose from
    Modelled,     \* the objects kept; tasks on other objects are left out
    MaxEdits,     \* bound: edits of the CR
    MaxTampers,   \* bound: edits and deletions of objects by others
    MaxRotations, \* bound: rotations of the serving certificate
    MaxFaults,    \* bound: API errors
    MaxCrashes,   \* bound: crashes of the operator
    Meet,         \* bound: pairs of different disturbances that meet in one behaviour
    RvModulus     \* where resource versions wrap, farther than any copy lags; 0: never

ASSUME RolloutBounds ==
    /\ MaxEdits \in Nat /\ MaxTampers \in Nat /\ MaxRotations \in Nat
    /\ MaxFaults \in Nat /\ MaxCrashes \in Nat
    /\ RvModulus \in Nat

----------------------------------------------------------------------------
(* The task lists of the operands, Phase 1 (res) and Phase 2 (dep). Apply   *)
(* creates or updates, Ensure only creates, Delete removes what an earlier  *)
(* release left, Wait polls for the Secret that service-ca makes for the    *)
(* Service, Deploy creates or rolls the Deployment.                         *)

McpTasks == [
    res |-> << <<"Apply", "cm">>, <<"Ensure", "sa">>, <<"Apply", "np">>,
               <<"Delete", "legacy">> >>,
    dep |-> << <<"Apply", "svc">>, <<"Wait", "tls">>, <<"Deploy", "dep">>,
               <<"Apply", "sm">> >>]

RhokpTasks == [
    res |-> << <<"Apply", "np">> >>,
    dep |-> << <<"Apply", "svc">>, <<"Wait", "tls">>, <<"Deploy", "dep">>,
               <<"Apply", "sm">> >>]

OtelTasks == [
    res |-> << <<"Apply", "cm">>, <<"Ensure", "sa">>, <<"Apply", "secret">>,
               <<"Apply", "np">>, <<"Delete", "legacy">> >>,
    dep |-> << <<"Apply", "svc">>, <<"Wait", "tls">>, <<"Deploy", "dep">>,
               <<"Apply", "sm">> >>]

\* The Secrets of the database and its volume claim are in PostgresCredentials.
PostgresTasks == [
    res |-> << <<"Ensure", "cm">>, <<"Apply", "np">>, <<"Ensure", "sa">> >>,
    dep |-> << <<"Deploy", "dep">>, <<"Ensure", "svc">> >>]

AppServerTasks == [
    res |-> << <<"Ensure", "sa">>, <<"Ensure", "role">>, <<"Ensure", "binding">>,
               <<"Apply", "cm">>, <<"Apply", "secret">>, <<"Apply", "np">> >>,
    dep |-> << <<"Ensure", "exporter">>, <<"Deploy", "dep">>,
               <<"Overwrite", "svc">>, <<"WaitAndTouch", "tls">>,
               <<"Apply", "sm">>, <<"Apply", "rule">> >>]

AlertsAdapterTasks == [
    res |-> << <<"Ensure", "sa">>, <<"Ensure", "role">>, <<"Ensure", "binding">>,
               <<"Delete", "legacy">>, <<"Ensure", "rolebinding">>,
               <<"Apply", "np">> >>,
    dep |-> << <<"Deploy", "dep">> >>]

\* "activation" is the plugin's entry in the Console CR.
ConsoleTasks == [
    res |-> << <<"Apply", "cm">>, <<"Apply", "np">>, <<"Ensure", "sa">> >>,
    dep |-> << <<"Deploy", "dep">>, <<"Apply", "svc">>, <<"Wait", "tls">>,
               <<"Apply", "plugin">>, <<"Ensure", "activation">> >>]

Tasks == [mcp |-> McpTasks, rhokp |-> RhokpTasks, otel |-> OtelTasks,
          postgres |-> PostgresTasks, appserver |-> AppServerTasks,
          alertsadapter |-> AlertsAdapterTasks, console |-> ConsoleTasks,
          agenticconsole |-> ConsoleTasks]

ASSUME OperandsChoice == Operands \subseteq DOMAIN Tasks
ASSUME ListLengths ==
    \A o \in Operands : Len(Tasks[o].res) <= 6 /\ Len(Tasks[o].dep) <= 6

\* Owns() registers the kinds of these objects only: an event of a NetworkPolicy, a
\* RoleBinding or the Console queues nothing.
OwnedKinds == {"cm", "sa", "secret", "exporter", "svc",
               "dep", "role", "binding", "sm", "rule", "plugin"}

\* What the generated Deployments record in their annotations: the resource
\* versions of the ConfigMap (cm) and of the serving certificate (tls). Generation
\* fails when a required one is missing. The update compares the ConfigMap's with
\* the ConfigMap as it finds it (live) or with the one just generated.
McpDeployment == [stamps |-> {"cm", "tls"}, required |-> {"cm", "tls"}, live |-> FALSE]
RhokpDeployment == [stamps |-> {"tls"}, required |-> {"tls"}, live |-> FALSE]
OtelDeployment == [stamps |-> {"cm"}, required |-> {"cm"}, live |-> TRUE]
PostgresDeployment == [stamps |-> {"cm"}, required |-> {}, live |-> TRUE]
AppServerDeployment == [stamps |-> {"cm"}, required |-> {}, live |-> TRUE]
AlertsAdapterDeployment == [stamps |-> {}, required |-> {}, live |-> FALSE]
ConsoleDeployment == [stamps |-> {}, required |-> {}, live |-> FALSE]

Deployments == [mcp |-> McpDeployment, rhokp |-> RhokpDeployment,
                otel |-> OtelDeployment, postgres |-> PostgresDeployment,
                appserver |-> AppServerDeployment,
                alertsadapter |-> AlertsAdapterDeployment,
                console |-> ConsoleDeployment, agenticconsole |-> ConsoleDeployment]

\* The ConfigMaps as functions of the version of the CR's configuration (or of the
\* cluster's TLS profile): some do not depend on it. That of the application server
\* is a function of it while no CA ConfigMap has several certificates, see
\* AppServerConfig.
McpConfigMap(cfg) == cfg
OtelCollectorConfigMap(cfg) == cfg
OLSConfigMap(cfg) == cfg
PostgresConfigMap(cfg) == 1
ConsoleConfigMap(cfg) == 1

----------------------------------------------------------------------------
VARIABLES
    operand,  \* the operand of this behaviour
    want,     \* the CR: version of the configuration, version of the pod spec
    obj,      \* the objects in the API server
    cached,   \* the objects in the informer caches
    queued,   \* the CR's key is in the work queue
    phase,    \* of the worker: idle, res, dep
    tasks,    \* tasks left in the phase
    read,     \* the CR as the worker read it
    failed,   \* a task of Phase 1 failed
    stamp,    \* the stamps of the Deployment the worker generated
    pods,     \* template, configuration and certificate the pods started with
    budget    \* what is left of the bounds

vars == <<operand, want, obj, cached, queued, phase, tasks, read, failed, stamp,
          pods, budget>>
workerVars == <<phase, tasks, read, failed, stamp>>

NoStamp == [cm |-> 0, tls |-> 0]
NoObject == [there |-> FALSE, data |-> 0, rv |-> 0, stamp |-> NoStamp, template |-> 0]
NotGenerated == [cm |-> 0, tls |-> 0, made |-> FALSE]

\* Versions of the CR count from 1; 0 is the data of somebody else.
Data == 0..(MaxEdits + 1)
Versions == [cfg : Data, pod : Data]
Rvs == IF RvModulus = 0 THEN Nat ELSE 0..RvModulus
StampRecord == [cm : Rvs, tls : Rvs]
Object == [there : BOOLEAN, data : Data, rv : Rvs, stamp : StampRecord, template : Rvs]
Budgets == {"edit", "tamper", "rotation", "fault", "crash"}
FullBudget == [edit |-> MaxEdits, tamper |-> MaxTampers, rotation |-> MaxRotations,
               fault |-> MaxFaults, crash |-> MaxCrashes]

Listed(list) == {list[i][2] : i \in DOMAIN list}
\* The Deployment and the Secret of service-ca are always kept.
Objects == Modelled \cup {"dep", "tls"}

\* Every variable stays within its type; no object carries a version that the CR
\* never had.
TypeOK ==
    /\ operand \in Operands
    /\ want \in Versions /\ read \in Versions
    /\ obj \in [Objects -> Object] /\ cached \in [Objects -> Object]
    /\ queued \in BOOLEAN /\ failed \in BOOLEAN
    /\ phase \in {"idle", "res", "dep"}
    /\ \A i \in DOMAIN tasks : tasks[i][2] \in Objects
    /\ stamp \in [cm : Rvs, tls : Rvs, made : BOOLEAN]
    /\ pods \in [template : Rvs, cfg : Data, cert : Rvs]
    /\ budget \in [Budgets -> Nat]

\* An upgrade: the objects of the operand are absent, but for the legacy one.
Init ==
    /\ operand \in Operands
    /\ want = [cfg |-> 1, pod |-> 1]
    /\ obj = [x \in Objects |-> IF x = "legacy"
                THEN [NoObject EXCEPT !.there = TRUE, !.rv = 1] ELSE NoObject]
    /\ cached = obj
    /\ queued = TRUE
    /\ phase = "idle" /\ tasks = <<>> /\ failed = FALSE
    /\ read = [cfg |-> 0, pod |-> 0]
    /\ stamp = NotGenerated
    /\ pods = [template |-> 0, cfg |-> 0, cert |-> 0]
    /\ budget = FullBudget

\* The operand's Deployment records the version of x.
Stamps(x) == x \in Deployments[operand].stamps \cap Objects

Spend(b) ==
    /\ budget[b] > 0
    /\ \A c \in Budgets \ {b} : {b, c} \in Meet \/ budget[c] = FullBudget[c]
    /\ budget' = [budget EXCEPT ![b] = @ - 1]

NextRv(v) == IF RvModulus = 0 THEN v + 1 ELSE (v % RvModulus) + 1

\* Mutant: the version is counted up before it is used.
DataForNext(v, x) == IF x = "dep" THEN v.pod + 1 ELSE v.cfg + 1

\* The data generated for an object from a CR: the pod spec for the Deployment,
\* the generated ConfigMap, and always the same for every other object.
DataFor(v, x) ==
    IF x = "dep" THEN v.pod
    ELSE IF x # "cm" THEN 1
    ELSE CASE operand = "mcp" -> McpConfigMap(v.cfg)
           [] operand = "otel" -> OtelCollectorConfigMap(v.cfg)
           [] operand = "appserver" -> OLSConfigMap(v.cfg)
           [] operand = "postgres" -> PostgresConfigMap(v.cfg)
           [] OTHER -> ConsoleConfigMap(v.cfg)

Desired(x) == DataFor(read, x)

----------------------------------------------------------------------------
(* The worker.                                                             *)

\* The tasks of a list that work on objects that are kept. No list is longer than six.
TaskAt(list, i) ==
    IF i \in DOMAIN list /\ list[i][2] \in Objects THEN <<list[i]>> ELSE <<>>
Kept(list) == TaskAt(list, 1) \o TaskAt(list, 2) \o TaskAt(list, 3)
              \o TaskAt(list, 4) \o TaskAt(list, 5) \o TaskAt(list, 6)

StartReconcile ==
    /\ phase = "idle" /\ queued
    /\ queued' = FALSE
    /\ phase' = "res"
    /\ tasks' = Kept(Tasks[operand].res)
    /\ read' = want
    /\ failed' = FALSE
    /\ UNCHANGED <<operand, want, obj, cached, stamp, pods, budget>>

\* The first task of the list is t; it ends well, or it fails: Phase 1 goes on
\* to the next task, Phase 2 ends and the key is queued again.
Current(kind, x) == tasks # <<>> /\ Head(tasks) = <<kind, x>>

Done ==
    /\ tasks' = Tail(tasks)
    /\ UNCHANGED <<queued, phase, failed>>

Failed ==
    \/ /\ phase = "res"
       /\ tasks' = Tail(tasks) /\ failed' = TRUE
       /\ UNCHANGED <<queued, phase>>
    \/ /\ phase = "dep"
       /\ tasks' = <<>> /\ phase' = "idle" /\ queued' = TRUE
       /\ UNCHANGED failed

\* A write that the API server accepts, with the object's next version.
Write(x, new) ==
    obj' = [obj EXCEPT ![x] = [new EXCEPT !.there = TRUE, !.rv = NextRv(obj[x].rv)]]

Create(x) ==
    IF obj[x].there THEN Failed /\ UNCHANGED obj
    ELSE Write(x, [NoObject EXCEPT !.data = Desired(x)]) /\ Done

\* An Update carries the version the cache had.
Update(x) ==
    IF cached[x].rv = obj[x].rv /\ obj[x].there
    THEN Write(x, [cached[x] EXCEPT !.data = Desired(x)]) /\ Done
    ELSE Failed /\ UNCHANGED obj

Settle(x) ==
    IF cached[x].data = Desired(x) THEN Done /\ UNCHANGED obj ELSE Update(x)

\* Mutant: an object that exists is left as it is.
ApplyOnce(x) ==
    /\ Current("Apply", x)
    /\ IF cached[x].there THEN Done /\ UNCHANGED obj ELSE Create(x)
    /\ UNCHANGED <<operand, want, cached, read, stamp, pods, budget>>

\* Get, then Create when it is not found, or Update when it differs.
Apply(x) ==
    /\ Current("Apply", x)
    /\ IF cached[x].there THEN Settle(x) ELSE Create(x)
    /\ UNCHANGED <<operand, want, cached, read, stamp, pods, budget>>

\* The application server updates its Service without a resource version.
Overwrite(x) ==
    /\ Current("Overwrite", x)
    /\ IF ~cached[x].there THEN Create(x)
       ELSE IF cached[x].data = Desired(x) THEN Done /\ UNCHANGED obj
       ELSE IF obj[x].there THEN Write(x, [NoObject EXCEPT !.data = Desired(x)]) /\ Done
       ELSE Failed /\ UNCHANGED obj
    /\ UNCHANGED <<operand, want, cached, read, stamp, pods, budget>>

Ensure(x) ==
    /\ Current("Ensure", x)
    /\ IF cached[x].there THEN Done /\ UNCHANGED obj ELSE Create(x)
    /\ UNCHANGED <<operand, want, cached, read, stamp, pods, budget>>

Delete(x) ==
    /\ Current("Delete", x)
    /\ obj' = IF cached[x].there /\ obj[x].there
              THEN [obj EXCEPT ![x] = [NoObject EXCEPT !.rv = NextRv(obj[x].rv)]]
              ELSE obj
    /\ Done
    /\ UNCHANGED <<operand, want, cached, read, stamp, pods, budget>>

\* Mutant: the time-out of the poll is not an error.
WaitUnchecked(x) ==
    /\ Current("Wait", x)
    /\ Done
    /\ UNCHANGED <<operand, want, obj, cached, read, stamp, pods, budget>>

\* WaitForConsolePluginTLSSecret polls the cache; it gives up after a while.
Wait(x) ==
    /\ Current("Wait", x)
    /\ IF cached[x].there THEN Done ELSE Failed
    /\ UNCHANGED <<operand, want, obj, cached, read, stamp, pods, budget>>

\* ReconcileTLSSecret of the application server also writes back, unchanged, the
\* Secret it found: a stale copy is refused, an equal one makes no new version.
WaitAndTouch(x) ==
    /\ Current("WaitAndTouch", x)
    /\ IF cached[x].there /\ cached[x].rv = obj[x].rv THEN Done ELSE Failed
    /\ UNCHANGED <<operand, want, obj, cached, read, stamp, pods, budget>>

\* An API error ends any task.
TaskFails ==
    /\ tasks # <<>>
    /\ Spend("fault")
    /\ Failed
    /\ stamp' = NotGenerated
    /\ UNCHANGED <<operand, want, obj, cached, read, pods>>

\* The version of an object to record, as the cache has it.
FoundVersion(x) ==
    IF Stamps(x) /\ cached[x].there THEN cached[x].rv ELSE 0

\* Generating the Deployment looks the resource versions up in the caches.
GenerateDeployment ==
    /\ Current("Deploy", "dep") /\ ~stamp.made
    /\ IF \E x \in Deployments[operand].required \cap Objects : ~cached[x].there
       THEN Failed /\ UNCHANGED stamp
       ELSE /\ stamp' = [cm |-> FoundVersion("cm"), tls |-> FoundVersion("tls"),
                         made |-> TRUE]
            /\ UNCHANGED <<queued, phase, tasks, failed>>
    /\ UNCHANGED <<operand, want, obj, cached, read, pods, budget>>

\* Mutant: only the pod spec is compared.
OutOfDateSpecOnly(d) == d.data # read.pod

\* The checks of the update functions on the Deployment found in the cache.
OutOfDate(d) ==
    \/ d.data # read.pod
    \/ Stamps("tls") /\ d.stamp.tls # stamp.tls
    \/ Stamps("cm") /\ IF Deployments[operand].live
                       THEN ~cached["cm"].there \/ d.stamp.cm # cached["cm"].rv
                       ELSE d.stamp.cm # stamp.cm

GeneratedStamp == [cm |-> stamp.cm, tls |-> stamp.tls]

\* Mutant: the update of the RHOKP Deployment keeps the stamps that were found.
RolledKeepingStamp(d) ==
    [d EXCEPT !.data = read.pod, !.template = NextRv(obj["dep"].rv),
              !.stamp = IF operand = "rhokp" THEN @ ELSE GeneratedStamp]

\* Mutant: the stamps are written without a new pod template.
RolledInPlace(d) == [d EXCEPT !.data = read.pod, !.stamp = GeneratedStamp]

\* The Deployment with the generated spec and stamps, and a force-reload
\* annotation that starts new pods.
Rolled(d) ==
    [d EXCEPT !.data = read.pod, !.stamp = GeneratedStamp,
              !.template = NextRv(obj["dep"].rv)]

\* Create, or compare and Update with the version found in the cache.
Deploy ==
    /\ Current("Deploy", "dep") /\ stamp.made
    /\ stamp' = NotGenerated
    /\ LET d == cached["dep"]
       IN  IF ~d.there
           THEN IF obj["dep"].there THEN Failed /\ UNCHANGED obj
                ELSE Write("dep", Rolled(NoObject)) /\ Done
           ELSE IF ~OutOfDate(d) THEN Done /\ UNCHANGED obj
           ELSE IF obj["dep"].there /\ d.rv = obj["dep"].rv
                THEN Write("dep", Rolled(d)) /\ Done
                ELSE Failed /\ UNCHANGED obj
    /\ UNCHANGED <<operand, want, cached, read, pods, budget>>

\* The end of a phase: a failure in Phase 1 keeps Phase 2 from starting; after
\* Phase 2 the status is not Ready while the Deployment is seen to progress.
EndPhase ==
    /\ tasks = <<>>
    /\ \/ /\ phase = "res" /\ ~failed
          /\ phase' = "dep" /\ tasks' = Kept(Tasks[operand].dep)
          /\ UNCHANGED queued
       \/ /\ phase = "res" /\ failed
          /\ phase' = "idle" /\ queued' = TRUE
          /\ UNCHANGED tasks
       \/ /\ phase = "dep"
          /\ phase' = "idle"
          /\ \/ UNCHANGED queued
             \/ pods.template # obj["dep"].template /\ queued' = TRUE
          /\ UNCHANGED tasks
    /\ UNCHANGED <<operand, want, obj, cached, read, failed, stamp, pods, budget>>

----------------------------------------------------------------------------
(* The environment.                                                        *)

EditCR ==
    /\ Spend("edit")
    /\ want' \in {[want EXCEPT !.cfg = @ + 1], [want EXCEPT !.pod = @ + 1]}
    /\ queued' = TRUE
    /\ UNCHANGED <<operand, obj, cached, workerVars, pods>>

\* Somebody edits or deletes an object of the operand.
Tamper(x) ==
    /\ obj[x].there /\ x \notin {"tls", "legacy"}
    /\ Spend("tamper")
    /\ \/ Write(x, [obj[x] EXCEPT !.data = 0,
                       !.template = IF x = "dep" THEN NextRv(obj[x].rv) ELSE @])
       \/ obj' = [obj EXCEPT ![x] = [NoObject EXCEPT !.rv = NextRv(obj[x].rv)]]
    /\ UNCHANGED <<operand, want, cached, queued, workerVars, pods>>

\* service-ca makes the Secret once the Service is there, and renews it.
IssueCert ==
    /\ ~obj["tls"].there
    /\ "svc" \in Objects => obj["svc"].there
    /\ Write("tls", NoObject)
    /\ UNCHANGED <<operand, want, cached, queued, workerVars, pods, budget>>

RotateCert ==
    /\ obj["tls"].there
    /\ Spend("rotation")
    /\ Write("tls", obj["tls"])
    /\ UNCHANGED <<operand, want, cached, queued, workerVars, pods>>

\* An informer catches up with an object.
Sync(x) ==
    /\ cached[x] # obj[x]
    /\ cached' = [cached EXCEPT ![x] = obj[x]]
    /\ queued' = (queued \/ x \in OwnedKinds)
    /\ UNCHANGED <<operand, want, obj, workerVars, pods, budget>>

\* A resync of the CR, or an event of another operand.
OtherEvent ==
    /\ ~queued
    /\ queued' = TRUE
    /\ UNCHANGED <<operand, want, obj, cached, workerVars, pods, budget>>

\* The pods of a new template start, once the volumes they mount are there: the
\* alerts adapter has no certificate.
RollPods ==
    /\ obj["dep"].there /\ pods.template # obj["dep"].template
    /\ operand # "alertsadapter" => obj["tls"].there
    /\ "cm" \in Objects \cap Listed(Tasks[operand].res) => obj["cm"].there
    /\ pods' = [template |-> obj["dep"].template,
                cfg |-> IF "cm" \in Objects THEN obj["cm"].data ELSE 0,
                cert |-> obj["tls"].rv]
    /\ UNCHANGED <<operand, want, obj, cached, queued, workerVars, budget>>

Crash ==
    /\ Spend("crash")
    /\ phase' = "idle" /\ tasks' = <<>> /\ failed' = FALSE
    /\ read' = [cfg |-> 0, pod |-> 0] /\ stamp' = NotGenerated
    /\ cached' = obj /\ queued' = TRUE
    /\ UNCHANGED <<operand, want, obj, pods>>

Worker ==
    \/ StartReconcile \/ TaskFails \/ GenerateDeployment \/ Deploy \/ EndPhase
    \/ \E x \in Objects : \/ Apply(x) \/ Overwrite(x) \/ Ensure(x) \/ Delete(x)
                          \/ Wait(x) \/ WaitAndTouch(x)

Next ==
    \/ Worker \/ EditCR \/ IssueCert \/ RotateCert \/ OtherEvent \/ RollPods \/ Crash
    \/ \E x \in Objects : Tamper(x) \/ Sync(x)

Spec == Init /\ [][Next]_vars

\* The worker, the informers, service-ca and the Deployment controller go on.
Fairness ==
    /\ WF_vars(Worker) /\ WF_vars(IssueCert) /\ WF_vars(RollPods)
    /\ \A x \in Objects : WF_vars(Sync(x))

FairSpec == Spec /\ Fairness

----------------------------------------------------------------------------
(* Properties.                                                             *)

\* The pod template's pods are never older than what the Deployment's stamps
\* say: pods of the current template run the ConfigMap, and hold the certificate,
\* whose current version the stamps record, although the stamps are looked up in
\* caches that lag behind the objects the pods mount. So a stamp that is up to
\* date really means that no restart is due.
StampCoversPods ==
    obj["dep"].there /\ pods.template = obj["dep"].template =>
        /\ Stamps("cm") /\ obj["cm"].there
              /\ obj["dep"].stamp.cm = obj["cm"].rv
           => pods.cfg = obj["cm"].data
        /\ Stamps("tls") /\ obj["dep"].stamp.tls = obj["tls"].rv
           => pods.cert = obj["tls"].rv

\* The MCP server, RHOKP and the OTEL Collector are not deployed before their
\* serving certificate exists: the poll of the Secret comes before the Deployment
\* in their task lists, and its time-out ends the phase.
DeploymentAfterCert ==
    operand \in {"mcp", "rhokp", "otel"} /\ obj["dep"].there => obj["tls"].there

\* The objects of the operand's tasks of the given kinds.
Objs(kinds) ==
    LET all == Tasks[operand].res \o Tasks[operand].dep
    IN  {all[i][2] : i \in {j \in DOMAIN all : all[j][1] \in kinds}} \cap Objects

\* In the end the pods run the pod spec of the CR, the configuration made from it, where
\* a task keeps that up to date, and the certificate where it is stamped, whatever was
\* edited, deleted or rotated meanwhile, if the informer of the CR goes on handing it
\* over: the event of a renewed certificate queues nothing.
PodsFollowCR ==
    WF_vars(OtherEvent) =>
    <>[]( /\ obj["dep"].there /\ obj["dep"].data = want.pod
          /\ pods.template = obj["dep"].template
          /\ Stamps("cm") /\ "cm" \in Objs({"Apply"}) => pods.cfg = DataFor(want, "cm")
          /\ Stamps("tls") => pods.cert = obj["tls"].rv )

\* The operator stops restarting the pods: its own writes, which queue the key
\* again, do not keep it rolling the Deployment.
NoRestartLoop == <>[][obj'["dep"] = obj["dep"]]_vars

\* An owned object that somebody edits or deletes, or that is half way written
\* when the operator fails, ends up as its task leaves it: what is applied has the
\* data the CR asks for, what is only ensured exists, a legacy object is gone. The
\* content of what is only ensured is ManagedConfigRestored's.
TasksTakeEffect ==
    <>[]( /\ \A x \in Objs({"Apply", "Overwrite"}) \cap OwnedKinds :
                obj[x].there /\ obj[x].data = DataFor(want, x)
          /\ \A x \in Objs({"Ensure"}) \cap OwnedKinds : obj[x].there
          /\ \A x \in Objs({"Delete"}) : ~obj[x].there )

\* .ai/spec/what/resource-lifecycle.md, rule 5: "Owned resource changes (e.g., someone
\* manually edits a managed ConfigMap) trigger reconciliation, and the operator
\* overwrites them with the desired state". The ConfigMap of the database is only
\* ensured to exist: an edited one stays.
ManagedConfigRestored ==
    <>[]( "cm" \in Objs({"Apply", "Ensure"}) =>
            obj["cm"].there /\ obj["cm"].data = DataFor(want, "cm") )

=============================================================================
