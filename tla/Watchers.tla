------------------------------- MODULE Watchers -------------------------------
(***************************************************************************)
(* External Secrets and ConfigMaps (internal/controller/watchers, and      *)
(* annotateExternalResources in olsconfig_helpers.go): the reconcile       *)
(* worker annotates the resources the CR names and rebuilds the map from   *)
(* resource to Deployments, while the informers' handlers, on their own    *)
(* goroutines, read that map and restart Deployments when data changes.    *)
(*                                                                         *)
(* Data is a version number; loaded[r][d] is the version of resource r     *)
(* that the pods of Deployment d started with.                             *)
(***************************************************************************)
EXTENDS Naturals, Sequences, FiniteSets

CONSTANTS
    Resources,       \* the external resources
    Source(_),       \* what a resource is to the CR or to the operator
    MaxWrites,       \* bound: data versions written to resources
    MaxDeletes,      \* bound: deletions of resources
    MaxTouches,      \* bound: metadata writes by other controllers
    MaxEdits,        \* bound: edits of the CR
    MaxFaults,       \* bound: API errors met by the worker
    MaxLostRestarts, \* bound: API errors and conflicts met by restarts
    MaxCrashes       \* bound: crashes of the operator

Sources == {"llm", "tls", "additional-ca", "alerts-adapter", "system", "gated"}
Deployments == {"appserver", "console", "alertsadapter", "postgres", "mcp"}

ASSUME SourceAssumption == \A r \in Resources : Source(r) \in Sources
ASSUME WatcherBounds ==
    /\ MaxWrites \in Nat \ {0} /\ MaxDeletes \in Nat /\ MaxTouches \in Nat
    /\ MaxEdits \in Nat /\ MaxFaults \in Nat
    /\ MaxLostRestarts \in Nat /\ MaxCrashes \in Nat

\* WatcherConfig lists the system resources statically, with the Deployments
\* they affect; "gated" stands for openshift-mcp-server-tls.
SystemResources == {r \in Resources : Source(r) \in {"system", "gated"}}
UserResources == Resources \ SystemResources

SystemAffected(r) ==
    IF Source(r) = "gated" THEN {"mcp", "appserver"} ELSE {"postgres", "appserver"}

\* Mutant: a volume's name is entered in place of a Deployment's.
MappedVolumes(r) == IF Source(r) = "tls" THEN {"secret-lightspeed-tls"} ELSE {}

\* The entry annotateExternalResources makes for a user resource, if any.
MappedDeployments(r) ==
    CASE Source(r) = "tls" -> {"console", "appserver"}
      [] Source(r) = "alerts-adapter" -> {"alertsadapter"}
      [] OTHER -> {}

DefaultDeployments == {"appserver"}

\* The Deployments whose pods read a resource.
Users(r) ==
    IF r \in SystemResources THEN SystemAffected(r)
    ELSE IF MappedDeployments(r) # {} THEN MappedDeployments(r)
    ELSE DefaultDeployments

VARIABLES
    obj,          \* the resources in the API server; data 0: absent
    events,       \* per resource, what its informer still has to hand over
    version,      \* the last data version written
    refs,         \* the user resources the CR names
    introspection,\* the CR field that gates the gated resources
    queued,       \* the CR's key is in the work queue
    pc,           \* where the worker is
    recRefs,      \* refs and introspection as the worker read them
    recIntrospection,
    todo,         \* resources still to annotate
    errs,         \* an annotation failed
    mapping,      \* AnnotatedSecretMapping and AnnotatedConfigMapMapping
    watchEnabled, \* OpenShiftMCPServerTLSWatchEnabled
    mounted,      \* the resources the Deployments mount
    loaded,       \* the version each Deployment's pods have read
    budget        \* what is left of the bounds

vars == <<obj, events, version, refs, introspection, queued, pc, recRefs,
          recIntrospection, todo, errs, mapping, watchEnabled, mounted, loaded,
          budget>>
workerVars == <<pc, recRefs, recIntrospection, todo, errs>>
crVars == <<refs, introspection>>

Events == [type : {"create", "update"}, changed : BOOLEAN,
           annotated : BOOLEAN, rv : Nat]
Budgets == {"delete", "touch", "edit", "fault", "restart", "crash"}

\* Every variable stays within its type.
TypeOK ==
    /\ obj \in [Resources -> [data : Nat, annotated : BOOLEAN, rv : Nat]]
    /\ events \in [Resources -> Seq(Events)]
    /\ version \in 0..MaxWrites
    /\ refs \subseteq UserResources
    /\ introspection \in BOOLEAN /\ queued \in BOOLEAN /\ errs \in BOOLEAN
    /\ pc \in {"idle", "annotate", "phases"}
    /\ recRefs \subseteq UserResources /\ todo \subseteq recRefs
    /\ recIntrospection \in BOOLEAN /\ watchEnabled \in BOOLEAN
    /\ mapping \in [UserResources -> SUBSET Deployments]
    /\ mounted \subseteq Resources
    /\ loaded \in [Resources -> [Deployments -> Nat]]
    /\ budget \in [Budgets -> Nat]

NoMapping == [r \in UserResources |-> {}]

\* The operator starts on a cluster where every resource exists with data 1;
\* the pods of the system resources' Deployments have read it.
Init ==
    /\ obj = [r \in Resources |-> [data |-> 1, annotated |-> FALSE, rv |-> 1]]
    /\ events = [r \in Resources |-> <<>>]
    /\ version = 1
    /\ refs = UserResources
    /\ introspection = TRUE
    /\ queued = TRUE
    /\ pc = "idle"
    /\ recRefs = {} /\ recIntrospection = FALSE /\ todo = {} /\ errs = FALSE
    /\ mapping = NoMapping
    /\ watchEnabled = FALSE
    /\ mounted = SystemResources
    /\ loaded = [r \in Resources |-> [d \in Deployments |->
                    IF r \in SystemResources THEN 1 ELSE 0]]
    /\ budget = [delete |-> MaxDeletes, touch |-> MaxTouches, edit |-> MaxEdits,
                 fault |-> MaxFaults, restart |-> MaxLostRestarts, crash |-> MaxCrashes]

Spend(b) == budget[b] > 0 /\ budget' = [budget EXCEPT ![b] = @ - 1]

----------------------------------------------------------------------------
(* Writers of the resources, and of the CR.                                *)

\* A write makes a new version of the object and an event for the informer.
Store(r, new, type, changed) ==
    /\ obj' = [obj EXCEPT ![r] = new]
    /\ events' = [events EXCEPT ![r] = Append(@,
          [type |-> type, changed |-> changed,
           annotated |-> new.annotated, rv |-> new.rv])]

\* Pods that were waiting for a missing resource start once it is there.
StartPending(r, data) ==
    loaded' = [loaded EXCEPT ![r] = [d \in Deployments |->
                  IF r \in mounted /\ d \in Users(r) /\ @[d] = 0 THEN data ELSE @[d]]]

WriteData(r) ==
    /\ version < MaxWrites
    /\ version' = version + 1
    /\ \/ /\ obj[r].data # 0
          /\ Store(r, [obj[r] EXCEPT !.data = version + 1, !.rv = @ + 1],
                   "update", TRUE)
          /\ UNCHANGED loaded
       \/ /\ obj[r].data = 0
          /\ Store(r, [data |-> version + 1, annotated |-> FALSE,
                       rv |-> obj[r].rv + 1], "create", TRUE)
          /\ StartPending(r, version + 1)
    /\ UNCHANGED <<crVars, queued, workerVars, mapping, watchEnabled, mounted, budget>>

\* Delete events are ignored by the predicates.
DeleteResource(r) ==
    /\ obj[r].data # 0
    /\ Spend("delete")
    /\ obj' = [obj EXCEPT ![r] = [data |-> 0, annotated |-> FALSE, rv |-> @.rv + 1]]
    /\ UNCHANGED <<events, version, crVars, queued, workerVars, mapping,
                   watchEnabled, mounted, loaded>>

\* Somebody else changes labels or annotations.
Touch(r) ==
    /\ obj[r].data # 0
    /\ Spend("touch")
    /\ Store(r, [obj[r] EXCEPT !.rv = @ + 1], "update", FALSE)
    /\ UNCHANGED <<version, crVars, queued, workerVars, mapping, watchEnabled,
                   mounted, loaded>>

EditCR ==
    /\ Spend("edit")
    /\ \/ /\ \E r \in UserResources :
                refs' = IF r \in refs THEN refs \ {r} ELSE refs \cup {r}
          /\ UNCHANGED introspection
       \/ introspection' = ~introspection /\ UNCHANGED refs
    /\ queued' = TRUE
    /\ UNCHANGED <<obj, events, version, workerVars, mapping, watchEnabled,
                   mounted, loaded>>

\* Any other event for the CR's key: an owned object, the TLS profile, a resync.
OtherEvent ==
    /\ ~queued
    /\ queued' = TRUE
    /\ UNCHANGED <<obj, events, version, crVars, workerVars, mapping, watchEnabled,
                   mounted, loaded, budget>>

----------------------------------------------------------------------------
(* The handlers.                                                           *)

IsSystemSecretWatchEnabled(r) == Source(r) = "gated" => watchEnabled

\* The predicate on Update events.
shouldWatch(r, e) ==
    \/ e.annotated
    \/ r \in SystemResources /\ IsSystemSecretWatchEnabled(r)

\* Mutant: a resource without an entry restarts nothing.
AffectedMappedOnly(r) == IF r \in SystemResources THEN SystemAffected(r) ELSE mapping[r]

\* The lookup of the two filters: the static list first, then the map, and
\* the application server when the map has no entry.
AffectedDeployments(r) ==
    IF r \in SystemResources
    THEN IF IsSystemSecretWatchEnabled(r) THEN SystemAffected(r) ELSE {}
    ELSE IF mapping[r] # {} THEN mapping[r] ELSE DefaultDeployments

\* The pods of the Deployments ds start afresh and read current data.
Reloaded(ds) ==
    [r \in Resources |-> [d \in Deployments |->
        IF r \in mounted /\ d \in ds \cap Users(r) THEN obj[r].data ELSE loaded[r][d]]]

\* restartDeployment tries every Deployment and only logs a failure; what it
\* did write comes back as an event of an owned object.
restartDeployment(ds) ==
    \E done \in SUBSET ds :
        /\ IF done = ds THEN UNCHANGED budget ELSE Spend("restart")
        /\ loaded' = Reloaded(done)
        /\ queued' = (queued \/ done # {})

\* SecretUpdateHandler.Create and ConfigMapUpdateHandler.Create: only for a
\* resource the CR names; the annotation is an Update of the version in the
\* event, and when it is refused the restart is skipped.
HandleCreate(r, e) ==
    \/ /\ r \notin refs
       /\ events' = [events EXCEPT ![r] = Tail(@)]
       /\ UNCHANGED <<obj, loaded, queued, budget>>
    \/ /\ r \in refs /\ e.annotated
       /\ events' = [events EXCEPT ![r] = Tail(@)]
       /\ restartDeployment(AffectedDeployments(r))
       /\ UNCHANGED obj
    \/ /\ r \in refs /\ ~e.annotated /\ obj[r].data # 0 /\ obj[r].rv = e.rv
       /\ obj' = [obj EXCEPT ![r].annotated = TRUE, ![r].rv = @ + 1]
       /\ events' = [events EXCEPT ![r] = Append(Tail(@),
             [type |-> "update", changed |-> FALSE, annotated |-> TRUE,
              rv |-> obj[r].rv + 1])]
       /\ restartDeployment(AffectedDeployments(r))
    \/ /\ r \in refs /\ ~e.annotated /\ (obj[r].data = 0 \/ obj[r].rv # e.rv)
       /\ events' = [events EXCEPT ![r] = Tail(@)]
       /\ UNCHANGED <<obj, loaded, queued, budget>>

\* The Update handlers restart when the data changed.
HandleUpdate(r, e) ==
    /\ events' = [events EXCEPT ![r] = Tail(@)]
    /\ \/ /\ shouldWatch(r, e) /\ e.changed
          /\ restartDeployment(AffectedDeployments(r))
       \/ /\ ~(shouldWatch(r, e) /\ e.changed)
          /\ UNCHANGED <<loaded, queued, budget>>
    /\ UNCHANGED obj

Handle(r) ==
    /\ events[r] # <<>>
    /\ LET e == Head(events[r])
       IN  \/ e.type = "create" /\ HandleCreate(r, e)
           \/ e.type = "update" /\ HandleUpdate(r, e)
    /\ UNCHANGED <<version, crVars, workerVars, mapping, watchEnabled, mounted>>

----------------------------------------------------------------------------
(* The reconcile worker.                                                   *)

\* ValidateLLMCredentials and ValidateTLSSecret come first; then both maps are
\* cleared, to be filled again resource by resource.
StartReconcile ==
    /\ pc = "idle" /\ queued
    /\ \/ /\ \E r \in refs : Source(r) \in {"llm", "tls"} /\ obj[r].data = 0
          /\ UNCHANGED <<queued, workerVars, mapping>>
       \/ /\ \A r \in refs : Source(r) \in {"llm", "tls"} => obj[r].data # 0
          /\ queued' = FALSE
          /\ pc' = "annotate"
          /\ recRefs' = refs /\ recIntrospection' = introspection
          /\ todo' = refs
          /\ errs' = FALSE
          /\ mapping' = NoMapping
    /\ UNCHANGED <<obj, events, version, crVars, watchEnabled, mounted, loaded, budget>>

\* Mutant: a resource that is already mounted is taken for annotated.
AnnotateOnce(r) ==
    /\ pc = "annotate" /\ r \in todo
    /\ todo' = todo \ {r}
    /\ mapping' = [mapping EXCEPT ![r] = MappedDeployments(r)]
    /\ \/ /\ obj[r].data = 0 \/ r \in mounted
          /\ UNCHANGED <<obj, events>>
       \/ /\ obj[r].data # 0 /\ r \notin mounted
          /\ Store(r, [obj[r] EXCEPT !.annotated = TRUE, !.rv = @ + 1], "update", FALSE)
    /\ UNCHANGED <<version, crVars, queued, pc, recRefs, recIntrospection, errs,
                   watchEnabled, mounted, loaded, budget>>

\* annotateSecretIfNeeded and annotateConfigMapIfNeeded, after the map entry: an
\* absent resource is no error, a failure is remembered and the loop goes on.
Annotate(r) ==
    /\ pc = "annotate" /\ r \in todo
    /\ todo' = todo \ {r}
    /\ mapping' = [mapping EXCEPT ![r] = MappedDeployments(r)]
    /\ \/ /\ obj[r].data = 0 \/ obj[r].annotated
          /\ UNCHANGED <<obj, events, errs, budget>>
       \/ /\ obj[r].data # 0 /\ ~obj[r].annotated
          /\ Store(r, [obj[r] EXCEPT !.annotated = TRUE, !.rv = @ + 1], "update", FALSE)
          /\ UNCHANGED <<errs, budget>>
       \/ /\ obj[r].data # 0 /\ ~obj[r].annotated
          /\ Spend("fault")
          /\ errs' = TRUE
          /\ UNCHANGED <<obj, events>>
    /\ UNCHANGED <<version, crVars, queued, pc, recRefs, recIntrospection,
                   watchEnabled, mounted, loaded>>

\* Mutant: annotation errors do not end the reconciliation.
AnnotatedUnchecked ==
    /\ pc = "annotate" /\ todo = {}
    /\ pc' = "phases"
    /\ watchEnabled' = recIntrospection
    /\ UNCHANGED <<obj, events, version, crVars, queued, recRefs, recIntrospection,
                   todo, errs, mapping, mounted, loaded, budget>>

\* Any failure ends the reconciliation, before the watch flags are updated.
Annotated ==
    /\ pc = "annotate" /\ todo = {}
    /\ \/ /\ errs
          /\ pc' = "idle" /\ queued' = TRUE
          /\ UNCHANGED watchEnabled
       \/ /\ ~errs
          /\ pc' = "phases"
          /\ watchEnabled' = recIntrospection
          /\ UNCHANGED queued
    /\ UNCHANGED <<obj, events, version, crVars, recRefs, recIntrospection, todo,
                   errs, mapping, mounted, loaded, budget>>

\* The two phases: a Deployment whose volumes changed is rolled out. The alerts
\* adapter mounts its ConfigMap only when it exists.
Rollout ==
    /\ pc = "phases"
    /\ pc' = "idle"
    /\ \/ /\ mounted' = SystemResources \cup
                {r \in recRefs : Source(r) = "alerts-adapter" => obj[r].data # 0}
          /\ LET moved == (mounted \ mounted') \cup (mounted' \ mounted)
                 rolled == UNION {Users(r) : r \in moved}
             IN  loaded' = [r \in Resources |-> [d \in Deployments |->
                    IF d \notin rolled \cap Users(r) THEN loaded[r][d]
                    ELSE IF r \in mounted' THEN obj[r].data ELSE 0]]
          /\ UNCHANGED <<queued, budget>>
       \/ /\ Spend("fault")
          /\ queued' = TRUE
          /\ UNCHANGED <<mounted, loaded>>
    /\ UNCHANGED <<obj, events, version, crVars, recRefs, recIntrospection, todo,
                   errs, mapping, watchEnabled>>

\* A new operator process: empty maps, the flag off, and a Create event for every
\* object that exists.
Crash ==
    /\ Spend("crash")
    /\ pc' = "idle" /\ recRefs' = {} /\ recIntrospection' = FALSE
    /\ todo' = {} /\ errs' = FALSE
    /\ mapping' = NoMapping
    /\ watchEnabled' = FALSE
    /\ queued' = TRUE
    /\ events' = [r \in Resources |->
          IF obj[r].data = 0 THEN <<>>
          ELSE <<[type |-> "create", changed |-> TRUE,
                  annotated |-> obj[r].annotated, rv |-> obj[r].rv]>>]
    /\ UNCHANGED <<obj, version, crVars, mounted, loaded>>

Worker ==
    \/ StartReconcile \/ Annotated \/ Rollout
    \/ \E r \in UserResources : Annotate(r)

Next ==
    \/ Worker \/ EditCR \/ OtherEvent \/ Crash
    \/ \E r \in Resources : WriteData(r) \/ DeleteResource(r) \/ Touch(r) \/ Handle(r)

Spec == Init /\ [][Next]_vars

\* The informers hand over every event; controller-runtime runs the worker.
Fairness == WF_vars(Worker) /\ \A r \in Resources : WF_vars(Handle(r))
FairSpec == Spec /\ Fairness

\* The informers also hand over every object again from time to time (resync),
\* and no predicate filters the events of the CR.
ResyncSpec == FairSpec /\ WF_vars(OtherEvent)

----------------------------------------------------------------------------
(* Properties.                                                             *)

\* As long as nobody deletes them, the resources the Deployments mount never change
\* unobserved: each carries the watcher annotation, also while the CR is edited, an
\* annotation is refused or the operator crashes. annotateExternalResources runs
\* before the phases, and ends the reconciliation on a failure, so that no pod starts
\* on a resource whose updates are filtered out.
MountedIsWatched ==
    budget["delete"] = MaxDeletes =>
        \A r \in mounted \cap UserResources : obj[r].annotated

\* The watch of a resource the CR names heals: whatever deletes, recreates or
\* touches it, and whichever Updates of the annotation are refused, it carries
\* the annotation in the end, for the Update predicate to let its events pass.
WatchHeals ==
    \A r \in UserResources :
        <>[](r \in refs /\ obj[r].data # 0) => <>[](obj[r].annotated)

\* Pods of d run on the data r has now.
UpToDate(r, d) == loaded[r][d] = obj[r].data

\* Changed data of a resource that is never deleted always reaches the application
\* server's pods unless a restart itself fails, whatever the worker does to the map
\* and the annotations meanwhile: a handler that finds the map cleared falls back to
\* this Deployment.
ChangeReachesAppServer ==
    \A r \in {x \in UserResources : "appserver" \in Users(x)} :
        [](obj[r].data # 0 /\ budget["restart"] = MaxLostRestarts) /\ <>[](r \in refs)
            => <>[](UpToDate(r, "appserver"))

=============================================================================
