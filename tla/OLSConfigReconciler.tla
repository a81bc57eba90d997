------------------------- MODULE OLSConfigReconciler -------------------------
(***************************************************************************)
(* The reconcile loop of the OpenShift Lightspeed operator                 *)
(* (internal/controller/olsconfig_controller.go): one worker that takes    *)
(* the key of the singleton OLSConfig CR from the work queue, reads the CR *)
(* from the informer cache, manages the finalizer, reconciles the operands *)
(* in two phases and writes the CR status; and, around it, the API server, *)
(* the user, the garbage collector and crashes of the operator.            *)
(*                                                                         *)
(* Every write of an API object and every read whose staleness matters is  *)
(* a step of its own; what an operand's own reconciler does inside a phase *)
(* is one step that creates the objects of that phase or fails part-way.   *)
(***************************************************************************)
EXTENDS Naturals, FiniteSets

CONSTANTS
    Operands,     \* the operands of this instance, a subset of AllOperands
    MaxUid,       \* bound: CRs created one after the other
    MaxGen,       \* bound: generation (spec edits + 1) of one CR
    MaxTrouble,   \* bound: edits, recreations, API errors, TLS waits, pod
                  \* failures and crashes of the operator altogether
    MaxBackoff    \* bound: cap of the rate limiter's failure counter

AllOperands == {"console", "postgres", "mcp", "rhokp", "agenticconsole",
                "alertsadapter", "otel", "appserver"}

ASSUME OperandsAssumption == Operands \subseteq AllOperands
ASSUME BoundsAssumption ==
    /\ MaxUid \in Nat /\ MaxGen \in Nat /\ MaxTrouble \in Nat
    /\ MaxBackoff \in Nat

----------------------------------------------------------------------------
(* The operands: what gates them, in which order they run, what they own.  *)

\* Operands that a CR field switches (introspectionEnabled, byokRAGOnly,
\* deployment.alertsAdapter.configMapRef).
SpecGated == Operands \cap {"mcp", "rhokp", "alertsadapter"}

\* Operands that run only when the operator was started with their image.
ImageGated == Operands \cap {"agenticconsole", "alertsadapter", "otel"}

\* Operands with a removal call in Phase 1 (none for the OTEL Collector).
Removable == Operands \cap {"mcp", "rhokp", "agenticconsole", "alertsadapter"}

\* The step lists of the two phases and of finalizeOLSConfig, in order.
Phase1Order == <<"console", "postgres", "mcp", "rhokp", "agenticconsole",
                 "alertsadapter", "otel", "appserver">>
Phase2Order == <<"console", "postgres", "mcp", "rhokp", "appserver", "otel",
                 "agenticconsole", "alertsadapter">>
FinalizeOrder == <<"console", "agenticconsole", "alertsadapter", "mcp", "rhokp">>

\* o is the next of the pending operands in a step list.
IsNext(order, pending, o) ==
    /\ o \in pending
    /\ \E i \in DOMAIN order :
          /\ order[i] = o
          /\ \A j \in 1..(i - 1) : order[j] \notin pending

\* An operand's objects fall into three groups: "res", the namespaced objects
\* of Phase 1; "dep", the Deployment with its Services of Phase 2; "cluster",
\* the objects that listOwnedResources does not list (ConsolePlugin,
\* ClusterRole, ClusterRoleBinding, ImageStream).
Kinds == {"res", "dep", "cluster"}
Objects == Operands \X Kinds
ListedKinds == {"res", "dep"}

Phase1Kinds(o) ==
    IF o \in {"appserver", "alertsadapter"} THEN {"res", "cluster"} ELSE {"res"}

Phase2Kinds(o) ==
    IF o \in {"console", "agenticconsole"} THEN {"dep", "cluster"} ELSE {"dep"}

\* What the removal call of an operand deletes: the two console operands only
\* deactivate the plugin and delete the ConsolePlugin.
RemoveKinds(o) ==
    IF o \in {"console", "agenticconsole"} THEN {"cluster"}
    ELSE IF o = "alertsadapter" THEN Kinds
    ELSE {"res", "dep"}

\* What a removal call that returns an error may have deleted: the alerts
\* adapter goes on after an error, the others stop at the first one, and the
\* Deployment comes first.
PartialRemovals(o) ==
    IF o = "alertsadapter" THEN SUBSET Kinds
    ELSE IF o \in {"console", "agenticconsole"} THEN {{}}
    ELSE {{}, {"dep"}}

----------------------------------------------------------------------------
(* The CR and its status.                                                  *)

Finalizer == "ols.openshift.io/finalizer"
Causes == {"restmapping", "other"}
Reasons == {"None", "Available", "Progressing", "Failed", "Disabled"}

\* conds[o] is the Reason of the operand's condition ("None": no such
\* condition); resourceReconciliation tells whether the status carries
\* ResourceReconciliation conditions; observed is their ObservedGeneration.
Status == [conds : [Operands -> Reasons],
           resourceReconciliation : BOOLEAN,
           overall : {"None", "Ready", "NotReady"},
           observed : Nat]

NoConds == [o \in Operands |-> "None"]
EmptyStatus == [conds |-> NoConds, resourceReconciliation |-> FALSE,
                overall |-> "None", observed |-> 0]

CR == [uid : Nat, generation : Nat, spec : SUBSET SpecGated,
       deletion : {"unset", "set"}, finalizers : SUBSET {Finalizer},
       status : Status]

\* uid 0 stands for "no such CR".
NoCR == [uid |-> 0, generation |-> 0, spec |-> {}, deletion |-> "unset",
         finalizers |-> {}, status |-> EmptyStatus]

VARIABLES
    cr,          \* the OLSConfig in the API server
    lastUid,     \* uid of the last CR created
    cache,       \* the OLSConfig as the informer cache has it
    queued,      \* the key is in the work queue
    backoff,     \* the rate limiter's failure count of the key
    pc,          \* where the worker is in Reconcile
    olsconfig,   \* the worker's copy of the CR
    todo,        \* operands the worker's current step list still has to visit
    failures,    \* operands whose Phase 1 tasks failed
    newStatus,   \* the status Phase 2 is building
    owner,       \* owner uid of every operand object, 0 when it is absent
    hidden,      \* objects of listed kinds that exist and no cache shows yet
    terminating, \* objects with a deletion timestamp
    health,      \* health of every operand's Deployment
    images,      \* image flags of the running operator process
    timedOut,    \* uids whose finalization gave up waiting
    overlooked,  \* objects that no cache showed when their CR's finalization looked
    trouble      \* trouble left

workerVars == <<pc, olsconfig, todo, failures, newStatus>>
clusterVars == <<owner, hidden, terminating, health>>
leftVars == <<timedOut, overlooked>>
vars == <<cr, lastUid, cache, queued, backoff, pc, olsconfig, todo, failures,
          newStatus, owner, hidden, terminating, health, images, timedOut,
          overlooked, trouble>>

PCs == {"idle", "addFinalizer", "preflight", "gates1", "phase1",
        "gates2", "phase2", "status",
        "remove", "wait", "refetch", "strip"}

\* Every variable stays within its type.
TypeOK ==
    /\ cr \in CR
    /\ lastUid \in Nat
    /\ cache \in CR
    /\ queued \in BOOLEAN
    /\ backoff \in Nat
    /\ pc \in PCs
    /\ olsconfig \in CR
    /\ todo \in SUBSET Operands
    /\ failures \in SUBSET Operands
    /\ newStatus \in Status
    /\ owner \in [Objects -> Nat]
    /\ hidden \in SUBSET Objects
    /\ terminating \in SUBSET Objects
    /\ health \in [Operands -> {"progressing", "available", "failing"}]
    /\ images \in SUBSET ImageGated
    /\ timedOut \in SUBSET Nat
    /\ overlooked \in SUBSET Objects
    /\ trouble \in Nat

Init ==
    /\ cr = NoCR
    /\ lastUid = 0
    /\ cache = NoCR
    /\ queued = FALSE
    /\ backoff = 0
    /\ pc = "idle"
    /\ olsconfig = NoCR
    /\ todo = {}
    /\ failures = {}
    /\ newStatus = EmptyStatus
    /\ owner = [x \in Objects |-> 0]
    /\ hidden = {}
    /\ terminating = {}
    /\ health = [o \in Operands |-> "progressing"]
    /\ images = ImageGated
    /\ timedOut = {}
    /\ overlooked = {}
    /\ trouble = MaxTrouble

----------------------------------------------------------------------------
(* Building blocks.                                                        *)

\* Something goes wrong, or the user intervenes.
Fault == trouble > 0 /\ trouble' = trouble - 1

\* An operand is reconciled when its CR field and its image allow it.
Enabled(o, spec) ==
    /\ o \in SpecGated => o \in spec
    /\ o \in ImageGated => o \in images

\* The status has a condition of the operand with another Reason than Disabled.
wasComponentEnabled(c, o) == c.status.conds[o] \notin {"None", "Disabled"}

ObjectsOf(o, kinds) == {x \in Objects : x[1] = o /\ x[2] \in kinds}
ListedOwnedBy(u) == {x \in Objects : x[2] \in ListedKinds /\ owner[x] = u}

\* Reconcile functions look an object up by name in the cache and create it,
\* owned by the CR at hand, when it is not there; one that is found keeps its
\* owner. What is new stays hidden until an informer delivers it; for the objects
\* that no list asks for, that lag is left out.
CreateObjects(o, kinds) ==
    LET missing == {x \in ObjectsOf(o, kinds) : owner[x] = 0}
    IN  /\ owner' = [x \in Objects |->
                        IF x \in missing THEN olsconfig.uid ELSE owner[x]]
        /\ hidden' = hidden \cup {x \in missing : x[2] \in ListedKinds}

\* The Create of an object that exists and is hidden is refused.
AlreadyExists(o, kinds) == ObjectsOf(o, kinds) \cap hidden # {}

\* Deleting an object that the cache shows sets its deletion timestamp.
DeleteObjects(S) ==
    terminating' = terminating \cup {x \in S : owner[x] # 0 /\ x \notin hidden}

\* listOwnedResources: the objects of the listed kinds that the caches show with
\* an owner reference to the CR.
listOwnedResources(u) == ListedOwnedBy(u) \ hidden

ForgetLocals ==
    /\ olsconfig' = NoCR
    /\ todo' = {}
    /\ failures' = {}
    /\ newStatus' = EmptyStatus

\* Reconcile returns a nil error: the rate limiter forgets the key.
ReturnNil ==
    /\ pc' = "idle"
    /\ backoff' = 0
    /\ ForgetLocals

\* Mutant: the error is logged and swallowed, so nothing queues the key again.
ReturnErrorSwallowed ==
    /\ pc' = "idle"
    /\ UNCHANGED <<backoff, queued>>
    /\ ForgetLocals

\* Reconcile returns an error: the key is queued again, rate limited.
ReturnError ==
    /\ pc' = "idle"
    /\ backoff' = IF backoff < MaxBackoff THEN backoff + 1 ELSE backoff
    /\ queued' = TRUE
    /\ ForgetLocals

----------------------------------------------------------------------------
(* Reconcile: reading the CR and the finalizer.                            *)

\* Mutant: the finalizer alone is taken for a request to finalize.
deletionRequestedByFinalizer(c) == c.deletion = "set" \/ Finalizer \in c.finalizers

deletionRequested(c) == c.deletion = "set"

\* getAndValidateCR and the case split of handleFinalizer.
StartReconcile ==
    /\ pc = "idle" /\ queued
    /\ queued' = FALSE
    /\ \/ /\ \/ cache.uid = 0
             \/ deletionRequested(cache) /\ Finalizer \notin cache.finalizers
          /\ ReturnNil
       \/ /\ cache.uid # 0
          /\ \/ /\ deletionRequested(cache) /\ Finalizer \in cache.finalizers
                /\ pc' = "remove"
                /\ todo' = Removable \cup (Operands \cap {"console"})
             \/ /\ ~deletionRequested(cache) /\ Finalizer \notin cache.finalizers
                /\ pc' = "addFinalizer"
                /\ UNCHANGED todo
             \/ /\ ~deletionRequested(cache) /\ Finalizer \in cache.finalizers
                /\ pc' = "preflight"
                /\ UNCHANGED todo
          /\ olsconfig' = cache
          /\ UNCHANGED <<failures, newStatus, backoff>>
    /\ UNCHANGED <<cr, lastUid, cache, clusterVars, images, leftVars, trouble>>

\* Mutant: the error of the Update is not checked, and Reconcile goes on.
AddFinalizerUnchecked ==
    /\ pc = "addFinalizer"
    /\ pc' = "preflight"
    /\ cr' = IF olsconfig = cr THEN [cr EXCEPT !.finalizers = @ \cup {Finalizer}]
             ELSE cr
    /\ UNCHANGED <<lastUid, cache, queued, backoff, olsconfig, todo, failures,
                   newStatus, clusterVars, images, leftVars, trouble>>

\* handleFinalizer adds the finalizer with an Update that is refused when the
\* copy is stale, and stops: the event of its own write brings it back.
AddFinalizer ==
    /\ pc = "addFinalizer"
    /\ \/ /\ olsconfig = cr
          /\ cr' = [cr EXCEPT !.finalizers = @ \cup {Finalizer}]
          /\ ReturnNil
          /\ UNCHANGED <<queued, trouble>>
       \/ /\ olsconfig # cr
          /\ ReturnError
          /\ UNCHANGED <<cr, trouble>>
       \/ /\ Fault
          /\ ReturnError
          /\ UNCHANGED cr
    /\ UNCHANGED <<lastUid, cache, clusterVars, images, leftVars>>

----------------------------------------------------------------------------
(* Reconcile: the two phases.                                              *)

\* reconcileOperatorResources and annotateExternalResources: both end the
\* reconciliation on an error. Phase 1 then opens with its removal calls.
Preflight ==
    /\ pc = "preflight"
    /\ \/ /\ pc' = "gates1"
          /\ todo' = {o \in Removable : /\ ~Enabled(o, olsconfig.spec)
                                        /\ wasComponentEnabled(olsconfig, o)}
          /\ UNCHANGED <<queued, backoff, olsconfig, failures, newStatus, trouble>>
       \/ /\ Fault
          /\ ReturnError
    /\ UNCHANGED <<cr, lastUid, cache, clusterVars, images, leftVars>>

\* The removal call of an operand that was enabled and is not any more.
RemoveDisabled(o) ==
    /\ pc = "gates1"
    /\ IsNext(Phase1Order, todo, o)
    /\ todo' = todo \ {o}
    /\ \/ /\ DeleteObjects(ObjectsOf(o, RemoveKinds(o)))
          /\ UNCHANGED <<failures, trouble>>
       \/ /\ Fault
          /\ \E gone \in PartialRemovals(o) : DeleteObjects(ObjectsOf(o, gone))
          /\ failures' = failures \cup {o}
    /\ UNCHANGED <<cr, lastUid, cache, queued, backoff, pc, olsconfig, newStatus,
                   owner, hidden, health, images, leftVars>>

EnterPhase1 ==
    /\ pc = "gates1" /\ todo = {}
    /\ pc' = "phase1"
    /\ todo' = {o \in Operands : Enabled(o, olsconfig.spec)}
    /\ UNCHANGED <<cr, lastUid, cache, queued, backoff, olsconfig, failures,
                   newStatus, clusterVars, images, leftVars, trouble>>

\* One resource step of Phase 1, which goes on after a failure.
ReconcileResources(o) ==
    /\ pc = "phase1"
    /\ IsNext(Phase1Order, todo, o)
    /\ todo' = todo \ {o}
    /\ \/ /\ CreateObjects(o, Phase1Kinds(o))
          /\ failures' = IF AlreadyExists(o, Phase1Kinds(o)) THEN failures \cup {o}
                         ELSE failures
          /\ UNCHANGED trouble
       \/ /\ Fault
          /\ \E made \in SUBSET Phase1Kinds(o) : CreateObjects(o, made)
          /\ failures' = failures \cup {o}
    /\ UNCHANGED <<cr, lastUid, cache, queued, backoff, pc, olsconfig, newStatus,
                   terminating, health, images, leftVars>>

\* Phase 2 starts from an empty status that is Ready, with a Disabled condition
\* for every operand that is off; the alerts adapter that is off by its CR field
\* but was enabled is first removed again.
EnterPhase2 ==
    /\ pc = "phase1" /\ todo = {} /\ failures = {}
    /\ pc' = "gates2"
    /\ todo' = {o \in Removable \cap {"alertsadapter"} :
                   /\ o \in images /\ o \notin olsconfig.spec
                   /\ wasComponentEnabled(olsconfig, o)}
    /\ newStatus' = [conds |-> [o \in Operands |->
                         IF ~Enabled(o, olsconfig.spec) /\ o \notin todo'
                         THEN "Disabled" ELSE "None"],
                     resourceReconciliation |-> FALSE,
                     overall |-> "Ready",
                     observed |-> olsconfig.generation]
    /\ UNCHANGED <<cr, lastUid, cache, queued, backoff, olsconfig, failures,
                   clusterVars, images, leftVars, trouble>>

\* The second removal call: when it fails, the operand gets no condition, and
\* the overall status stays as it is.
RemoveAlertsAdapterAgain(o) ==
    /\ pc = "gates2"
    /\ IsNext(Phase2Order, todo, o)
    /\ todo' = todo \ {o}
    /\ \/ /\ DeleteObjects(ObjectsOf(o, RemoveKinds(o)))
          /\ newStatus' = [newStatus EXCEPT !.conds[o] = "Disabled"]
          /\ UNCHANGED trouble
       \/ /\ Fault
          /\ \E gone \in PartialRemovals(o) : DeleteObjects(ObjectsOf(o, gone))
          /\ UNCHANGED newStatus
    /\ UNCHANGED <<cr, lastUid, cache, queued, backoff, pc, olsconfig, failures,
                   owner, hidden, health, images, leftVars>>

EnterDeployments ==
    /\ pc = "gates2" /\ todo = {}
    /\ pc' = "phase2"
    /\ todo' = {o \in Operands : Enabled(o, olsconfig.spec)}
    /\ UNCHANGED <<cr, lastUid, cache, queued, backoff, olsconfig, failures,
                   newStatus, clusterVars, images, leftVars, trouble>>

\* Mutant: the status string is used as the condition's Reason.
ConditionReasonRaw(h) == h

\* checkDeploymentStatus: the Reason of the condition for a Deployment's health.
ConditionReason(h) ==
    CASE h = "available" -> "Available"
      [] h = "progressing" -> "Progressing"
      [] h = "failing" -> "Failed"

WithCondition(s, o, reason) ==
    [s EXCEPT !.conds[o] = reason,
              !.overall = IF reason = "Available" THEN @ ELSE "NotReady"]

\* One deployment step of Phase 2, which also goes on after a failure: create
\* or update the operand's Deployment, then read its health.
ReconcileDeployment(o) ==
    /\ pc = "phase2"
    /\ IsNext(Phase2Order, todo, o)
    /\ todo' = todo \ {o}
    /\ \/ /\ ~AlreadyExists(o, Phase2Kinds(o))
          /\ CreateObjects(o, Phase2Kinds(o))
          /\ newStatus' = WithCondition(newStatus, o, ConditionReason(health[o]))
          /\ UNCHANGED trouble
       \/ /\ AlreadyExists(o, Phase2Kinds(o))
          /\ CreateObjects(o, {"dep"})
          /\ newStatus' = WithCondition(newStatus, o, "Failed")
          /\ UNCHANGED trouble
       \/ /\ Fault
          /\ \E made \in SUBSET Phase2Kinds(o) : CreateObjects(o, made)
          /\ newStatus' = WithCondition(newStatus, o, "Failed")
    /\ UNCHANGED <<cr, lastUid, cache, queued, backoff, pc, olsconfig, failures,
                   terminating, health, images, leftVars>>

\* The agentic handoff ConfigMap, after the last deployment step.
PublishHandoff ==
    /\ pc = "phase2" /\ todo = {}
    /\ pc' = "status"
    /\ \/ UNCHANGED <<newStatus, trouble>>
       \/ /\ Fault
          /\ newStatus' = [newStatus EXCEPT !.overall = "NotReady"]
    /\ UNCHANGED <<cr, lastUid, cache, queued, backoff, olsconfig, todo, failures,
                   clusterVars, images, leftVars>>

----------------------------------------------------------------------------
(* Reconcile: writing the status.                                          *)

\* Mutant: the status is stamped with the generation of the CR just read.
StatusStampedOnWrite(s) ==
    /\ cache.uid = 0 \/ cache = cr
    /\ cr' = IF cache.uid = 0 THEN cr
             ELSE [cr EXCEPT !.status = [s EXCEPT !.observed = cr.generation]]
    /\ UNCHANGED trouble

\* UpdateStatusCondition reads the CR from the cache and replaces its whole
\* status; the API server refuses a stale version, and RetryOnConflict reads the
\* cache again until it has caught up. A missing CR is no error.
StatusWritten(s) ==
    /\ cache.uid = 0 \/ cache = cr
    /\ cr' = IF cache.uid = 0 THEN cr ELSE [cr EXCEPT !.status = s]
    /\ UNCHANGED trouble

\* The cache lags longer than all the retries, or the API server fails.
StatusRefused == Fault /\ UNCHANGED cr

\* The error of Phase 1 lists the names of the failed tasks, not their causes;
\* only the error of the status update is quoted in it.
reconcileErrText(updateErr) == {"task names"} \cup updateErr
isRESTMappingError(text) == "restmapping" \in text

\* What the result of Reconcile does to the rate limiter when Phase 1 failed.
Phase1Backoff(updateErr) ==
    IF isRESTMappingError(reconcileErrText(updateErr)) THEN 0
    ELSE IF backoff < MaxBackoff THEN backoff + 1 ELSE backoff

failureStatus == [conds |-> NoConds, resourceReconciliation |-> TRUE,
                  overall |-> "NotReady", observed |-> olsconfig.generation]

\* Phase 1 failed: its status replaces every condition of the CR, and Reconcile
\* returns an error, or requeues without one after a RESTMapping error.
FailPhase1 ==
    /\ pc = "phase1" /\ todo = {} /\ failures # {}
    /\ \/ StatusWritten(failureStatus) /\ backoff' = Phase1Backoff({})
       \/ /\ StatusRefused
          /\ \E cause \in Causes : backoff' = Phase1Backoff({cause})
    /\ pc' = "idle"
    /\ queued' = TRUE
    /\ ForgetLocals
    /\ UNCHANGED <<lastUid, cache, clusterVars, images, leftVars>>

\* The single status write of Phase 2, and the result of Reconcile.
UpdateStatus ==
    /\ pc = "status"
    /\ \/ /\ StatusWritten(newStatus)
          /\ \/ newStatus.overall = "Ready" /\ ReturnNil /\ UNCHANGED queued
             \/ newStatus.overall # "Ready" /\ ReturnError
       \/ StatusRefused /\ ReturnError
    /\ UNCHANGED <<lastUid, cache, clusterVars, images, leftVars>>

----------------------------------------------------------------------------
(* Finalization.                                                           *)

\* The removal calls of finalizeOLSConfig, by name; their errors are logged.
FinalizeRemove(o) ==
    /\ pc = "remove"
    /\ IsNext(FinalizeOrder, todo, o)
    /\ todo' = todo \ {o}
    /\ \/ DeleteObjects(ObjectsOf(o, RemoveKinds(o))) /\ UNCHANGED trouble
       \/ /\ Fault
          /\ \E gone \in PartialRemovals(o) : DeleteObjects(ObjectsOf(o, gone))
    /\ UNCHANGED <<cr, lastUid, cache, queued, backoff, pc, olsconfig, failures,
                   newStatus, owner, hidden, health, images, leftVars>>

\* listOwnedResources, then deleteOwnedResources on what it found: a failed
\* list ends the reconciliation, a failed delete is only logged.
FinalizeDeleteOwned ==
    /\ pc = "remove" /\ todo = {}
    /\ \/ /\ DeleteObjects(listOwnedResources(olsconfig.uid))
          /\ pc' = "wait"
          /\ UNCHANGED <<queued, backoff, olsconfig, todo, failures, newStatus, trouble>>
       \/ /\ Fault
          /\ \E x \in listOwnedResources(olsconfig.uid) :
                DeleteObjects(listOwnedResources(olsconfig.uid) \ {x})
          /\ pc' = "wait"
          /\ UNCHANGED <<queued, backoff, olsconfig, todo, failures, newStatus>>
       \/ /\ Fault
          /\ ReturnError
          /\ UNCHANGED terminating
    /\ UNCHANGED <<cr, lastUid, cache, owner, hidden, health, images, leftVars>>

\* Mutant: the finalizer is removed without waiting for the deletions.
FinalizeNoWait ==
    /\ pc = "wait"
    /\ pc' = "refetch"
    /\ UNCHANGED <<cr, lastUid, cache, queued, backoff, olsconfig, todo, failures,
                   newStatus, clusterVars, images, leftVars, trouble>>

\* Mutant: the wait has no timeout.
FinalizeWaitForever ==
    /\ pc = "wait"
    /\ pc' = IF listOwnedResources(olsconfig.uid) = {} THEN "refetch" ELSE pc
    /\ UNCHANGED <<cr, lastUid, cache, queued, backoff, olsconfig, todo, failures,
                   newStatus, clusterVars, images, leftVars, trouble>>

\* waitForOwnedResourcesDeletion returns when it lists nothing any more, which
\* overlooks what the caches do not show, or after three minutes of finding
\* objects or failing to list them; finalization goes on either way.
FinalizeWait ==
    /\ pc = "wait"
    /\ pc' = "refetch"
    /\ \/ /\ listOwnedResources(olsconfig.uid) = {}
          /\ overlooked' = overlooked \cup ListedOwnedBy(olsconfig.uid)
          /\ UNCHANGED <<timedOut, trouble>>
       \/ /\ \/ listOwnedResources(olsconfig.uid) # {} /\ UNCHANGED trouble
             \/ Fault
          /\ timedOut' = timedOut \cup {olsconfig.uid}
          /\ UNCHANGED overlooked
    /\ UNCHANGED <<cr, lastUid, cache, queued, backoff, olsconfig, todo, failures,
                   newStatus, clusterVars, images>>

\* The CR is read again before the finalizer is removed.
FinalizeRefetch ==
    /\ pc = "refetch"
    /\ \/ /\ cache.uid = 0
          /\ ReturnNil
       \/ /\ cache.uid # 0
          /\ pc' = "strip"
          /\ olsconfig' = cache
          /\ UNCHANGED <<backoff, todo, failures, newStatus>>
    /\ UNCHANGED <<cr, lastUid, cache, queued, clusterVars, images, leftVars,
                   trouble>>

\* RemoveFinalizer and Update: the API server refuses a stale copy, and drops a
\* CR that is being deleted with its last finalizer.
RemoveFinalizer ==
    /\ pc = "strip"
    /\ \/ /\ cr.uid = 0
          /\ ReturnNil
          /\ UNCHANGED <<cr, queued, trouble>>
       \/ /\ cr.uid # 0 /\ olsconfig = cr
          /\ cr' = IF cr.deletion = "set" THEN NoCR
                   ELSE [cr EXCEPT !.finalizers = {}]
          /\ ReturnNil
          /\ UNCHANGED <<queued, trouble>>
       \/ /\ cr.uid # 0 /\ olsconfig # cr
          /\ ReturnError
          /\ UNCHANGED <<cr, trouble>>
       \/ /\ Fault
          /\ ReturnError
          /\ UNCHANGED cr
    /\ UNCHANGED <<lastUid, cache, clusterVars, images, leftVars>>

----------------------------------------------------------------------------
(* The environment: user, informers, cluster, operator process.            *)

CreateCR ==
    /\ cr.uid = 0 /\ lastUid < MaxUid
    /\ lastUid' = lastUid + 1
    /\ IF lastUid = 0 THEN UNCHANGED trouble ELSE Fault
    /\ \E spec \in SUBSET SpecGated :
          cr' = [uid |-> lastUid + 1, generation |-> 1, spec |-> spec,
                 deletion |-> "unset", finalizers |-> {}, status |-> EmptyStatus]
    /\ UNCHANGED <<cache, queued, backoff, workerVars, clusterVars, images,
                   leftVars>>

EditSpec(o) ==
    /\ cr.uid # 0 /\ cr.generation < MaxGen
    /\ Fault
    /\ cr' = [cr EXCEPT !.generation = @ + 1,
                        !.spec = IF o \in @ THEN @ \ {o} ELSE @ \cup {o}]
    /\ UNCHANGED <<lastUid, cache, queued, backoff, workerVars, clusterVars,
                   images, leftVars>>

\* Without a finalizer the CR goes at once.
DeleteCR ==
    /\ cr.uid # 0 /\ cr.deletion = "unset"
    /\ cr' = IF cr.finalizers = {} THEN NoCR ELSE [cr EXCEPT !.deletion = "set"]
    /\ UNCHANGED <<lastUid, cache, queued, backoff, workerVars, clusterVars,
                   images, leftVars, trouble>>

\* The informer delivers the CR's latest version and its event.
SyncCache ==
    /\ cache # cr
    /\ cache' = cr
    /\ queued' = TRUE
    /\ UNCHANGED <<cr, lastUid, backoff, workerVars, clusterVars, images,
                   leftVars, trouble>>

\* Any other event: a change of the API server's TLS profile, an owned object
\* edited by hand, a late event of an object the operator wrote.
OtherEvent ==
    /\ ~queued
    /\ Fault
    /\ queued' = TRUE
    /\ UNCHANGED <<cr, lastUid, cache, backoff, workerVars, clusterVars, images,
                   leftVars>>

\* The informer of an object's kind delivers a new object; the Owns() watches
\* queue the key.
ShowObject(x) ==
    /\ x \in hidden
    /\ hidden' = hidden \ {x}
    /\ queued' = TRUE
    /\ UNCHANGED <<cr, lastUid, cache, backoff, workerVars, owner, terminating,
                   health, images, leftVars, trouble>>

\* The garbage collector deletes what a CR that is gone owns.
CollectGarbage(x) ==
    /\ owner[x] # 0 /\ owner[x] # cr.uid /\ x \notin terminating
    /\ terminating' = terminating \cup {x}
    /\ UNCHANGED <<cr, lastUid, cache, queued, backoff, workerVars, owner, hidden, health,
                   images, leftVars, trouble>>

\* An object with a deletion timestamp goes, and the caches learn of it: until
\* then the worker cannot tell whether it is still there. The event queues the key.
Vanish(x) ==
    /\ x \in terminating
    /\ terminating' = terminating \ {x}
    /\ owner' = [owner EXCEPT ![x] = 0]
    /\ hidden' = hidden \ {x}
    /\ overlooked' = overlooked \ {x}
    /\ health' = IF x[2] = "dep" THEN [health EXCEPT ![x[1]] = "progressing"]
                 ELSE health
    /\ queued' = TRUE
    /\ UNCHANGED <<cr, lastUid, cache, backoff, workerVars, images, timedOut,
                   trouble>>

\* A Deployment becomes available, or its pods fail.
DeploymentAvailable(o) ==
    /\ owner[<<o, "dep">>] # 0 /\ health[o] # "available"
    /\ health' = [health EXCEPT ![o] = "available"]
    /\ queued' = TRUE
    /\ UNCHANGED <<cr, lastUid, cache, backoff, workerVars, owner, hidden, terminating,
                   images, leftVars, trouble>>

DeploymentFails(o) ==
    /\ owner[<<o, "dep">>] # 0 /\ health[o] # "failing"
    /\ Fault
    /\ health' = [health EXCEPT ![o] = "failing"]
    /\ queued' = TRUE
    /\ UNCHANGED <<cr, lastUid, cache, backoff, workerVars, owner, hidden, terminating,
                   images, leftVars>>

\* The operator process dies and starts again, possibly with other images: the
\* queue and the caches are rebuilt from the API server.
Restart ==
    /\ Fault
    /\ pc' = "idle"
    /\ ForgetLocals
    /\ cache' = cr
    /\ hidden' = {}
    /\ queued' = TRUE
    /\ backoff' = 0
    /\ images' \in SUBSET ImageGated
    /\ UNCHANGED <<cr, lastUid, owner, terminating, health, leftVars>>

Worker ==
    \/ StartReconcile \/ AddFinalizer \/ Preflight
    \/ \E o \in Operands : RemoveDisabled(o)
    \/ EnterPhase1
    \/ \E o \in Operands : ReconcileResources(o)
    \/ FailPhase1 \/ EnterPhase2
    \/ \E o \in Operands : RemoveAlertsAdapterAgain(o)
    \/ EnterDeployments
    \/ \E o \in Operands : ReconcileDeployment(o)
    \/ PublishHandoff \/ UpdateStatus
    \/ \E o \in Operands : FinalizeRemove(o)
    \/ FinalizeDeleteOwned \/ FinalizeWait \/ FinalizeRefetch \/ RemoveFinalizer

Environment ==
    \/ CreateCR \/ DeleteCR \/ SyncCache \/ OtherEvent \/ Restart
    \/ \E o \in SpecGated : EditSpec(o)
    \/ \E x \in Objects : ShowObject(x) \/ CollectGarbage(x) \/ Vanish(x)
    \/ \E o \in Operands : DeploymentAvailable(o) \/ DeploymentFails(o)

Next == Worker \/ Environment

Spec == Init /\ [][Next]_vars

----------------------------------------------------------------------------
(* Fairness: controller-runtime keeps the worker running and the informer  *)
(* delivers; the cluster eventually completes deletions, collects garbage  *)
(* and brings Deployments up. The user, faults and crashes are not fair.    *)

LoopFairness ==
    /\ WF_vars(Worker) /\ WF_vars(SyncCache)
    /\ \A x \in Objects : WF_vars(ShowObject(x))

ClusterFairness ==
    /\ \A x \in Objects : WF_vars(CollectGarbage(x)) /\ WF_vars(Vanish(x))
    /\ \A o \in Operands : WF_vars(DeploymentAvailable(o))

LoopSpec == Spec /\ LoopFairness
FairSpec == Spec /\ LoopFairness /\ ClusterFairness

----------------------------------------------------------------------------
(* Properties.                                                             *)

\* An object owned by the CR that exists implies that this CR carries the
\* finalizer: handleFinalizer returns after adding it "to ensure finalizer is
\* persisted before proceeding", so a deletion can never skip the cleanup.
FinalizerBeforeObjects ==
    \A x \in Objects :
        owner[x] # 0 /\ owner[x] = cr.uid => Finalizer \in cr.finalizers

\* An object of a listed kind that a CR that is gone still owns was left by a
\* finalization that gave up waiting for it, or was too new for the caches to show
\* when that finalization looked: the finalizer is never removed over an object
\* that finalizeOLSConfig had in its lists and did not wait for, and none is
\* created behind its back.
CleanDeletion ==
    \A x \in Objects :
        x[2] \in ListedKinds /\ owner[x] # 0 /\ owner[x] # cr.uid
            => owner[x] \in timedOut \/ x \in overlooked

\* A Ready status for the current generation covers the current spec, although
\* the spec may change while Reconcile runs and UpdateStatusCondition writes the
\* status onto a freshly read CR: what the spec switches on was seen available in
\* that same pass or has no image, what it switches off is never reported as
\* available, and only a failed alerts adapter cleanup leaves a condition out.
ReadyCoversSpec ==
    cr.status.overall = "Ready" /\ cr.status.observed = cr.generation =>
        /\ ~cr.status.resourceReconciliation
        /\ \A o \in Operands :
              IF o \in SpecGated /\ o \notin cr.spec
              THEN \/ cr.status.conds[o] = "Disabled"
                   \/ cr.status.conds[o] = "None" /\ o = "alertsadapter"
              ELSE \/ cr.status.conds[o] = "Available"
                   \/ cr.status.conds[o] = "Disabled" /\ o \in ImageGated

\* Objects are only created for the CR that exists: a reconciliation that works
\* from a cached copy never creates objects owned by a CR already gone, so a CR
\* recreated quickly is not served by objects the garbage collector will delete.
CreatedForLiveCR ==
    [][\A x \in Objects :
          owner'[x] # owner[x] /\ owner'[x] # 0 => owner'[x] = cr.uid]_vars

\* The finalizer of a CR that is not being deleted is never taken away, though
\* RemoveFinalizer re-reads the CR by name and may meet a recreated one.
FinalizerKeptWhileLive ==
    [][cr.uid # 0 /\ cr.deletion = "unset" /\ Finalizer \in cr.finalizers
          => cr'.uid = cr.uid /\ Finalizer \in cr'.finalizers]_vars

\* A deletion always completes, even when cleanup calls fail and objects never
\* go away: the wait times out, so the CR is not stuck in Terminating.
DeletionCompletes == []<>(cr.deletion = "unset")

\* Once the user and the faults are done, the system settles: either there is no
\* CR and nothing is left of it, or the CR is Ready for its current generation
\* and owns every object of every operand that is on.
Settled ==
    IF cr.uid = 0
    THEN \A x \in Objects : owner[x] = 0
    ELSE /\ cr.status.overall = "Ready" /\ cr.status.observed = cr.generation
         /\ \A o \in Operands : Enabled(o, cr.spec) =>
               \A x \in ObjectsOf(o, Phase1Kinds(o) \cup Phase2Kinds(o)) :
                  owner[x] = cr.uid /\ x \notin terminating

Converges == <>[]Settled

\* An operand the spec switches off for good is torn down by Phase 1, as its
\* removal call promises.
DisabledIsTornDown ==
    \A o \in SpecGated :
        <>[](cr.uid # 0 /\ o \notin cr.spec)
            => <>[](\A x \in ObjectsOf(o, RemoveKinds(o)) : owner[x] = 0)

----------------------------------------------------------------------------
(* The inductive invariant behind the finalizer's guarantees.              *)

Live(c) == c.uid # 0 /\ c.deletion = "unset" /\ Finalizer \in c.finalizers
WellFormed(c) == c.uid = 0 => c.deletion = "unset" /\ c.finalizers = {}

BuildingPCs == {"preflight", "gates1", "phase1", "gates2", "phase2", "status"}
FinalizingPCs == {"remove", "wait", "refetch", "strip"}

\* Uids are never used before CreateCR hands them out, and only a CR that is
\* being deleted is ever waited for.
UidInv ==
    /\ cr.uid <= lastUid /\ cache.uid <= lastUid /\ olsconfig.uid <= lastUid
    /\ \A x \in Objects : owner[x] <= lastUid
    /\ \A u \in timedOut : u # 0 /\ u <= lastUid
    /\ WellFormed(cr) /\ WellFormed(cache)
    /\ cr.deletion = "set" => Finalizer \in cr.finalizers
    /\ cr.uid \in timedOut => cr.deletion = "set"

\* What a lagging cache can still be trusted for: a CR with the finalizer has
\* been seen, and one seen live with it still has it.
CacheInv ==
    /\ Finalizer \in cr.finalizers => cache.uid = cr.uid
    /\ Live(cache) => cache.uid = cr.uid
    /\ cache.uid = cr.uid =>
          /\ cache.deletion = "set" => cr.deletion = "set"
          /\ Finalizer \in cache.finalizers => Finalizer \in cr.finalizers

\* The worker builds only for the current CR, under its finalizer, and
\* finalizes only while no CR is live.
WorkerInv ==
    /\ pc # "idle" => /\ olsconfig.uid # 0
                      /\ olsconfig.uid = cr.uid => cache.uid = cr.uid
    /\ pc \in BuildingPCs => /\ olsconfig.uid = cr.uid
                             /\ Finalizer \in cr.finalizers
    /\ pc \in FinalizingPCs => /\ ~Live(cache) /\ ~Live(cr)
                               /\ Finalizer \in cr.finalizers => olsconfig.uid = cr.uid
    /\ pc \in FinalizingPCs \ {"strip"} =>
          /\ Finalizer \in cache.finalizers => olsconfig.uid = cache.uid
          /\ olsconfig.uid = cr.uid => cr.deletion = "set"

\* The wait is over only when nothing is left that the caches showed, or it was
\* given up.
WaitInv ==
    (pc = "refetch" \/ (pc = "strip" /\ Finalizer \in olsconfig.finalizers))
        => ListedOwnedBy(olsconfig.uid) \subseteq overlooked \/ olsconfig.uid \in timedOut

\* What is hidden, and what was overlooked, exists and is of a listed kind.
LagInv ==
    \A x \in hidden \cup overlooked : owner[x] # 0 /\ x[2] \in ListedKinds

\* The five together with the two invariants they support are inductive: the
\* finalizer logic of handleFinalizer is right for any lag of the caches.
FinalizerInv ==
    /\ UidInv
    /\ CacheInv
    /\ WorkerInv
    /\ WaitInv
    /\ LagInv
    /\ FinalizerBeforeObjects
    /\ CleanDeletion

----------------------------------------------------------------------------
(* The lifecycle the reconciler promises, and the mapping onto it.         *)

Stage ==
    IF cr.uid = 0 THEN "absent"
    ELSE IF cr.deletion = "set" THEN "terminating"
    ELSE IF Finalizer \in cr.finalizers THEN "guarded"
    ELSE "bare"

Lifecycle == INSTANCE OLSConfigLifecycle WITH
    Listed <- {x \in Objects : x[2] \in ListedKinds},
    stage <- Stage,
    live <- {x \in Objects : owner[x] # 0 /\ owner[x] = cr.uid},
    stale <- {x \in Objects : owner[x] # 0 /\ owner[x] # cr.uid},
    hidden <- {x \in hidden : owner[x] # 0 /\ owner[x] = cr.uid},
    missed <- {x \in overlooked : owner[x] # 0 /\ owner[x] = cr.uid},
    abandoned <- (cr.uid # 0 /\ cr.uid \in timedOut)

\* Every step of the reconcile loop, whatever the cache shows it, is a step of
\* the CR's lifecycle or invisible to it: handleFinalizer and finalizeOLSConfig
\* keep objects and finalizer in the promised order.
ImplementsLifecycle == Lifecycle!Spec

=============================================================================
