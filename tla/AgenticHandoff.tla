---------------------------- MODULE AgenticHandoff ----------------------------
(***************************************************************************)
(* The client CA Secrets of the application server (appserver/assets.go),  *)
(* RestartAppServer (appserver/deployment.go), and the ConfigMap that      *)
(* hands endpoints and the names of those Secrets over to the agentic      *)
(* operator (internal/controller/agenticintegration).                      *)
(*                                                                         *)
(* Three goroutines work on these objects through caches that lag: the     *)
(* reconcile worker and the handlers of the ConfigMap and the Secret       *)
(* informer. A CA is a version number.                                     *)
(***************************************************************************)
EXTENDS Naturals, Sequences

CONSTANTS
    Features,     \* the optional endpoints of this instance
    MaxEdits,     \* bound: edits of the CR
    MaxCAs,       \* bound: versions of the service CA
    MaxCerts,     \* bound: rotations of a serving certificate
    MaxDeletes,   \* bound: deletions of objects by others
    MaxFaults,    \* bound: API errors
    MaxCrashes,   \* bound: crashes of the operator
    MaxEvents,    \* bound: all of these together
    Meet          \* bound: pairs of different ones that meet in one behaviour

ASSUME FeaturesAssumption == Features \subseteq {"mcp", "rhokp"}
ASSUME HandoffBounds ==
    /\ MaxEdits \in Nat /\ MaxCAs \in Nat \ {0} /\ MaxCerts \in Nat
    /\ MaxDeletes \in Nat /\ MaxFaults \in Nat /\ MaxCrashes \in Nat
    /\ MaxEvents \in Nat

\* The table clientCASecrets. The Secret of the OTEL Collector is always enabled,
\* the others with introspection and without byokRAGOnly.
clientCASecrets ==
    <<"otel">> \o (IF "mcp" \in Features THEN <<"mcp">> ELSE <<>>)
               \o (IF "rhokp" \in Features THEN <<"rhokp">> ELSE <<>>)
Secrets == {"otel"} \cup Features
Enabled(s, features) == s = "otel" \/ s \in features

\* source is openshift-service-ca.crt, dep the Deployment of the application server.
Objects == Secrets \cup {"source", "dep", "handoff"}

Watchers == {"cmWatch", "secretWatch"}
Threads == {"worker"} \cup Watchers

VARIABLES
    spec,    \* the features the CR switches on
    api,     \* the objects in the API server
    cache,   \* the objects in the informer caches
    stale,   \* objects whose cached copy is not the last version
    queued,  \* the CR's key is in the work queue
    events,  \* events that the handlers have not taken yet
    thread,  \* the state of each goroutine
    svc,     \* the Service of the MCP server is there
    rolling, \* the Deployment's template is newer than its pods
    late,    \* Secrets last written with a CA read before the cache got a newer one
    budget   \* what is left of the bounds

vars == <<spec, api, cache, stale, queued, events, thread, svc, rolling, late, budget>>
clusterVars == <<spec, svc, rolling>>

\* ca: of the source and the Secrets; names: the features a Deployment was
\* generated for, or the endpoints of the handoff; reload: its annotation.
Object == [there : BOOLEAN, ca : Nat, names : SUBSET Features, reload : Nat]
Absent == [there |-> FALSE, ca |-> 0, names |-> {}, reload |-> 0]

PCs(t) ==
    CASE t = "worker" -> {"idle", "refresh", "deploy", "restart", "roll", "handoff"}
      [] t = "cmWatch" -> {"idle", "restart", "roll"}
      [] t = "secretWatch" -> {"idle", "restart", "roll", "touch"}

\* olsconfig: the CR the worker reconciles; cr: the one the refresh works with;
\* since: the CA when RestartAppServer began; todo: Secrets left to refresh;
\* desired: the CA read for the first of them, 0 when it was not read yet.
Thread(t) == [pc : PCs(t), olsconfig : SUBSET Features, cr : SUBSET Features,
              since : Nat, todo : Seq(Secrets), desired : Nat, failed : BOOLEAN]
Idle == [pc |-> "idle", olsconfig |-> {}, cr |-> {}, since |-> 0, todo |-> <<>>,
         desired |-> 0, failed |-> FALSE]

Budgets == {"edit", "ca", "cert", "delete", "fault", "crash", "any"}
FullBudget == [edit |-> MaxEdits, ca |-> MaxCAs - 1, cert |-> MaxCerts,
               delete |-> MaxDeletes, fault |-> MaxFaults, crash |-> MaxCrashes,
               any |-> MaxEvents]

\* Every variable stays within its type, and every goroutine within its own part of
\* the code: the handler of the service CA does not touch the handoff.
TypeOK ==
    /\ spec \subseteq Features
    /\ api \in [Objects -> Object] /\ cache \in [Objects -> Object]
    /\ stale \subseteq Objects
    /\ queued \in BOOLEAN /\ svc \in BOOLEAN /\ rolling \in BOOLEAN
    /\ events \in [Watchers -> Nat]
    /\ DOMAIN thread = Threads /\ \A t \in Threads : thread[t] \in Thread(t)
    /\ late \subseteq Secrets
    /\ budget \in [Budgets -> Nat]

\* A new CR: nothing but the service CA is there.
Init ==
    /\ spec \in SUBSET Features
    /\ api = [x \in Objects |-> IF x = "source"
                 THEN [Absent EXCEPT !.there = TRUE, !.ca = 1] ELSE Absent]
    /\ cache = api /\ stale = {}
    /\ queued = TRUE
    /\ events = [w \in Watchers |-> 0]
    /\ thread = [t \in Threads |-> Idle]
    /\ svc = FALSE /\ rolling = FALSE /\ late = {}
    /\ budget = FullBudget

Spend(b) ==
    /\ budget[b] > 0 /\ budget["any"] > 0
    /\ \A c \in Budgets \ {b, "any"} : {b, c} \in Meet \/ budget[c] = FullBudget[c]
    /\ budget' = [budget EXCEPT ![b] = @ - 1, !["any"] = @ - 1]

Write(x, new) ==
    /\ api' = [api EXCEPT ![x] = new]
    /\ stale' = stale \cup {x}
Keep == UNCHANGED <<api, stale>>

\* The goroutine goes on at pc; its locals end with it.
Goto(t, pc) ==
    thread' = [thread EXCEPT ![t] = IF pc = "idle" THEN Idle ELSE
                  [@ EXCEPT !.pc = pc, !.todo = <<>>, !.desired = 0]]
----------------------------------------------------------------------------
(* RestartAppServer, and where its callers go on: the worker to the        *)
(* handoff, the handler of a serving certificate to the next name in       *)
(* AffectedDeployments, which is the handoff's.                            *)

\* Mutant: the handoff is listed for the service CA as well.
AfterAppServerTouch(t) == IF t = "worker" THEN "handoff" ELSE "touch"

AfterAppServer(t) ==
    CASE t = "worker" -> "handoff" [] t = "secretWatch" -> "touch" [] OTHER -> "idle"

\* A failure: the worker records it and goes on with Phase 2, a handler logs it.
Fail(t) ==
    IF t = "worker"
    THEN thread' = [thread EXCEPT ![t].pc = "handoff", ![t].todo = <<>>,
                                  ![t].desired = 0, ![t].failed = TRUE]
    ELSE Goto(t, AfterAppServer(t))

\* Mutant: RestartAppServer logs a failed refresh and rolls.
FailOpen(t) ==
    IF thread[t].pc = "restart"
    THEN Goto(t, "roll") ELSE Fail(t)

\* RefreshClientCASecrets returns at the first error.
RefreshFails(t) == Fail(t)

\* The CR is read again.
StartRestart(t) ==
    thread' = [thread EXCEPT ![t].pc = "restart", ![t].cr = spec,
                             ![t].since = cache["source"].ca,
                             ![t].todo = clientCASecrets]

\* One Secret of the table is done; after the last one the caller goes on.
Refreshed(t) ==
    LET rest == Tail(thread[t].todo)
    IN  thread' = [thread EXCEPT ![t].todo = rest, ![t].desired = 0,
                      ![t].pc = IF rest # <<>> THEN @
                                ELSE IF @ = "restart" THEN "roll" ELSE "deploy"]

\* generateClientCA: the CA that the next Secret shall hold is read.
generateClientCA(t) ==
    /\ Keep /\ UNCHANGED late
    /\ IF cache["source"].there
       THEN thread' = [thread EXCEPT ![t].desired = cache["source"].ca]
       ELSE RefreshFails(t)

\* deleteClientCA: absent in the cache or in the API server is success.
deleteClientCA(t, s) ==
    /\ IF cache[s].there /\ api[s].there
       THEN Write(s, Absent) /\ late' = late \ {s}
       ELSE Keep /\ UNCHANGED late
    /\ Refreshed(t)

\* The next Secret of the table: delete it, or read the CA it shall hold.
RefreshClientCASecrets(t) ==
    /\ thread[t].pc \in {"refresh", "restart"} /\ thread[t].desired = 0
    /\ LET s == Head(thread[t].todo)
       IN  IF Enabled(s, thread[t].cr) THEN generateClientCA(t) ELSE deleteClientCA(t, s)
    /\ UNCHANGED <<clusterVars, cache, queued, events, budget>>

\* The Secret gets the CA that was read for it, however old that is by now.
WriteClientCA(t, s, desired) ==
    /\ Write(s, desired)
    /\ late' = IF desired.ca = cache["source"].ca THEN late \ {s} ELSE late \cup {s}
    /\ Refreshed(t)

\* Mutant: a Secret that exists is left as it is.
reconcileClientCASecretOnce(t) ==
    /\ thread[t].pc \in {"refresh", "restart"} /\ thread[t].desired # 0
    /\ LET s == Head(thread[t].todo)
       IN  IF ~cache[s].there /\ ~api[s].there
           THEN WriteClientCA(t, s, [Absent EXCEPT !.there = TRUE, !.ca = thread[t].desired])
           ELSE Keep /\ UNCHANGED late /\ Refreshed(t)
    /\ UNCHANGED <<clusterVars, cache, queued, events, budget>>

\* Create, leave alone, or update the cached copy: a later step than the read of the
\* CA, so that another goroutine may have refreshed the Secret in between.
reconcileClientCASecret(t) ==
    /\ thread[t].pc \in {"refresh", "restart"} /\ thread[t].desired # 0
    /\ LET s == Head(thread[t].todo)
           desired == [Absent EXCEPT !.there = TRUE, !.ca = thread[t].desired]
       IN  IF cache[s] = desired THEN Keep /\ UNCHANGED late /\ Refreshed(t)
           ELSE IF (cache[s].there /\ s \notin stale) \/ (~cache[s].there /\ ~api[s].there)
                THEN WriteClientCA(t, s, desired)
                ELSE Keep /\ UNCHANGED late /\ RefreshFails(t)
    /\ UNCHANGED <<clusterVars, cache, queued, events, budget>>

\* The Deployment is read again, given the caller's spec if there is one, and
\* updated with a new force-reload annotation.
RollAppServer(t) ==
    /\ thread[t].pc = "roll"
    /\ IF cache["dep"].there /\ "dep" \notin stale
       THEN /\ Write("dep", IF t = "worker"
                       THEN [cache["dep"] EXCEPT !.names = thread[t].olsconfig]
                       ELSE cache["dep"])
            /\ rolling' = TRUE
            /\ Goto(t, AfterAppServer(t))
       ELSE Keep /\ Fail(t) /\ UNCHANGED rolling
    /\ UNCHANGED <<spec, svc, cache, queued, events, budget, late>>
----------------------------------------------------------------------------
(* The worker: the steps of a pass that touch these objects.               *)

\* Phase 1 and the steps before the application server come to the Service of the
\* MCP server: created when introspection is on, else removed, or not, depending on
\* the status, which this module leaves open. Only the worker looks at it, so that
\* the lag of its cache would show as a later creation.
StartReconcile ==
    /\ thread["worker"].pc = "idle" /\ queued
    /\ queued' = FALSE
    /\ \E failed \in BOOLEAN :
          /\ IF failed THEN Spend("fault") /\ UNCHANGED svc
             ELSE svc' \in (IF "mcp" \in spec THEN {TRUE} ELSE {svc, FALSE}) /\ UNCHANGED budget
          /\ thread' = [thread EXCEPT !["worker"] =
                [Idle EXCEPT !.pc = "refresh", !.olsconfig = spec, !.cr = spec,
                             !.todo = clientCASecrets, !.failed = failed]]
    /\ UNCHANGED <<spec, api, cache, stale, events, rolling, late>>

\* reconcileDeployment, updateOLSDeployment: a Deployment generated for another
\* spec is updated by RestartAppServer.
ReconcileDeployment ==
    /\ thread["worker"].pc = "deploy"
    /\ IF ~cache["dep"].there
       THEN IF api["dep"].there THEN Keep /\ Fail("worker") /\ UNCHANGED rolling
            ELSE /\ Write("dep", [Absent EXCEPT !.there = TRUE,
                                    !.names = thread["worker"].olsconfig])
                 /\ rolling' = TRUE
                 /\ Goto("worker", "handoff")
       ELSE /\ IF cache["dep"].names = thread["worker"].olsconfig
               THEN Goto("worker", "handoff") ELSE StartRestart("worker")
            /\ Keep /\ UNCHANGED rolling
    /\ UNCHANGED <<spec, svc, cache, queued, events, budget, late>>

\* The pass ends; a failure, or pods that are still coming up, queue the key.
EndPass(failed) ==
    /\ thread' = [thread EXCEPT !["worker"] = Idle]
    /\ queued' \in {queued \/ failed, queued \/ failed \/ rolling}

\* Mutant: the prerequisites are not looked at.
handoffCreateUngated == TRUE

\* The first publication waits for the Service and the CA Secret of the MCP server
\* when the handoff names them; nothing is asked of the other Secrets.
handoffCreatePrerequisites ==
    "mcp" \in thread["worker"].olsconfig => svc /\ cache["mcp"].there

\* The ConfigMap as generated: the keys of the endpoints that are switched on, and no
\* annotation.
GenerateAgenticConfigurationConfigMap(names) ==
    [Absent EXCEPT !.there = TRUE, !.names = names]

\* Mutant: the generated annotations replace the ones that were found.
HandoffRegenerated(names) == GenerateAgenticConfigurationConfigMap(names)

\* The found ConfigMap with the generated data: the reload annotation is kept.
HandoffUpdated(names) == [cache["handoff"] EXCEPT !.names = names]

\* The handoff comes last in Phase 2, whatever failed before it.
reconcileConfigurationConfigMap ==
    /\ thread["worker"].pc = "handoff"
    /\ LET names == thread["worker"].olsconfig
           failed == thread["worker"].failed
       IN  IF ~cache["handoff"].there
           THEN IF handoffCreatePrerequisites /\ ~api["handoff"].there
                THEN /\ Write("handoff", GenerateAgenticConfigurationConfigMap(names))
                     /\ EndPass(failed)
                ELSE Keep /\ EndPass(TRUE)
           ELSE IF cache["handoff"].names = names THEN Keep /\ EndPass(failed)
           ELSE IF "handoff" \notin stale
                THEN Write("handoff", HandoffUpdated(names)) /\ EndPass(failed)
                ELSE Keep /\ EndPass(TRUE)
    /\ UNCHANGED <<clusterVars, cache, events, budget, late>>
----------------------------------------------------------------------------
(* The handlers.                                                           *)

HandleEvent(w) ==
    /\ thread[w].pc = "idle" /\ events[w] > 0
    /\ events' = [events EXCEPT ![w] = @ - 1]
    /\ StartRestart(w)
    /\ UNCHANGED <<clusterVars, api, cache, stale, queued, budget, late>>

\* TouchAgenticConfiguration: without a ConfigMap there is nothing to touch, and a
\* refused Update is only logged.
TouchAgenticConfiguration ==
    /\ thread["secretWatch"].pc = "touch"
    /\ IF cache["handoff"].there /\ "handoff" \notin stale
       THEN Write("handoff", [cache["handoff"] EXCEPT !.reload = @ + 1])
       ELSE Keep
    /\ thread' = [thread EXCEPT !["secretWatch"] = Idle]
    /\ UNCHANGED <<clusterVars, cache, queued, events, budget, late>>

\* An API error in any other step.
CallFails(t) ==
    /\ thread[t].pc # "idle"
    /\ Spend("fault")
    /\ CASE thread[t].pc = "handoff" -> EndPass(TRUE)
         [] thread[t].pc = "touch" ->
              thread' = [thread EXCEPT ![t] = Idle] /\ UNCHANGED queued
         [] OTHER -> Fail(t) /\ UNCHANGED queued
    /\ UNCHANGED <<clusterVars, api, cache, stale, events, late>>
----------------------------------------------------------------------------
(* The environment.                                                        *)

\* introspectionEnabled or byokRAGOnly is switched.
EditCR ==
    /\ Spend("edit")
    /\ \E f \in Features : spec' = IF f \in spec THEN spec \ {f} ELSE spec \cup {f}
    /\ queued' = TRUE
    /\ UNCHANGED <<api, cache, stale, events, thread, svc, rolling, late>>

\* The service CA is rotated, or the ConfigMap is lost and put back.
RotateCA ==
    /\ api["source"].there
    /\ Spend("ca")
    /\ Write("source", [api["source"] EXCEPT !.ca = @ + 1])
    /\ UNCHANGED <<clusterVars, cache, queued, events, thread, late>>

DropCA ==
    /\ api["source"].there
    /\ Spend("delete")
    /\ Write("source", [api["source"] EXCEPT !.there = FALSE])
    /\ UNCHANGED <<clusterVars, cache, queued, events, thread, late>>

RestoreCA ==
    /\ ~api["source"].there /\ "source" \notin stale
    /\ \/ UNCHANGED budget /\ Write("source", [api["source"] EXCEPT !.there = TRUE])
       \/ Spend("ca") /\ Write("source", [api["source"] EXCEPT !.there = TRUE, !.ca = @ + 1])
    /\ UNCHANGED <<clusterVars, cache, queued, events, thread, late>>

\* service-ca renews the serving certificate of an operand.
RotateCert ==
    /\ Spend("cert")
    /\ events' = [events EXCEPT !["secretWatch"] = @ + 1]
    /\ UNCHANGED <<clusterVars, api, cache, stale, queued, thread, late>>

\* Somebody deletes a client CA Secret or the handoff.
DeleteObject(x) ==
    /\ api[x].there
    /\ Spend("delete")
    /\ Write(x, Absent)
    /\ late' = late \ {x}
    /\ UNCHANGED <<clusterVars, cache, queued, events, thread>>

\* An informer catches up. An Update of the service CA is an event for its
\* handler, its creation is not; the events of owned objects queue the key.
Sync(x) ==
    /\ x \in stale
    /\ cache' = [cache EXCEPT ![x] = api[x]]
    /\ stale' = stale \ {x}
    /\ queued' = (queued \/ x # "source")
    /\ events' = IF x = "source" /\ cache[x].there /\ api[x].there
                 THEN [events EXCEPT !["cmWatch"] = @ + 1] ELSE events
    /\ UNCHANGED <<clusterVars, api, thread, budget, late>>

\* New pods start once every Secret they mount is there.
RollPods ==
    /\ rolling /\ api["dep"].there
    /\ \A s \in Secrets : Enabled(s, api["dep"].names) => api[s].there
    /\ rolling' = FALSE
    /\ stale' = stale \cup {"dep"}
    /\ UNCHANGED <<spec, svc, api, cache, queued, events, thread, budget, late>>

\* A resync of the CR, or an event of another owned object; during a pass it would
\* only wait for the end of the pass.
OtherEvent ==
    /\ thread["worker"].pc = "idle" /\ ~queued
    /\ queued' = TRUE
    /\ UNCHANGED <<clusterVars, api, cache, stale, events, thread, budget, late>>

\* A new process lists everything again; the creations it is told of restart nothing.
Crash ==
    /\ Spend("crash")
    /\ thread' = [t \in Threads |-> Idle]
    /\ events' = [w \in Watchers |-> 0]
    /\ cache' = api /\ stale' = {}
    /\ queued' = TRUE
    /\ UNCHANGED <<clusterVars, api, late>>
----------------------------------------------------------------------------
AppServer(t) ==
    RefreshClientCASecrets(t) \/ reconcileClientCASecret(t) \/ RollAppServer(t)
Worker ==
    \/ StartReconcile \/ ReconcileDeployment
    \/ reconcileConfigurationConfigMap \/ AppServer("worker")
Handler(w) ==
    HandleEvent(w) \/ AppServer(w) \/ (w = "secretWatch" /\ TouchAgenticConfiguration)

Next ==
    \/ Worker \/ EditCR \/ RotateCA \/ DropCA \/ RestoreCA \/ RotateCert \/ RollPods
    \/ OtherEvent \/ Crash
    \/ \E w \in Watchers : Handler(w)
    \/ \E t \in Threads : CallFails(t)
    \/ \E x \in Secrets \cup {"handoff"} : DeleteObject(x)
    \/ \E x \in Objects : Sync(x)

Spec == Init /\ [][Next]_vars

\* The goroutines, the informers, service-ca and the kubelet go on, and the
\* informer of the CR hands it over again from time to time.
ResyncSpec ==
    /\ Spec
    /\ WF_vars(Worker) /\ WF_vars(RestoreCA) /\ WF_vars(RollPods) /\ WF_vars(OtherEvent)
    /\ \A w \in Watchers : WF_vars(Handler(w))
    /\ \A x \in Objects : WF_vars(Sync(x))

----------------------------------------------------------------------------
(* Properties.                                                             *)

\* RestartAppServer is fail-closed: whoever is about to roll the Deployment, every
\* enabled Secret that exists holds the CA its cache had when the restart began, or a
\* newer one, although the other goroutines refresh and delete the same Secrets. The
\* one exception is a Secret that a goroutine whose read of the CA was already out of
\* date wrote last.
RollsWithFreshCA ==
    \A t \in Threads, s \in Secrets :
        thread[t].pc = "roll" /\ Enabled(s, thread[t].cr) /\ api[s].there
            => api[s].ca >= thread[t].since \/ s \in late

\* Secrets that thread t has still to refresh.
Pending(t) == {thread[t].todo[i] : i \in DOMAIN thread[t].todo}

\* No CA runs ahead of the cached service CA, and a cached Secret is ahead of the
\* Secret only where that was set back.
CopiesOrdered ==
    /\ cache["source"].ca <= api["source"].ca
    /\ \A s \in Secrets :
          /\ api[s].ca <= cache["source"].ca /\ cache[s].ca <= cache["source"].ca
          /\ cache[s].there /\ api[s].there => cache[s].ca <= api[s].ca \/ s \in late

\* What thread t has refreshed is as new as the CA it began with, and so is the CA it
\* has read for the next Secret.
RefreshedSoFar(t) ==
    /\ thread[t].pc \in {"refresh", "restart"} <=> thread[t].todo # <<>>
    /\ thread[t].desired # 0 =>
          /\ thread[t].pc \in {"refresh", "restart"}
          /\ thread[t].pc = "restart" => thread[t].desired >= thread[t].since
    /\ thread[t].desired <= cache["source"].ca
    /\ thread[t].pc \in {"restart", "roll"} =>
          /\ thread[t].since <= cache["source"].ca
          /\ \A s \in Secrets \ Pending(t) :
                Enabled(s, thread[t].cr) /\ api[s].there
                    => api[s].ca >= thread[t].since \/ s \in late

\* The invariant behind it: what one goroutine refreshes another can set back only
\* with a CA that it read before the cache got the newer one.
CAOrder == CopiesOrdered /\ \A t \in Threads : RefreshedSoFar(t)

\* As long as nobody edits the CR or deletes objects, a handoff that names the MCP
\* server is published only over its Service and its CA Secret: a refresh that
\* failed, or a crash, in the passes before never gets past the gate of the first
\* publication.
PublishedAfterTrust ==
    /\ budget["edit"] = MaxEdits /\ budget["delete"] = MaxDeletes
    /\ "mcp" \in api["handoff"].names
    => svc /\ api["mcp"].there

\* No announced reload is taken back: the worker, which updates the handoff from a
\* cached copy, keeps the annotation that TouchAgenticConfiguration has set.
ReloadKept ==
    [][api["handoff"].there /\ api'["handoff"].there
          => api'["handoff"].reload >= api["handoff"].reload]_vars

\* In the end the handoff names the endpoints the CR switches on, and the client CA
\* Secrets are those of the CR with the current service CA in them, whatever was
\* rotated, lost, deleted or switched meanwhile.
HandoffSettles ==
    <>[]( /\ api["handoff"].there /\ api["handoff"].names = spec
          /\ "mcp" \in spec => svc
          /\ \A s \in Secrets :
                IF Enabled(s, spec) THEN api[s].there /\ api[s].ca = api["source"].ca
                ELSE ~api[s].there )

=============================================================================
