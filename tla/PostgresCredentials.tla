------------------------- MODULE PostgresCredentials -------------------------
(***************************************************************************)
(* The password of the PostgreSQL database (internal/controller/postgres,  *)
(* internal/controller/otelcollector): the Secret the operator generates   *)
(* it into, the volume the database keeps it on, and the connection string *)
(* that the OTEL Collector gets.                                           *)
(*                                                                         *)
(* The database takes the password when its volume is initialised and      *)
(* keeps it; its pods and those of the Collector read theirs when they     *)
(* start. The three Secrets come through one informer, which delivers the  *)
(* states of the API server in order and late. The caches of the volume    *)
(* claim and of the Deployments, whose lag OperandRollout is about, are    *)
(* taken to be current.                                                    *)
(***************************************************************************)
EXTENDS Naturals, Sequences, FiniteSets

CONSTANTS
    MaxUid,       \* bound: CRs, one after the other
    MaxFaults,    \* bound: API errors
    MaxCrashes,   \* bound: crashes of the operator
    MaxEvictions, \* bound: pods that are stopped by others
    MaxDeletes,   \* bound: Secrets that are deleted by others
    MaxMisses,    \* bound: times the worker misses a Secret of the password that is there
    MaxLag,       \* bound: states the informer is behind
    Meet          \* bound: pairs of different disturbances that meet in one behaviour

ASSUME CredentialBounds ==
    /\ MaxUid \in Nat \ {0} /\ MaxFaults \in Nat /\ MaxCrashes \in Nat
    /\ MaxEvictions \in Nat /\ MaxDeletes \in Nat /\ MaxMisses \in Nat
    /\ MaxLag \in Nat \ {0}

----------------------------------------------------------------------------
(* An object is present when it has an owner, the uid of a CR.             *)

Secrets == {"bootstrap", "password", "dsn"}
Operands == {"postgres", "otel"}

\* DeleteAllOf selects on a label that both Secrets of the database carry.
OldSecrets == {"bootstrap", "password"}

NoSecret == [owner |-> 0, pw |-> 0]
NoPod == [of |-> 0, pw |-> 0]

VARIABLES
    cr,       \* uid of the CR and its state: none, live, deleting
    otel,     \* the operator has an image for the OTEL Collector
    storage,  \* emptyDir, class (a claim), noclass (a claim, no default class)
    history,  \* the Secrets: as the informer shows them, ..., as they are
    claim,    \* the volume claim: owner, terminating
    data,     \* the password of the database on the volume, 0 when empty
    dep,      \* the Deployments: their owners
    pod,      \* their pods: the owner of the Deployment, the password they read
    queued,   \* the CR's key is in the work queue
    pc,       \* the task the worker is at
    failed,   \* a task of Phase 1 failed
    upset,    \* what has happened that the code does not guard the password against
    budget    \* what is left of the bounds

vars == <<cr, otel, storage, history, claim, data, dep, pod, queued, pc, failed,
          upset, budget>>
outside == <<cr, otel, storage, data, pod>>
cluster == <<outside, upset>>

Seen == Head(history)
Live == history[Len(history)]
There(x) == x.owner # 0

\* deleted: somebody else deleted the Secret of the password; left: a reconciliation
\* began although objects of an earlier CR were left; missed: the worker generated a
\* password because the Secret, which is there, was not in its cache yet; outdated: it
\* wrote a connection string with the password of a Secret that is gone or replaced.
Upsets == {"deleted", "left", "missed", "outdated"}
Note(u, happened) == upset' = IF happened THEN upset \cup {u} ELSE upset

Budgets == {"recreate", "class", "fault", "crash", "eviction", "delete", "miss"}
FullBudget == [recreate |-> MaxUid - 1, class |-> 1, fault |-> MaxFaults,
               crash |-> MaxCrashes, eviction |-> MaxEvictions, delete |-> MaxDeletes,
               miss |-> MaxMisses]

Phase1 == {"bootstrap", "password", "clean", "create", "dsn", "end"}
Phase2 == {"claim", "postgres", "otel"}

\* Every variable stays within its type, and whatever holds a password holds one
\* that was generated: a connection string without one is never written.
TypeOK ==
    /\ cr \in [uid : 1..MaxUid, state : {"none", "live", "deleting"}]
    /\ otel \in BOOLEAN /\ storage \in {"emptyDir", "class", "noclass"}
    /\ history \in Seq([Secrets -> [owner : 0..MaxUid, pw : Nat]])
    /\ Len(history) \in 1..MaxLag
    /\ \A i \in DOMAIN history :
          /\ history[i]["bootstrap"].pw = 0
          /\ \A s \in Secrets \ {"bootstrap"} :
                history[i][s].owner = 0 <=> history[i][s].pw = 0
    /\ claim \in [owner : 0..MaxUid, terminating : BOOLEAN]
    /\ data \in Nat
    /\ dep \in [Operands -> 0..MaxUid]
    /\ pod \in [Operands -> [of : 0..MaxUid, pw : Nat]]
    /\ \A o \in Operands : pod[o].of = 0 <=> pod[o].pw = 0
    /\ queued \in BOOLEAN /\ failed \in BOOLEAN /\ upset \subseteq Upsets
    /\ pc \in {"idle", "finalize", "wait"} \cup Phase1 \cup Phase2
    /\ budget \in [Budgets -> Nat]

Init ==
    /\ cr = [uid |-> 1, state |-> "live"]
    /\ otel \in BOOLEAN
    /\ storage \in {"emptyDir", "class", "noclass"}
    /\ history = << [s \in Secrets |-> NoSecret] >>
    /\ claim = [owner |-> 0, terminating |-> FALSE]
    /\ data = 0
    /\ dep = [o \in Operands |-> 0]
    /\ pod = [o \in Operands |-> NoPod]
    /\ queued = TRUE
    /\ pc = "idle" /\ failed = FALSE
    /\ upset = {}
    /\ budget = FullBudget

Spend(b) ==
    /\ budget[b] > 0
    /\ \A c \in Budgets \ {b} : {b, c} \in Meet \/ budget[c] = FullBudget[c]
    /\ budget' = [budget EXCEPT ![b] = @ - 1]

\* A write to the Secrets, which the informer will deliver.
Write(s, x) ==
    /\ Len(history) < MaxLag
    /\ history' = Append(history, [Live EXCEPT ![s] = x])

----------------------------------------------------------------------------
(* The worker, Phase 1: a task that fails does not keep the others from    *)
(* running.                                                                *)

\* An object whose owner no longer exists waits for the garbage collector.
Dead(uid) == uid # 0 /\ (uid # cr.uid \/ cr.state = "none")

\* The database of an earlier CR, or what its password is read from, is not gone yet.
Leftovers ==
    \/ Dead(Live["password"].owner) \/ Dead(claim.owner)
    \/ Dead(dep["postgres"]) \/ Dead(pod["postgres"].of)

StartReconcile ==
    /\ pc = "idle" /\ queued
    /\ queued' = FALSE
    /\ pc' = CASE cr.state = "live" -> "bootstrap"
               [] cr.state = "deleting" -> "finalize"
               [] OTHER -> "idle"
    /\ failed' = FALSE
    /\ Note("left", cr.state = "live" /\ Leftovers)
    /\ UNCHANGED <<outside, history, claim, dep, budget>>

AfterPassword == IF otel THEN "dsn" ELSE "end"

\* reconcilePostgresBootstrapSecret: created when it is not in the cache.
ReconcileBootstrap ==
    /\ pc = "bootstrap"
    /\ pc' = "password"
    /\ IF There(Seen["bootstrap"]) THEN UNCHANGED <<history, failed>>
       ELSE IF There(Live["bootstrap"]) THEN failed' = TRUE /\ UNCHANGED history
       ELSE Write("bootstrap", [owner |-> cr.uid, pw |-> 0]) /\ UNCHANGED failed
    /\ UNCHANGED <<cluster, claim, dep, queued, budget>>

\* Mutant: the password is generated again although its Secret is in the cache.
ReconcilePasswordAlways ==
    /\ pc = "password"
    /\ pc' = "clean"
    /\ UNCHANGED <<cluster, history, claim, dep, queued, failed, budget>>

\* reconcilePostgresSecret: nothing to do when the Secret is in the cache.
ReconcilePassword ==
    /\ pc = "password"
    /\ \/ There(Seen["password"]) /\ pc' = AfterPassword /\ UNCHANGED <<upset, budget>>
       \/ /\ ~There(Seen["password"]) /\ pc' = "clean"
          /\ IF There(Live["password"]) THEN Spend("miss") ELSE UNCHANGED budget
          /\ Note("missed", There(Live["password"]))
    /\ UNCHANGED <<outside, history, claim, dep, queued, failed>>

\* deleteOldPostgresSecrets: the API server deletes what carries the label, one
\* after the other, the bootstrap Secret of the task before included.
DeleteOld ==
    /\ pc = "clean"
    /\ \/ /\ \E s \in OldSecrets : There(Live[s]) /\ Write(s, NoSecret)
          /\ UNCHANGED pc
       \/ /\ \A s \in OldSecrets : ~There(Live[s])
          /\ pc' = "create"
          /\ UNCHANGED history
    /\ UNCHANGED <<cluster, claim, dep, queued, failed, budget>>

\* GeneratePostgresSecret: a random password, one that is nowhere in use.
InUse ==
    {history[i][s].pw : i \in DOMAIN history, s \in Secrets}
        \cup {data} \cup {pod[o].pw : o \in Operands}

RandomPassword == CHOOSE p \in 1..Cardinality(InUse) : p \notin InUse

CreatePassword ==
    /\ pc = "create"
    /\ pc' = AfterPassword
    /\ Write("password", [owner |-> cr.uid, pw |-> RandomPassword])
    /\ UNCHANGED <<cluster, claim, dep, queued, failed, budget>>

\* PostgresConnectionString of the Secret found in the cache; it has no value
\* when the Secret, or the password in it, is missing.
PostgresConnectionString(found) == found.pw

\* Mutant: a missing Secret is not an error.
ReconcileDSNUnchecked ==
    /\ pc = "dsn"
    /\ pc' = "end"
    /\ LET want == PostgresConnectionString(Seen["password"])
           found == Seen["dsn"]
       IN  IF ~There(found) /\ ~There(Live["dsn"])
           THEN Write("dsn", [owner |-> cr.uid, pw |-> want]) /\ UNCHANGED failed
           ELSE UNCHANGED <<history, failed>>
    /\ UNCHANGED <<cluster, claim, dep, queued, budget>>

\* reconcileOtelCollectorPostgresSecret: create it, or update the one found when
\* the string differs; a stale copy is refused.
ReconcileDSN ==
    /\ pc = "dsn"
    /\ pc' = "end"
    /\ LET want == PostgresConnectionString(Seen["password"])
           found == Seen["dsn"]
       IN  IF ~There(Seen["password"]) THEN failed' = TRUE /\ UNCHANGED history
           ELSE IF There(found) /\ found.pw = want THEN UNCHANGED <<history, failed>>
           ELSE IF found # Live["dsn"] THEN failed' = TRUE /\ UNCHANGED history
           ELSE /\ Write("dsn", [owner |-> IF There(found) THEN found.owner ELSE cr.uid,
                                 pw |-> want])
                /\ UNCHANGED failed
    /\ Note("outdated", There(Seen["password"]) /\ Seen["password"] # Live["password"])
    /\ UNCHANGED <<outside, claim, dep, queued, budget>>

\* A failure in Phase 1 queues the key again, Phase 2 does not start.
EndPhase1 ==
    /\ pc = "end"
    /\ pc' = IF failed THEN "idle" ELSE "claim"
    /\ queued' = (queued \/ failed)
    /\ UNCHANGED <<cluster, history, claim, dep, failed, budget>>

----------------------------------------------------------------------------
(* Phase 2: the first failure ends it.                                     *)

Abort == pc' = "idle" /\ queued' = TRUE

\* storageDefaults: the claim needs a class, given or the cluster's default.
StorageDefaults == storage = "class"

ReconcilePVC ==
    /\ pc = "claim"
    /\ \/ /\ storage = "emptyDir" \/ (StorageDefaults /\ There(claim))
          /\ pc' = "postgres"
          /\ UNCHANGED <<claim, queued>>
       \/ /\ StorageDefaults /\ ~There(claim)
          /\ claim' = [owner |-> cr.uid, terminating |-> FALSE]
          /\ pc' = "postgres"
          /\ UNCHANGED queued
       \/ /\ storage # "emptyDir" /\ ~StorageDefaults
          /\ Abort
          /\ UNCHANGED claim
    /\ UNCHANGED <<cluster, history, dep, failed, budget>>

Running(o) == pod[o].of # 0 /\ pod[o].of = dep[o]

\* The Deployments name the Secrets and not their content: one that exists stays
\* as it is. While the pods come up the status is not Ready, and may be tried again.
ReconcileDeployment(o) ==
    /\ pc = o
    /\ dep' = IF dep[o] # 0 THEN dep ELSE [dep EXCEPT ![o] = cr.uid]
    /\ \/ /\ o = "postgres" /\ otel
          /\ pc' = "otel" /\ UNCHANGED queued
       \/ /\ o = "otel" \/ ~otel
          /\ pc' = "idle"
          /\ \/ UNCHANGED queued
             \/ ~Running("postgres") /\ queued' = TRUE
    /\ UNCHANGED <<cluster, history, claim, failed, budget>>

\* An API error: of a task of Phase 1, of a task of Phase 2.
TaskFails ==
    /\ pc \in (Phase1 \cup Phase2) \ {"end"}
    /\ Spend("fault")
    /\ \/ /\ pc \in Phase1
          /\ pc' = CASE pc = "bootstrap" -> "password"
                     [] pc = "dsn" -> "end"
                     [] OTHER -> AfterPassword
          /\ failed' = TRUE
          /\ UNCHANGED queued
       \/ /\ pc \in Phase2
          /\ Abort
          /\ UNCHANGED failed
    /\ UNCHANGED <<cluster, history, claim, dep>>

----------------------------------------------------------------------------
(* The finalization, as far as it concerns these objects.                  *)

\* What listOwnedResources finds of the CR.
ListedSecrets == {s \in Secrets : Seen[s].owner = cr.uid}

\* deleteOwnedResources: a call that fails is only logged. A claim goes once no
\* pod uses it.
DeleteOwned ==
    /\ pc = "finalize"
    /\ pc' = "wait"
    /\ \E kept \in SUBSET (ListedSecrets \cup {"claim"} \cup Operands) :
          /\ \/ kept = {} /\ UNCHANGED budget
             \/ Cardinality(kept) = 1 /\ Spend("fault")
          /\ Len(history) < MaxLag
          /\ history' = Append(history,
                [s \in Secrets |-> IF s \in ListedSecrets \ kept THEN NoSecret ELSE Live[s]])
          /\ claim' = [claim EXCEPT !.terminating =
                          @ \/ (claim.owner = cr.uid /\ "claim" \notin kept)]
          /\ dep' = [o \in Operands |-> IF dep[o] = cr.uid /\ o \notin kept THEN 0 ELSE dep[o]]
    /\ UNCHANGED <<cluster, queued, failed>>

\* waitForOwnedResourcesDeletion ends, also by its time-out, and the finalizer is
\* removed.
EndWait ==
    /\ pc = "wait"
    /\ pc' = "idle"
    /\ cr' = [cr EXCEPT !.state = "none"]
    /\ UNCHANGED <<otel, storage, history, claim, data, dep, pod, queued, failed,
                   upset, budget>>

----------------------------------------------------------------------------
(* The cluster.                                                            *)

CreateCR ==
    /\ cr.state = "none" /\ cr.uid < MaxUid
    /\ Spend("recreate")
    /\ cr' = [uid |-> cr.uid + 1, state |-> "live"]
    /\ queued' = TRUE
    /\ UNCHANGED <<otel, storage, history, claim, data, dep, pod, pc, failed, upset>>

DeleteCR ==
    /\ cr.state = "live"
    /\ cr' = [cr EXCEPT !.state = "deleting"]
    /\ queued' = TRUE
    /\ UNCHANGED <<otel, storage, history, claim, data, dep, pod, pc, failed, upset, budget>>

\* Mutant: Secrets are not registered with Owns().
DeliverSilently ==
    /\ Len(history) > 1
    /\ history' = Tail(history)
    /\ UNCHANGED <<cluster, claim, dep, queued, pc, failed, budget>>

\* The informer delivers a state; Owns() queues the key.
Deliver ==
    /\ Len(history) > 1
    /\ history' = Tail(history)
    /\ queued' = TRUE
    /\ UNCHANGED <<cluster, claim, dep, pc, failed, budget>>

\* The garbage collector deletes an object of a CR that is gone.
CollectSecret(s) ==
    /\ Dead(Live[s].owner)
    /\ Write(s, NoSecret)
    /\ UNCHANGED <<cluster, claim, dep, queued, pc, failed, budget>>

CollectDeployment(o) ==
    /\ Dead(dep[o])
    /\ dep' = [dep EXCEPT ![o] = 0]
    /\ queued' = TRUE
    /\ UNCHANGED <<cluster, history, claim, pc, failed, budget>>

CollectClaim ==
    /\ Dead(claim.owner) /\ ~claim.terminating
    /\ claim' = [claim EXCEPT !.terminating = TRUE]
    /\ UNCHANGED <<cluster, history, dep, queued, pc, failed, budget>>

\* A claim that is deleted goes with its volume when no pod uses it.
ClaimGone ==
    /\ claim.terminating /\ pod["postgres"].of = 0
    /\ claim' = [owner |-> 0, terminating |-> FALSE]
    /\ data' = 0
    /\ queued' = TRUE
    /\ UNCHANGED <<cr, otel, storage, history, dep, pod, pc, failed, upset, budget>>

\* The database's pod starts when all it refers to is there: the volume of a new
\* database takes the password.
StartPostgres ==
    /\ dep["postgres"] # 0 /\ pod["postgres"].of = 0
    /\ There(Live["bootstrap"]) /\ There(Live["password"])
    /\ storage # "emptyDir" => There(claim) /\ ~claim.terminating
    /\ pod' = [pod EXCEPT !["postgres"] = [of |-> dep["postgres"],
                                           pw |-> Live["password"].pw]]
    /\ data' = IF data = 0 THEN Live["password"].pw ELSE data
    /\ UNCHANGED <<cr, otel, storage, history, claim, dep, queued, pc, failed, upset, budget>>

\* The init container of the Collector waits for the database.
StartOtel ==
    /\ dep["otel"] # 0 /\ pod["otel"].of = 0
    /\ There(Live["dsn"])
    /\ pod["postgres"].of # 0
    /\ pod' = [pod EXCEPT !["otel"] = [of |-> dep["otel"], pw |-> Live["dsn"].pw]]
    /\ UNCHANGED <<cr, otel, storage, history, claim, data, dep, queued, pc, failed,
                   upset, budget>>

\* A pod stops; an emptyDir goes with it.
Stop(o) ==
    /\ pod' = [pod EXCEPT ![o] = NoPod]
    /\ data' = IF o = "postgres" /\ storage = "emptyDir" THEN 0 ELSE data
    /\ UNCHANGED <<cr, otel, storage, history, claim, dep, queued, pc, failed, upset>>

OrphanPod(o) == pod[o].of # 0 /\ ~Running(o) /\ Stop(o) /\ UNCHANGED budget

Evict(o) == Running(o) /\ Spend("eviction") /\ Stop(o)

DeleteByOthers(s) ==
    /\ There(Live[s])
    /\ Spend("delete")
    /\ Write(s, NoSecret)
    /\ Note("deleted", s = "password")
    /\ UNCHANGED <<cr, otel, storage, claim, data, dep, pod, queued, pc, failed>>

\* An administrator makes a storage class the default.
SetDefaultClass ==
    /\ storage = "noclass"
    /\ Spend("class")
    /\ storage' = "class"
    /\ UNCHANGED <<cr, otel, history, claim, data, dep, pod, queued, pc, failed, upset>>

Crash ==
    /\ Spend("crash")
    /\ pc' = "idle" /\ failed' = FALSE /\ queued' = TRUE
    /\ history' = <<Live>>
    /\ UNCHANGED <<cluster, claim, dep>>

Worker ==
    \/ StartReconcile
    \/ ReconcileBootstrap \/ ReconcilePassword \/ DeleteOld \/ CreatePassword
    \/ ReconcileDSN \/ EndPhase1
    \/ ReconcilePVC \/ (\E o \in Operands : ReconcileDeployment(o))
    \/ TaskFails
    \/ DeleteOwned \/ EndWait

Collect ==
    \/ \E s \in Secrets : CollectSecret(s)
    \/ \E o \in Operands : CollectDeployment(o) \/ OrphanPod(o)
    \/ CollectClaim \/ ClaimGone

Next ==
    \/ Worker \/ Deliver \/ Collect \/ StartPostgres \/ StartOtel
    \/ CreateCR \/ DeleteCR \/ SetDefaultClass \/ Crash
    \/ \E o \in Operands : Evict(o)
    \/ \E s \in Secrets : DeleteByOthers(s)

Spec == Init /\ [][Next]_vars

\* The worker, the informer, the garbage collector and the kubelet go on.
Fairness ==
    /\ WF_vars(Worker) /\ WF_vars(Deliver)
    /\ WF_vars(Collect)
    /\ WF_vars(StartPostgres) /\ WF_vars(StartOtel)

FairSpec == Spec /\ Fairness

----------------------------------------------------------------------------
(* Properties.                                                             *)

\* The password in the Secret is the one the database was initialised with, through
\* every path of the tasks, their failures, evictions, crashes between the deletion of
\* the old Secrets and the creation of the new one, and CRs that are deleted and created
\* again. Three things the code does not guard against are set apart: that somebody
\* else deletes the Secret, that the worker misses one that is there, and that the
\* database of an earlier CR, or its Secret, has outlived the finalization.
NeverLockedOut ==
    upset \subseteq {"outdated"} /\ data # 0 /\ There(Live["password"])
        => Live["password"].pw = data

\* The database and the Collector have the password of the volume.
Connected == Live["password"].pw = data /\ (otel => pod["otel"].pw = data)

\* In the end both run, whatever was deleted, missed or left over, although the
\* reconciliation that generates the password also deletes the bootstrap Secret, which
\* the pod mounts, and is not ready with it; and if nothing of that kind happened, they
\* have the right password.
ConnectsInTheEnd ==
    <>[]( cr.state # "live" \/ storage = "noclass" \/
          ( /\ Running("postgres") /\ data # 0
            /\ otel => Running("otel")
            /\ upset = {} => Connected ) )

=============================================================================
