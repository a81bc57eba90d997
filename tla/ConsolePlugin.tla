---------------------------- MODULE ConsolePlugin ----------------------------
(***************************************************************************)
(* The operator's two plugins of the OpenShift console (internal/controller/*)
(* utils/console_plugin_reconciler.go, console and agenticconsole): their  *)
(* ConsolePlugin objects and their entries in the list of active plugins   *)
(* of the cluster's Console object, which the operator shares with every   *)
(* other plugin of the cluster.                                            *)
(*                                                                         *)
(* A live CR has both plugins created and activated; the finalization of   *)
(* the CR deactivates and deletes them, once. Each change of the list is a *)
(* read of a lagging cache and a write that a newer version refuses.       *)
(***************************************************************************)
EXTENDS Naturals

CONSTANTS
    Plugins,     \* the operator's plugins: chat, and agentic with its image
    Others,      \* plugins of other owners
    Attempts,    \* steps of retry.DefaultRetry
    MaxCRs,      \* bound: CRs created one after the other
    MaxEdits,    \* bound: writes of the Console object by others
    MaxFaults,   \* bound: API errors
    MaxCrashes   \* bound: crashes of the operator

ASSUME PluginsAssumption ==
    /\ "chat" \in Plugins /\ Plugins \subseteq {"chat", "agentic"}
    /\ Others \cap Plugins = {}
ASSUME ConsoleBounds ==
    /\ Attempts \in Nat \ {0} /\ MaxCRs \in Nat /\ MaxEdits \in Nat
    /\ MaxFaults \in Nat /\ MaxCrashes \in Nat

VARIABLES
    cr,        \* the CR: none, live, deleting
    uid,       \* of the last CR
    console,   \* the Console object
    cachedConsole,
    owner,     \* per ConsolePlugin object, the uid of its owner; 0: absent
    cachedOwner,
    queued,    \* the CR's key is in the work queue
    pc,        \* the task the worker is at
    cur,       \* its plugin
    copy,      \* the Console as the task read it and is about to write it
    attempt,   \* attempts the task has made
    failed,    \* a task of this pass failed
    budget     \* what is left of the bounds

crVars == <<cr, uid>>
clusterVars == <<console, owner>>
cacheVars == <<cachedConsole, cachedOwner>>
taskVars == <<copy, attempt>>
vars == <<crVars, clusterVars, cacheVars, queued, pc, cur, taskVars, failed, budget>>

NoCopy == [there |-> FALSE, plugins |-> {}, rv |-> 0]
Console == [there : BOOLEAN, plugins : SUBSET (Plugins \cup Others), rv : Nat]
UpTasks == {"plugin", "activate"}
DownTasks == {"deactivate", "delete"}
Budgets == {"edit", "fault", "crash"}

\* Every variable stays within its type.
TypeOK ==
    /\ cr \in {"none", "live", "deleting"} /\ uid \in 0..MaxCRs
    /\ console \in Console /\ cachedConsole \in Console /\ copy \in Console
    /\ owner \in [Plugins -> 0..MaxCRs] /\ cachedOwner \in [Plugins -> 0..MaxCRs]
    /\ queued \in BOOLEAN /\ failed \in BOOLEAN
    /\ pc \in UpTasks \cup DownTasks \cup {"idle", "upEnd", "downEnd"}
    /\ cur \in Plugins
    /\ attempt \in 0..Attempts
    /\ budget \in [Budgets -> Nat]

\* A cluster whose console already shows the plugins of others.
Init ==
    /\ cr = "none" /\ uid = 0
    /\ console = [there |-> TRUE, plugins |-> Others, rv |-> 1]
    /\ cachedConsole = console /\ copy = NoCopy
    /\ owner = [p \in Plugins |-> 0] /\ cachedOwner = owner
    /\ queued = FALSE /\ failed = FALSE
    /\ pc = "idle" /\ cur = "chat" /\ attempt = 0
    /\ budget = [edit |-> MaxEdits, fault |-> MaxFaults, crash |-> MaxCrashes]

Spend(b) == budget[b] > 0 /\ budget' = [budget EXCEPT ![b] = @ - 1]

----------------------------------------------------------------------------
(* The worker.                                                             *)

\* A pass begins: Phase 2 of a live CR, the finalization of one being deleted.
StartReconcile ==
    /\ pc = "idle" /\ queued
    /\ queued' = FALSE
    /\ pc' = CASE cr = "live" -> "plugin"
               [] cr = "deleting" -> "deactivate"
               [] OTHER -> "idle"
    /\ UNCHANGED <<crVars, clusterVars, cacheVars, cur, taskVars, failed, budget>>

\* The next plugin's first task, or the end of the pass.
NextPlugin ==
    IF cur = "chat" /\ "agentic" \in Plugins
    THEN cur' = "agentic" /\ pc' = IF pc \in UpTasks THEN "plugin" ELSE "deactivate"
    ELSE cur' = cur /\ pc' = IF pc \in UpTasks THEN "upEnd" ELSE "downEnd"

\* A task is done: the second one of its plugin follows, or the next plugin.
Done ==
    /\ copy' = NoCopy /\ attempt' = 0
    /\ IF pc \in {"plugin", "deactivate"}
       THEN cur' = cur /\ pc' = IF pc = "plugin" THEN "activate" ELSE "delete"
       ELSE NextPlugin
    /\ UNCHANGED failed

\* RunReconcileTasks and RunDeleteTasks stop a plugin's list at its first error;
\* the other plugin's list runs all the same.
Fail ==
    /\ copy' = NoCopy /\ attempt' = 0
    /\ NextPlugin
    /\ failed' = TRUE

\* An API error ends any task.
TaskFails ==
    /\ pc \in UpTasks \cup DownTasks
    /\ Spend("fault")
    /\ Fail
    /\ UNCHANGED <<crVars, clusterVars, cacheVars, queued>>

\* A ConsolePlugin that the cache does not show is created. (A spec that drifted
\* is OperandRollout's Apply.)
ReconcileConsolePluginCR ==
    /\ pc = "plugin"
    /\ IF cachedOwner[cur] = 0 /\ owner[cur] # 0
       THEN Fail /\ UNCHANGED owner
       ELSE /\ owner' = IF cachedOwner[cur] = 0 THEN [owner EXCEPT ![cur] = uid]
                                                ELSE owner
            /\ Done
    /\ UNCHANGED <<crVars, console, cacheVars, queued, budget>>

\* Mutant: only a Console without plugins gets the entry.
MissingFromEmpty(list) == list = {}

\* The entry has to be added.
MissingFrom(list) == cur \notin list

\* ActivateConsolePlugin and DeactivateConsolePlugin, the Get: nothing is written
\* when the entry is as it should be, and a Console that is not there is an error
\* for the one and fine for the other.
ReadConsole ==
    /\ pc \in {"activate", "deactivate"} /\ copy = NoCopy
    /\ \/ /\ ~cachedConsole.there
          /\ IF pc = "activate" THEN Fail ELSE Done
       \/ /\ cachedConsole.there
          /\ IF pc = "activate" THEN ~MissingFrom(cachedConsole.plugins)
                                ELSE cur \notin cachedConsole.plugins
          /\ Done
       \/ /\ cachedConsole.there
          /\ IF pc = "activate" THEN MissingFrom(cachedConsole.plugins)
                                ELSE cur \in cachedConsole.plugins
          /\ copy' = cachedConsole /\ attempt' = attempt + 1
          /\ UNCHANGED <<pc, cur, failed>>
    /\ UNCHANGED <<crVars, clusterVars, cacheVars, queued, budget>>

\* Mutant: the Update carries no resource version.
AcceptedAlways == console.there

\* The API server takes an Update of the version it holds.
Accepted == console.there /\ copy.rv = console.rv

\* Mutant: one attempt too many.
AttemptsLeftOrEqual == attempt <= Attempts

AttemptsLeft == attempt < Attempts

\* The Update, under RetryOnConflict: a conflict reads the cache again, until the
\* attempts are used up; any other error ends the task.
WriteConsole ==
    /\ copy # NoCopy
    /\ \/ /\ Accepted
          /\ console' = [console EXCEPT !.rv = @ + 1,
                            !.plugins = IF pc = "activate" THEN copy.plugins \cup {cur}
                                                           ELSE copy.plugins \ {cur}]
          /\ Done
       \/ /\ ~Accepted /\ console.there /\ AttemptsLeft
          /\ copy' = NoCopy
          /\ UNCHANGED <<console, pc, cur, attempt, failed>>
       \/ /\ ~Accepted /\ (~console.there \/ ~AttemptsLeft)
          /\ Fail
          /\ UNCHANGED console
    /\ UNCHANGED <<crVars, owner, cacheVars, queued, budget>>

\* DeleteConsolePluginCR: absent in the cache or in the API server is success.
DeleteConsolePluginCR ==
    /\ pc = "delete"
    /\ owner' = IF cachedOwner[cur] = 0 THEN owner ELSE [owner EXCEPT ![cur] = 0]
    /\ Done
    /\ UNCHANGED <<crVars, console, cacheVars, queued, budget>>

\* The locals of a pass end with it.
Return == pc' = "idle" /\ cur' = "chat" /\ failed' = FALSE

\* Phase 2 reports a failed operand and the key is queued again.
EndPass ==
    /\ pc = "upEnd"
    /\ Return
    /\ queued' = (queued \/ failed)
    /\ UNCHANGED <<crVars, clusterVars, cacheVars, taskVars, budget>>

\* finalizeOLSConfig goes on after a failed removal; the finalizer is removed and
\* the CR goes. An error of what follows (listing, the Update) repeats it all.
EndFinalization ==
    /\ pc = "downEnd"
    /\ Return
    /\ \/ cr' = "none" /\ UNCHANGED <<queued, budget>>
       \/ Spend("fault") /\ queued' = TRUE /\ UNCHANGED cr
    /\ UNCHANGED <<uid, clusterVars, cacheVars, taskVars>>

----------------------------------------------------------------------------
(* The rest of the cluster.                                                *)

CreateCR ==
    /\ cr = "none" /\ uid < MaxCRs
    /\ cr' = "live" /\ uid' = uid + 1
    /\ queued' = TRUE
    /\ UNCHANGED <<clusterVars, cacheVars, pc, cur, taskVars, failed, budget>>

DeleteCR ==
    /\ cr = "live"
    /\ cr' = "deleting"
    /\ queued' = TRUE
    /\ UNCHANGED <<uid, clusterVars, cacheVars, pc, cur, taskVars, failed, budget>>

\* Another owner adds its plugin or somebody removes an entry, ours too.
EditConsole(p) ==
    /\ console.there /\ Spend("edit")
    /\ p \in Others \/ p \in console.plugins
    /\ console' = [console EXCEPT !.rv = @ + 1,
                      !.plugins = IF p \in @ THEN @ \ {p} ELSE @ \cup {p}]
    /\ UNCHANGED <<crVars, owner, cacheVars, queued, pc, cur, taskVars, failed>>

\* The Console object is deleted, and comes back empty.
ReplaceConsole ==
    /\ \/ console.there /\ Spend("edit")
       \/ ~console.there /\ UNCHANGED budget
    /\ console' = [there |-> ~console.there, plugins |-> {}, rv |-> console.rv + 1]
    /\ UNCHANGED <<crVars, owner, cacheVars, queued, pc, cur, taskVars, failed>>

\* A ConsolePlugin whose owner is gone is collected.
CollectGarbage(p) ==
    /\ owner[p] # 0 /\ (cr = "none" \/ owner[p] # uid)
    /\ owner' = [owner EXCEPT ![p] = 0]
    /\ UNCHANGED <<crVars, console, cacheVars, queued, pc, cur, taskVars, failed, budget>>

SyncConsole ==
    /\ cachedConsole # console
    /\ cachedConsole' = console
    /\ UNCHANGED <<crVars, clusterVars, cachedOwner, queued, pc, cur, taskVars, failed,
                   budget>>

\* Owns(ConsolePlugin): the event also queues the key.
SyncPlugin(p) ==
    /\ cachedOwner[p] # owner[p]
    /\ cachedOwner' = [cachedOwner EXCEPT ![p] = owner[p]]
    /\ queued' = (queued \/ cr # "none")
    /\ UNCHANGED <<crVars, clusterVars, cachedConsole, pc, cur, taskVars, failed,
                   budget>>

\* An event of the CR or of another object the operator owns, or a resync. The
\* Console is not watched.
OtherEvent ==
    /\ cr # "none" /\ ~queued
    /\ queued' = TRUE
    /\ UNCHANGED <<crVars, clusterVars, cacheVars, pc, cur, taskVars, failed, budget>>

Crash ==
    /\ Spend("crash")
    /\ Return
    /\ copy' = NoCopy /\ attempt' = 0
    /\ queued' = (cr # "none")
    /\ cachedConsole' = console /\ cachedOwner' = owner
    /\ UNCHANGED <<crVars, clusterVars>>

Worker ==
    \/ StartReconcile \/ TaskFails \/ ReconcileConsolePluginCR \/ ReadConsole
    \/ WriteConsole \/ DeleteConsolePluginCR \/ EndPass \/ EndFinalization

Cluster ==
    \/ CreateCR \/ DeleteCR \/ ReplaceConsole \/ SyncConsole \/ OtherEvent \/ Crash
    \/ \E p \in Plugins \cup Others : EditConsole(p)
    \/ \E p \in Plugins : CollectGarbage(p) \/ SyncPlugin(p)

Next == Worker \/ Cluster

Spec == Init /\ [][Next]_vars

\* The worker, the informers, the garbage collector and whoever puts a deleted
\* Console back go on, and the CR's informer resyncs.
ResyncSpec ==
    /\ Spec
    /\ WF_vars(Worker) /\ WF_vars(SyncConsole) /\ WF_vars(OtherEvent)
    /\ WF_vars(~console.there /\ ReplaceConsole)
    /\ \A p \in Plugins : WF_vars(SyncPlugin(p)) /\ WF_vars(CollectGarbage(p))

----------------------------------------------------------------------------
(* Properties.                                                             *)

\* The operator never changes anybody else's entry in the shared list, although
\* it writes back a list read from a cache that lags (Activate- and
\* DeactivateConsolePlugin).
OthersUntouched ==
    [][Worker => console'.plugins \ Plugins = console.plugins \ Plugins]_vars

\* While the CR lives, both plugins end up active and owned by that CR, whoever
\* edited or replaced the Console, and whatever an earlier CR left behind.
ActiveInTheEnd ==
    <>[](cr = "live")
        => <>[](\A p \in Plugins : p \in console.plugins /\ owner[p] = uid)

----------------------------------------------------------------------------
(* The inductive invariant behind OthersUntouched.                         *)

\* Versions tell contents apart: a copy of the Console that has its version is
\* equal to it, which is what makes the conditional Update safe.
VersionInv ==
    /\ console.rv > 0 /\ cachedConsole.rv > 0
    /\ \A c \in {cachedConsole, copy} :
          /\ c.rv <= console.rv
          /\ c.rv = console.rv => c = console

\* A task that has to read again has an attempt left.
RetryInv == copy = NoCopy => attempt < Attempts

ConsoleInv == TypeOK /\ VersionInv /\ RetryInv

=============================================================================
