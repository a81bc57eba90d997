---------------------- MODULE OLSConfigReconciler_proofs ----------------------
(***************************************************************************)
(* Machine-checked proofs about OLSConfigReconciler, for every set of      *)
(* operands and every value of the bounds.                                 *)
(***************************************************************************)
EXTENDS OLSConfigReconciler, TLAPS

USE DEF leftVars

\* NoCR and EmptyStatus, the values the worker forgets its locals to, are typed.
LEMMA EmptyTyped == EmptyStatus \in Status /\ NoCR \in CR /\ NoConds \in [Operands -> Reasons]
<1>1. NoConds \in [Operands -> Reasons]
  BY DEF NoConds, Reasons
<1>2. EmptyStatus \in Status
  BY <1>1 DEF EmptyStatus, Status
<1>3. NoCR \in CR
  BY <1>2 DEF NoCR, CR
<1> QED
  BY <1>1, <1>2, <1>3

\* The locals after a return of Reconcile are typed.
LEMMA ForgetLocalsTyped ==
    ForgetLocals => /\ olsconfig' \in CR /\ todo' \in SUBSET Operands
                    /\ failures' \in SUBSET Operands /\ newStatus' \in Status
BY EmptyTyped DEF ForgetLocals

\* Returning from Reconcile, with or without an error, keeps the types.
LEMMA ReturnTyped ==
    ASSUME TypeOK, ReturnNil \/ ReturnError
    PROVE  /\ olsconfig' \in CR /\ todo' \in SUBSET Operands
           /\ failures' \in SUBSET Operands /\ newStatus' \in Status
           /\ pc' \in PCs /\ backoff' \in Nat
<1>1. ForgetLocals /\ pc' = "idle"
  BY DEF ReturnNil, ReturnError
<1>2. backoff' \in Nat
  BY DEF TypeOK, ReturnNil, ReturnError
<1> QED
  BY <1>1, <1>2, ForgetLocalsTyped DEF PCs

\* A fault uses up one of the budget.
LEMMA FaultTyped == TypeOK /\ Fault => trouble' \in Nat
BY DEF TypeOK, Fault

\* Creating and deleting objects keeps the object state typed.
LEMMA CreateTyped ==
    ASSUME TypeOK, NEW o, NEW kinds, CreateObjects(o, kinds)
    PROVE  owner' \in [Objects -> Nat] /\ hidden' \in SUBSET Objects
<1>1. olsconfig.uid \in Nat
  BY DEF TypeOK, CR
<1>2. owner' \in [Objects -> Nat]
  BY <1>1 DEF TypeOK, CreateObjects
<1>3. hidden' \in SUBSET Objects
  BY DEF TypeOK, CreateObjects, ObjectsOf
<1> QED
  BY <1>2, <1>3

LEMMA DeleteTyped ==
    ASSUME TypeOK, NEW S \in SUBSET Objects, DeleteObjects(S)
    PROVE  terminating' \in SUBSET Objects
BY DEF TypeOK, DeleteObjects

\* Setting a condition of an operand keeps a status typed.
LEMMA ConditionTyped ==
    ASSUME NEW s \in Status, NEW o \in Operands, NEW r \in Reasons
    PROVE  /\ [s EXCEPT !.conds[o] = r] \in Status
           /\ WithCondition(s, o, r) \in Status
<1>1. s.conds \in [Operands -> Reasons]
  BY DEF Status
<1>2. [s.conds EXCEPT ![o] = r] \in [Operands -> Reasons]
  BY <1>1
<1> QED
  BY <1>2 DEF Status, WithCondition

\* The reasons read off a Deployment's health are Reasons.
LEMMA ConditionReasonTyped ==
    ASSUME NEW h \in {"progressing", "available", "failing"}
    PROVE  ConditionReason(h) \in Reasons
BY DEF ConditionReason, Reasons

\* A status write leaves a typed CR that differs from the old one in its status.
LEMMA StatusWrittenTyped ==
    ASSUME TypeOK, NEW s \in Status, StatusWritten(s)
    PROVE  /\ cr' \in CR /\ trouble' \in Nat
           /\ cr'.uid = cr.uid /\ cr'.deletion = cr.deletion
           /\ cr'.finalizers = cr.finalizers
<1>1. [cr EXCEPT !.status = s] \in CR
  BY DEF TypeOK, CR
<1> QED
  BY <1>1 DEF TypeOK, StatusWritten, CR

----------------------------------------------------------------------------
(* Type correctness.                                                       *)

\* Every action keeps every variable within its type.
LEMMA TypeStep == TypeOK /\ [Next]_vars => TypeOK'
<1> SUFFICES ASSUME TypeOK, [Next]_vars PROVE TypeOK'
  OBVIOUS
<1> USE EmptyTyped
<1>r. ASSUME ReturnNil \/ ReturnError
      PROVE  /\ olsconfig' \in CR /\ todo' \in SUBSET Operands
             /\ failures' \in SUBSET Operands /\ newStatus' \in Status
             /\ pc' \in PCs /\ backoff' \in Nat
  BY <1>r, ReturnTyped
<1>e. ReturnError => queued' = TRUE
  BY DEF ReturnError
<1>f. Fault => trouble' \in Nat
  BY FaultTyped
<1>k. ASSUME NEW o \in Operands, NEW kinds PROVE ObjectsOf(o, kinds) \in SUBSET Objects
  BY DEF ObjectsOf
<1>l. ASSUME NEW u
      PROVE  ListedOwnedBy(u) \in SUBSET Objects /\ listOwnedResources(u) \in SUBSET Objects
  BY DEF ListedOwnedBy, listOwnedResources
<1>1. CASE StartReconcile
  <2>1. CASE ReturnNil
    BY <1>1, <1>r, <2>1 DEF StartReconcile, TypeOK, clusterVars
  <2>2. CASE ~ReturnNil
    BY <1>1, <2>2 DEF StartReconcile, TypeOK, clusterVars, PCs, Removable
  <2> QED
    BY <2>1, <2>2
<1>2. CASE AddFinalizer
  <2>1. [cr EXCEPT !.finalizers = @ \cup {Finalizer}] \in CR
    BY DEF TypeOK, CR
  <2> QED
    BY <1>2, <1>r, <1>e, <1>f, <2>1 DEF AddFinalizer, TypeOK, clusterVars
<1>3. CASE Preflight
  <2>1. CASE ReturnError
    BY <1>3, <1>r, <1>e, <1>f, <2>1 DEF Preflight, TypeOK, clusterVars
  <2>2. CASE ~ReturnError
    BY <1>3, <2>2 DEF Preflight, TypeOK, clusterVars, PCs, Removable
  <2> QED
    BY <2>1, <2>2
<1>4. ASSUME NEW o \in Operands, RemoveDisabled(o) PROVE TypeOK'
  <2>1. terminating' \in SUBSET Objects
    BY <1>4, <1>k, DeleteTyped DEF RemoveDisabled
  <2>2. trouble' \in Nat /\ failures' \in SUBSET Operands
    BY <1>4, <1>f DEF RemoveDisabled, TypeOK
  <2> QED
    BY <1>4, <2>1, <2>2 DEF RemoveDisabled, TypeOK
<1>5. CASE EnterPhase1
  BY <1>5 DEF EnterPhase1, TypeOK, clusterVars, PCs
<1>6. ASSUME NEW o \in Operands, ReconcileResources(o) PROVE TypeOK'
  <2>1. owner' \in [Objects -> Nat] /\ hidden' \in SUBSET Objects
    BY <1>6, CreateTyped DEF ReconcileResources
  <2>2. trouble' \in Nat /\ failures' \in SUBSET Operands
    BY <1>6, <1>f DEF ReconcileResources, TypeOK
  <2> QED
    BY <1>6, <2>1, <2>2 DEF ReconcileResources, TypeOK
<1>7. CASE FailPhase1
  <2>1. failureStatus \in Status
    BY DEF failureStatus, Status, TypeOK, CR
  <2>2. cr' \in CR /\ trouble' \in Nat
    BY <1>7, <1>f, <2>1, StatusWrittenTyped DEF FailPhase1, StatusRefused, TypeOK
  <2>3. backoff' \in Nat
    <3>1. \A updateErr : Phase1Backoff(updateErr) \in Nat
      BY DEF Phase1Backoff, TypeOK
    <3>2. \E updateErr : backoff' = Phase1Backoff(updateErr)
      BY <1>7 DEF FailPhase1
    <3> QED
      BY <3>1, <3>2
  <2> QED
    BY <1>7, <2>2, <2>3, ForgetLocalsTyped DEF FailPhase1, TypeOK, clusterVars, PCs
<1>8. CASE EnterPhase2
  <2>1. todo' \in SUBSET Operands
    BY <1>8 DEF EnterPhase2, Removable
  <2>2. [o \in Operands |-> IF ~Enabled(o, olsconfig.spec) /\ o \notin todo'
                            THEN "Disabled" ELSE "None"] \in [Operands -> Reasons]
    BY DEF Reasons
  <2>3. olsconfig.generation \in Nat
    BY DEF TypeOK, CR
  <2>4. newStatus' \in Status
    BY <1>8, <2>2, <2>3 DEF EnterPhase2, Status
  <2> QED
    BY <1>8, <2>1, <2>4 DEF EnterPhase2, TypeOK, clusterVars, PCs
<1>9. ASSUME NEW o \in Operands, RemoveAlertsAdapterAgain(o) PROVE TypeOK'
  <2>1. terminating' \in SUBSET Objects
    BY <1>9, <1>k, DeleteTyped DEF RemoveAlertsAdapterAgain
  <2>2. newStatus' \in Status
    BY <1>9, ConditionTyped DEF RemoveAlertsAdapterAgain, TypeOK, Reasons
  <2>3. trouble' \in Nat
    BY <1>9, <1>f DEF RemoveAlertsAdapterAgain, TypeOK
  <2> QED
    BY <1>9, <2>1, <2>2, <2>3 DEF RemoveAlertsAdapterAgain, TypeOK
<1>10. CASE EnterDeployments
  BY <1>10 DEF EnterDeployments, TypeOK, clusterVars, PCs
<1>11. ASSUME NEW o \in Operands, ReconcileDeployment(o) PROVE TypeOK'
  <2>1. owner' \in [Objects -> Nat] /\ hidden' \in SUBSET Objects
    BY <1>11, CreateTyped DEF ReconcileDeployment
  <2>2. ConditionReason(health[o]) \in Reasons /\ "Failed" \in Reasons
    BY ConditionReasonTyped DEF TypeOK, Reasons
  <2>3. newStatus' \in Status
    BY <1>11, <2>2, ConditionTyped DEF ReconcileDeployment, TypeOK
  <2>4. trouble' \in Nat
    BY <1>11, <1>f DEF ReconcileDeployment, TypeOK
  <2> QED
    BY <1>11, <2>1, <2>3, <2>4 DEF ReconcileDeployment, TypeOK
<1>12. CASE PublishHandoff
  <2>1. [newStatus EXCEPT !.overall = "NotReady"] \in Status
    BY DEF TypeOK, Status
  <2> QED
    BY <1>12, <1>f, <2>1 DEF PublishHandoff, TypeOK, clusterVars, PCs
<1>13. CASE UpdateStatus
  <2>1. cr' \in CR /\ trouble' \in Nat
    BY <1>13, <1>f, StatusWrittenTyped DEF UpdateStatus, StatusRefused, TypeOK
  <2> QED
    BY <1>13, <1>r, <1>e, <2>1 DEF UpdateStatus, TypeOK, clusterVars
<1>14. ASSUME NEW o \in Operands, FinalizeRemove(o) PROVE TypeOK'
  <2>1. terminating' \in SUBSET Objects
    BY <1>14, <1>k, DeleteTyped DEF FinalizeRemove
  <2>2. trouble' \in Nat
    BY <1>14, <1>f DEF FinalizeRemove, TypeOK
  <2> QED
    BY <1>14, <2>1, <2>2 DEF FinalizeRemove, TypeOK
<1>15. CASE FinalizeDeleteOwned
  <2>1. terminating' \in SUBSET Objects
    <3>1. \A S \in SUBSET Objects : DeleteObjects(S) => terminating' \in SUBSET Objects
      BY DeleteTyped
    <3> QED
      BY <1>15, <1>l, <3>1 DEF FinalizeDeleteOwned, TypeOK
  <2>2. CASE ReturnError
    BY <1>15, <1>r, <1>e, <1>f, <2>1, <2>2 DEF FinalizeDeleteOwned, TypeOK
  <2>3. CASE ~ReturnError
    BY <1>15, <1>f, <2>1, <2>3 DEF FinalizeDeleteOwned, TypeOK, PCs
  <2> QED
    BY <2>2, <2>3
<1>16. CASE FinalizeWait
  <2>1. olsconfig.uid \in Nat
    BY DEF TypeOK, CR
  <2> QED
    BY <1>16, <1>f, <1>l, <2>1 DEF FinalizeWait, TypeOK, clusterVars, PCs
<1>17. CASE FinalizeRefetch
  BY <1>17, <1>r DEF FinalizeRefetch, TypeOK, clusterVars, PCs
<1>18. CASE RemoveFinalizer
  <2>1. [cr EXCEPT !.finalizers = {}] \in CR
    BY DEF TypeOK, CR
  <2> QED
    BY <1>18, <1>r, <1>e, <1>f, <2>1 DEF RemoveFinalizer, TypeOK, clusterVars
<1>19. CASE CreateCR
  <2>1. cr' \in CR /\ lastUid' \in Nat
    BY <1>19 DEF CreateCR, TypeOK, CR
  <2> QED
    BY <1>19, <1>f, <2>1 DEF CreateCR, TypeOK, workerVars, clusterVars
<1>20. ASSUME NEW o \in SpecGated, EditSpec(o) PROVE TypeOK'
  <2>1. cr.generation \in Nat /\ cr.spec \in SUBSET SpecGated
    BY DEF TypeOK, CR
  <2> DEFINE spec == IF o \in cr.spec THEN cr.spec \ {o} ELSE cr.spec \cup {o}
  <2>a. spec \in SUBSET SpecGated
    BY <2>1
  <2>b. cr' = [cr EXCEPT !.generation = cr.generation + 1, !.spec = spec]
    BY <1>20 DEF EditSpec
  <2>2. cr' \in CR
    <3> HIDE DEF spec
    <3>1. cr.generation + 1 \in Nat
      BY <2>1
    <3>2. [cr EXCEPT !.generation = cr.generation + 1] \in CR
      BY <3>1 DEF TypeOK, CR
    <3>3. cr' = [[cr EXCEPT !.generation = cr.generation + 1] EXCEPT !.spec = spec]
      BY <2>b
    <3> QED
      BY <2>a, <3>2, <3>3 DEF CR
  <2> QED
    BY <1>20, <1>f, <2>2 DEF EditSpec, TypeOK, workerVars, clusterVars
<1>21. CASE DeleteCR
  <2>1. [cr EXCEPT !.deletion = "set"] \in CR
    BY DEF TypeOK, CR
  <2> QED
    BY <1>21, <2>1 DEF DeleteCR, TypeOK, workerVars, clusterVars
<1>22. CASE SyncCache
  BY <1>22 DEF SyncCache, TypeOK, workerVars, clusterVars
<1>23. CASE OtherEvent
  BY <1>23, <1>f DEF OtherEvent, TypeOK, workerVars, clusterVars
<1>24. ASSUME NEW x \in Objects, CollectGarbage(x) PROVE TypeOK'
  BY <1>24 DEF CollectGarbage, TypeOK, workerVars
<1>25. ASSUME NEW x \in Objects, Vanish(x) PROVE TypeOK'
  <2>1. x[1] \in Operands
    BY DEF Objects
  <2>2. [health EXCEPT ![x[1]] = "progressing"]
           \in [Operands -> {"progressing", "available", "failing"}]
    BY <2>1 DEF TypeOK
  <2> QED
    BY <1>25, <2>2 DEF Vanish, TypeOK, workerVars
<1>26. ASSUME NEW o \in Operands, DeploymentAvailable(o) PROVE TypeOK'
  BY <1>26 DEF DeploymentAvailable, TypeOK, workerVars
<1>27. ASSUME NEW o \in Operands, DeploymentFails(o) PROVE TypeOK'
  BY <1>27, <1>f DEF DeploymentFails, TypeOK, workerVars
<1>28. CASE Restart
  BY <1>28, <1>f, ForgetLocalsTyped DEF Restart, TypeOK, clusterVars, PCs
<1>29. CASE UNCHANGED vars
  BY <1>29 DEF vars, TypeOK
<1>30. ASSUME NEW x \in Objects, ShowObject(x) PROVE TypeOK'
  BY <1>30 DEF ShowObject, TypeOK, workerVars
<1> QED
  BY <1>1, <1>2, <1>3, <1>4, <1>5, <1>6, <1>7, <1>8, <1>9, <1>10, <1>11, <1>12,
     <1>13, <1>14, <1>15, <1>16, <1>17, <1>18, <1>19, <1>20, <1>21, <1>22, <1>23,
     <1>24, <1>25, <1>26, <1>27, <1>28, <1>29, <1>30 DEF Next, Worker, Environment

\* The initial state is typed.
LEMMA TypeInit == Init => TypeOK
<1> SUFFICES ASSUME Init PROVE TypeOK
  OBVIOUS
<1>1. owner \in [Objects -> Nat]
  BY DEF Init
<1>2. health \in [Operands -> {"progressing", "available", "failing"}]
  BY DEF Init
<1>3. cr \in CR /\ cache \in CR /\ olsconfig \in CR /\ newStatus \in Status
  BY EmptyTyped DEF Init
<1>4. trouble \in Nat
  BY BoundsAssumption DEF Init
<1> QED
  BY <1>1, <1>2, <1>3, <1>4 DEF Init, TypeOK, PCs

\* TypeOK holds in every behaviour of the reconcile loop.
THEOREM TypeCorrect == Spec => []TypeOK
BY TypeInit, TypeStep, PTL DEF Spec

----------------------------------------------------------------------------
(* The finalizer's guarantees. FinalizerInv reads only the uid, deletion   *)
(* and finalizers of the CR and of its copies, so most steps are frames.   *)

SameCR == cr'.uid = cr.uid /\ cr'.deletion = cr.deletion /\ cr'.finalizers = cr.finalizers
Frame ==
    /\ SameCR /\ UNCHANGED <<lastUid, cache, owner, leftVars>>
    /\ hidden' \subseteq hidden

\* Uids are natural numbers.
LEMMA UidTyped ==
    TypeOK => /\ cr.uid \in Nat /\ cache.uid \in Nat /\ olsconfig.uid \in Nat
              /\ lastUid \in Nat /\ \A x \in Objects : owner[x] \in Nat
BY DEF TypeOK, CR

\* Ending a reconciliation, or losing it in a crash, keeps the invariant.
LEMMA FrameReturn ==
    ASSUME TypeOK, FinalizerInv, Frame, pc' = "idle", olsconfig' = NoCR
    PROVE  FinalizerInv'
<1>1. olsconfig'.uid = 0
  BY DEF NoCR
<1>2. UidInv'
  BY <1>1, UidTyped DEF FinalizerInv, UidInv, WellFormed, Frame, SameCR
<1>3. CacheInv'
  BY DEF FinalizerInv, CacheInv, Frame, SameCR, Live
<1>4. WorkerInv' /\ WaitInv'
  BY DEF WorkerInv, WaitInv, BuildingPCs, FinalizingPCs
<1>5. LagInv' /\ FinalizerBeforeObjects' /\ CleanDeletion'
  BY DEF FinalizerInv, LagInv, FinalizerBeforeObjects, CleanDeletion, Frame, SameCR
<1> QED
  BY <1>2, <1>3, <1>4, <1>5 DEF FinalizerInv

\* Moving on within the two phases, or within the removal calls and the wait,
\* keeps the invariant.
LEMMA FrameMove ==
    ASSUME TypeOK, FinalizerInv, Frame, olsconfig' = olsconfig,
           \/ pc' = pc
           \/ pc \in BuildingPCs /\ pc' \in BuildingPCs
           \/ pc = "remove" /\ pc' = "wait"
    PROVE  FinalizerInv'
<1>1. UidInv' /\ CacheInv'
  BY DEF FinalizerInv, UidInv, CacheInv, WellFormed, Frame, SameCR, Live
<1>2. WorkerInv'
  BY DEF FinalizerInv, WorkerInv, Frame, SameCR, Live, BuildingPCs, FinalizingPCs
<1>3. WaitInv'
  BY DEF FinalizerInv, WaitInv, Frame, BuildingPCs, ListedOwnedBy
<1>4. LagInv' /\ FinalizerBeforeObjects' /\ CleanDeletion'
  BY DEF FinalizerInv, LagInv, FinalizerBeforeObjects, CleanDeletion, Frame, SameCR
<1> QED
  BY <1>1, <1>2, <1>3, <1>4 DEF FinalizerInv

\* Creating objects in a phase keeps the invariant: the objects belong to the
\* current CR, and it has the finalizer.
LEMMA CreateKeeps ==
    ASSUME TypeOK, FinalizerInv, NEW o \in Operands, NEW kinds,
           CreateObjects(o, kinds), pc \in BuildingPCs,
           UNCHANGED <<cr, lastUid, cache, leftVars, olsconfig, pc>>
    PROVE  FinalizerInv'
<1>1. olsconfig.uid = cr.uid /\ Finalizer \in cr.finalizers
  BY DEF FinalizerInv, WorkerInv
<1>2. \A x \in Objects : owner'[x] = owner[x] \/ (owner[x] = 0 /\ owner'[x] = cr.uid)
  BY <1>1 DEF CreateObjects
<1>3. UidInv' /\ CacheInv'
  BY <1>2 DEF FinalizerInv, UidInv, CacheInv, WellFormed, Live
<1>4. WorkerInv' /\ WaitInv'
  BY DEF FinalizerInv, WorkerInv, WaitInv, Live, BuildingPCs, FinalizingPCs
<1>5. FinalizerBeforeObjects' /\ CleanDeletion'
  BY <1>1, <1>2 DEF FinalizerInv, FinalizerBeforeObjects, CleanDeletion
<1>6. LagInv'
  <2>1. cr.uid # 0
    BY <1>1 DEF FinalizerInv, UidInv, WellFormed
  <2>2. \A x \in hidden' \ hidden : /\ x \in Objects /\ x[2] \in ListedKinds
                                    /\ owner'[x] = cr.uid
    BY <1>1 DEF CreateObjects, ObjectsOf
  <2>3. \A x \in hidden \cup overlooked : x \in Objects
    BY DEF TypeOK
  <2> QED
    BY <1>2, <2>1, <2>2, <2>3 DEF FinalizerInv, LagInv
<1> QED
  BY <1>3, <1>4, <1>5, <1>6 DEF FinalizerInv

\* Reading the CR from the cache and choosing a branch keeps the invariant: a
\* cached deletion or a cached finalizer of the current CR is the truth.
LEMMA StartKeeps ==
    ASSUME TypeOK, FinalizerInv, StartReconcile
    PROVE  FinalizerInv'
<1>1. Frame
  BY DEF StartReconcile, Frame, SameCR, clusterVars
<1>2. CASE ReturnNil
  BY <1>1, <1>2, FrameReturn DEF ReturnNil, ForgetLocals
<1>3. CASE ~ReturnNil
  <2>1. olsconfig' = cache /\ cache.uid # 0 /\ pc' \in {"remove", "addFinalizer", "preflight"}
    BY <1>3 DEF StartReconcile
  <2>2. UidInv' /\ CacheInv'
    BY <1>1, <2>1 DEF FinalizerInv, UidInv, CacheInv, WellFormed, Frame, SameCR, Live
  <2>3. WorkerInv'
    <3>1. CASE pc' = "remove"
      <4>1. cache.deletion = "set" /\ Finalizer \in cache.finalizers
        BY <1>3, <3>1 DEF StartReconcile, deletionRequested
      <4>2. ~Live(cache) /\ ~Live(cr)
        BY <4>1 DEF FinalizerInv, CacheInv, Live
      <4> QED
        BY <1>1, <2>1, <3>1, <4>1, <4>2
        DEF FinalizerInv, CacheInv, WorkerInv, Frame, SameCR, Live, BuildingPCs, FinalizingPCs
    <3>2. CASE pc' = "addFinalizer"
      BY <1>1, <2>1, <3>2 DEF WorkerInv, Frame, SameCR, BuildingPCs, FinalizingPCs
    <3>3. CASE pc' = "preflight"
      <4>1. cache.deletion = "unset" /\ Finalizer \in cache.finalizers
        BY <1>3, <3>3 DEF StartReconcile, deletionRequested, TypeOK, CR
      <4>2. cache.uid = cr.uid /\ Finalizer \in cr.finalizers
        BY <2>1, <4>1 DEF FinalizerInv, CacheInv, Live
      <4> QED
        BY <1>1, <2>1, <3>3, <4>2 DEF WorkerInv, Frame, SameCR, BuildingPCs, FinalizingPCs
    <3> QED
      BY <2>1, <3>1, <3>2, <3>3
  <2>4. WaitInv' /\ LagInv' /\ FinalizerBeforeObjects' /\ CleanDeletion'
    BY <1>1, <2>1
    DEF FinalizerInv, WaitInv, LagInv, FinalizerBeforeObjects, CleanDeletion, Frame, SameCR
  <2> QED
    BY <2>2, <2>3, <2>4 DEF FinalizerInv
<1> QED
  BY <1>2, <1>3

\* Adding the finalizer keeps the invariant: the copy was up to date, so the
\* cache has seen this CR.
LEMMA AddFinalizerKeeps ==
    ASSUME TypeOK, FinalizerInv, AddFinalizer
    PROVE  FinalizerInv'
<1>1. CASE UNCHANGED cr
  BY <1>1, FrameReturn
  DEF AddFinalizer, Frame, SameCR, clusterVars, ReturnNil, ReturnError, ForgetLocals
<1>2. CASE cr' # cr
  <2>1. /\ olsconfig = cr /\ cr' = [cr EXCEPT !.finalizers = @ \cup {Finalizer}]
        /\ pc = "addFinalizer" /\ pc' = "idle" /\ olsconfig' = NoCR
        /\ UNCHANGED <<lastUid, cache, owner, hidden, leftVars>>
    BY <1>2 DEF AddFinalizer, clusterVars, ReturnNil, ForgetLocals
  <2>2. cr'.uid = cr.uid /\ cr'.deletion = cr.deletion /\ Finalizer \in cr'.finalizers
    BY <2>1 DEF TypeOK, CR
  <2>3. cr.uid # 0 /\ cache.uid = cr.uid
    BY <2>1 DEF FinalizerInv, WorkerInv
  <2>4. UidInv'
    BY <2>1, <2>2, <2>3, UidTyped DEF FinalizerInv, UidInv, WellFormed, NoCR
  <2>5. CacheInv'
    BY <2>1, <2>2, <2>3 DEF FinalizerInv, CacheInv, Live
  <2>6. WorkerInv' /\ WaitInv'
    BY <2>1 DEF WorkerInv, WaitInv, BuildingPCs, FinalizingPCs
  <2>7. LagInv' /\ FinalizerBeforeObjects' /\ CleanDeletion'
    BY <2>1, <2>2 DEF FinalizerInv, LagInv, FinalizerBeforeObjects, CleanDeletion
  <2> QED
    BY <2>4, <2>5, <2>6, <2>7 DEF FinalizerInv
<1> QED
  BY <1>1, <1>2

\* The end of the wait keeps the invariant: what it lists is gone and what it overlooks
\* is recorded, or it is given up.
LEMMA WaitKeeps ==
    ASSUME TypeOK, FinalizerInv, FinalizeWait
    PROVE  FinalizerInv'
<1>1. /\ pc = "wait" /\ pc' = "refetch" /\ UNCHANGED <<cr, lastUid, cache, olsconfig, owner>>
      /\ timedOut \subseteq timedOut'
      /\ timedOut' \subseteq timedOut \cup {olsconfig.uid}
      /\ overlooked \subseteq overlooked' /\ hidden' = hidden
      /\ overlooked' \subseteq overlooked \cup ListedOwnedBy(olsconfig.uid)
      /\ ListedOwnedBy(olsconfig.uid) \subseteq overlooked' \/ olsconfig.uid \in timedOut'
  BY DEF FinalizeWait, clusterVars
<1>2. UidInv'
  <2>1. olsconfig.uid # 0 /\ (olsconfig.uid = cr.uid => cr.deletion = "set")
    BY <1>1 DEF FinalizerInv, WorkerInv, FinalizingPCs
  <2> QED
    BY <1>1, <2>1 DEF FinalizerInv, UidInv, WellFormed
<1>3. CacheInv' /\ WorkerInv'
  BY <1>1 DEF FinalizerInv, CacheInv, WorkerInv, Live, BuildingPCs, FinalizingPCs
<1>4. WaitInv'
  BY <1>1 DEF WaitInv, ListedOwnedBy
<1>5. FinalizerBeforeObjects' /\ CleanDeletion'
  BY <1>1 DEF FinalizerInv, FinalizerBeforeObjects, CleanDeletion
<1>6. LagInv'
  <2>1. olsconfig.uid # 0
    BY <1>1 DEF FinalizerInv, WorkerInv
  <2> QED
    BY <1>1, <2>1 DEF FinalizerInv, LagInv, ListedOwnedBy
<1> QED
  BY <1>2, <1>3, <1>4, <1>5, <1>6 DEF FinalizerInv

\* Reading the CR again keeps the invariant: if what it finds still has the
\* finalizer, it is the CR that was waited for.
LEMMA RefetchKeeps ==
    ASSUME TypeOK, FinalizerInv, FinalizeRefetch
    PROVE  FinalizerInv'
<1>1. Frame
  BY DEF FinalizeRefetch, Frame, SameCR, clusterVars
<1>2. CASE ReturnNil
  BY <1>1, <1>2, FrameReturn DEF ReturnNil, ForgetLocals
<1>3. CASE ~ReturnNil
  <2>1. olsconfig' = cache /\ cache.uid # 0 /\ pc = "refetch" /\ pc' = "strip"
    BY <1>3 DEF FinalizeRefetch
  <2>2. UidInv' /\ CacheInv'
    BY <1>1, <2>1 DEF FinalizerInv, UidInv, CacheInv, WellFormed, Frame, SameCR, Live
  <2>3. WorkerInv'
    BY <1>1, <2>1
    DEF FinalizerInv, CacheInv, WorkerInv, Frame, SameCR, Live, BuildingPCs, FinalizingPCs
  <2>4. WaitInv'
    <3>1. Finalizer \in cache.finalizers => olsconfig.uid = cache.uid
      BY <2>1 DEF FinalizerInv, WorkerInv, FinalizingPCs
    <3>2. ListedOwnedBy(olsconfig.uid) \subseteq overlooked \/ olsconfig.uid \in timedOut
      BY <2>1 DEF FinalizerInv, WaitInv
    <3> QED
      BY <1>1, <2>1, <3>1, <3>2 DEF WaitInv, ListedOwnedBy, Frame
  <2>5. LagInv' /\ FinalizerBeforeObjects' /\ CleanDeletion'
    BY <1>1 DEF FinalizerInv, LagInv, FinalizerBeforeObjects, CleanDeletion, Frame, SameCR
  <2> QED
    BY <2>2, <2>3, <2>4, <2>5 DEF FinalizerInv
<1> QED
  BY <1>2, <1>3

\* Removing the finalizer keeps the invariant: no CR is live, and the one whose
\* finalizer goes has been waited for.
LEMMA RemoveFinalizerKeeps ==
    ASSUME TypeOK, FinalizerInv, RemoveFinalizer
    PROVE  FinalizerInv'
<1>1. CASE UNCHANGED cr
  BY <1>1, FrameReturn
  DEF RemoveFinalizer, Frame, SameCR, clusterVars, ReturnNil, ReturnError, ForgetLocals
<1>2. CASE cr' # cr
  <2>1. /\ olsconfig = cr /\ cr.uid # 0 /\ pc = "strip" /\ pc' = "idle" /\ olsconfig' = NoCR
        /\ cr' = IF cr.deletion = "set" THEN NoCR ELSE [cr EXCEPT !.finalizers = {}]
        /\ UNCHANGED <<lastUid, cache, owner, hidden, leftVars>>
    BY <1>2 DEF RemoveFinalizer, clusterVars, ReturnNil, ForgetLocals
  <2>2. CASE cr.deletion = "set"
    <3>1. cr' = NoCR /\ Finalizer \in olsconfig.finalizers /\ cache.uid = cr.uid
      BY <2>1, <2>2 DEF FinalizerInv, UidInv, CacheInv
    <3>2. ListedOwnedBy(cr.uid) \subseteq overlooked \/ cr.uid \in timedOut
      BY <2>1, <3>1 DEF FinalizerInv, WaitInv
    <3>3. UidInv'
      BY <2>1, <3>1, UidTyped DEF FinalizerInv, UidInv, WellFormed, NoCR
    <3>4. CacheInv'
      BY <2>1, <3>1 DEF FinalizerInv, CacheInv, WorkerInv, Live, NoCR, FinalizingPCs
    <3>5. WorkerInv' /\ WaitInv'
      BY <2>1 DEF WorkerInv, WaitInv, BuildingPCs, FinalizingPCs
    <3>6. FinalizerBeforeObjects'
      BY <3>1 DEF FinalizerBeforeObjects, NoCR
    <3>7. CleanDeletion'
      BY <2>1, <3>1, <3>2 DEF FinalizerInv, CleanDeletion, ListedOwnedBy, NoCR
    <3>8. LagInv'
      BY <2>1 DEF FinalizerInv, LagInv
    <3> QED
      BY <3>3, <3>4, <3>5, <3>6, <3>7, <3>8 DEF FinalizerInv
  <2>3. CASE cr.deletion # "set"
    <3>1. Finalizer \notin cr.finalizers
      BY <2>1, <2>3 DEF FinalizerInv, WorkerInv, Live, FinalizingPCs, TypeOK, CR
    <3>2. cr.finalizers = {}
      BY <3>1 DEF TypeOK, CR
    <3>3. SameCR
      BY <2>1, <2>3, <3>2 DEF SameCR, TypeOK, CR
    <3> QED
      BY <2>1, <3>3, FrameReturn DEF Frame
  <2> QED
    BY <2>2, <2>3
<1> QED
  BY <1>1, <1>2

\* A new CR keeps the invariant: its uid is fresh, so neither the cache, nor
\* the worker, nor any object knows it.
LEMMA CreateCRKeeps ==
    ASSUME TypeOK, FinalizerInv, CreateCR
    PROVE  FinalizerInv'
<1>1. /\ cr.uid = 0 /\ lastUid' = lastUid + 1
      /\ cr'.uid = lastUid + 1 /\ cr'.deletion = "unset" /\ cr'.finalizers = {}
      /\ UNCHANGED <<cache, pc, olsconfig, owner, hidden, leftVars>>
  BY DEF CreateCR, workerVars, clusterVars
<1>2. /\ cache.uid # cr'.uid /\ olsconfig.uid # cr'.uid /\ cr'.uid # 0
      /\ \A x \in Objects : owner[x] # cr'.uid
  BY <1>1, UidTyped DEF FinalizerInv, UidInv
<1>3. cr.finalizers = {}
  BY <1>1 DEF FinalizerInv, UidInv, WellFormed
<1>4. UidInv'
  BY <1>1, <1>2, UidTyped DEF FinalizerInv, UidInv, WellFormed, TypeOK
<1>5. CacheInv'
  BY <1>1, <1>2 DEF FinalizerInv, CacheInv, Live
<1>6. WorkerInv' /\ WaitInv'
  BY <1>1, <1>2, <1>3
  DEF FinalizerInv, WorkerInv, WaitInv, Live, BuildingPCs, FinalizingPCs, ListedOwnedBy
<1>7. LagInv' /\ FinalizerBeforeObjects' /\ CleanDeletion'
  BY <1>1, <1>2 DEF FinalizerInv, LagInv, FinalizerBeforeObjects, CleanDeletion
<1> QED
  BY <1>4, <1>5, <1>6, <1>7 DEF FinalizerInv

\* Deleting a CR keeps the invariant: without the finalizer it owns nothing.
LEMMA DeleteCRKeeps ==
    ASSUME TypeOK, FinalizerInv, DeleteCR
    PROVE  FinalizerInv'
<1>1. /\ cr.uid # 0 /\ cr.deletion = "unset"
      /\ UNCHANGED <<lastUid, cache, pc, olsconfig, owner, hidden, leftVars>>
  BY DEF DeleteCR, workerVars, clusterVars
<1>2. CASE cr.finalizers = {}
  <2>1. cr'.uid = 0 /\ cr'.deletion = "unset" /\ cr'.finalizers = {}
    BY <1>2 DEF DeleteCR, NoCR
  <2>2. pc \notin BuildingPCs
    BY <1>2 DEF FinalizerInv, WorkerInv
  <2>3. ~Live(cache)
    BY <1>2 DEF FinalizerInv, CacheInv, Live
  <2>4. UidInv'
    BY <1>1, <2>1, UidTyped DEF FinalizerInv, UidInv, WellFormed
  <2>5. CacheInv'
    BY <1>1, <2>1, <2>3 DEF FinalizerInv, UidInv, CacheInv, WellFormed, Live
  <2>6. WorkerInv' /\ WaitInv'
    BY <1>1, <1>2, <2>1, <2>2
    DEF FinalizerInv, WorkerInv, WaitInv, Live, BuildingPCs, FinalizingPCs, ListedOwnedBy
  <2>7. LagInv' /\ FinalizerBeforeObjects' /\ CleanDeletion'
    BY <1>1, <1>2, <2>1 DEF FinalizerInv, LagInv, FinalizerBeforeObjects, CleanDeletion
  <2> QED
    BY <2>4, <2>5, <2>6, <2>7 DEF FinalizerInv
<1>3. CASE cr.finalizers # {}
  <2>1. Finalizer \in cr.finalizers
    BY <1>3 DEF TypeOK, CR
  <2>2. cr'.uid = cr.uid /\ cr'.deletion = "set" /\ cr'.finalizers = cr.finalizers
    BY <1>3 DEF DeleteCR, TypeOK, CR
  <2>3. UidInv' /\ CacheInv'
    BY <1>1, <2>1, <2>2 DEF FinalizerInv, UidInv, CacheInv, WellFormed, Live
  <2>4. WorkerInv' /\ WaitInv'
    BY <1>1, <2>1, <2>2
    DEF FinalizerInv, WorkerInv, WaitInv, Live, BuildingPCs, FinalizingPCs, ListedOwnedBy
  <2>5. LagInv' /\ FinalizerBeforeObjects' /\ CleanDeletion'
    BY <1>1, <2>2 DEF FinalizerInv, LagInv, FinalizerBeforeObjects, CleanDeletion
  <2> QED
    BY <2>3, <2>4, <2>5 DEF FinalizerInv
<1> QED
  BY <1>2, <1>3

\* A delivery of the informer keeps the invariant.
LEMMA SyncKeeps ==
    ASSUME TypeOK, FinalizerInv, cache' = cr,
           UNCHANGED <<cr, lastUid, owner, leftVars>>, hidden' \subseteq hidden,
           \/ UNCHANGED <<pc, olsconfig>>
           \/ pc' = "idle" /\ olsconfig' = NoCR
    PROVE  FinalizerInv'
<1>1. UidInv'
  BY UidTyped DEF FinalizerInv, UidInv, WellFormed, NoCR
<1>2. CacheInv'
  BY DEF CacheInv, Live
<1>3. WorkerInv' /\ WaitInv'
  BY DEF FinalizerInv, WorkerInv, WaitInv, Live, BuildingPCs, FinalizingPCs, ListedOwnedBy
<1>4. LagInv' /\ FinalizerBeforeObjects' /\ CleanDeletion'
  BY DEF FinalizerInv, LagInv, FinalizerBeforeObjects, CleanDeletion
<1> QED
  BY <1>1, <1>2, <1>3, <1>4 DEF FinalizerInv

\* An object that goes away keeps the invariant.
LEMMA VanishKeeps ==
    ASSUME TypeOK, FinalizerInv, NEW x \in Objects, Vanish(x)
    PROVE  FinalizerInv'
<1>1. /\ UNCHANGED <<cr, lastUid, cache, pc, olsconfig, timedOut>>
      /\ hidden' = hidden \ {x} /\ overlooked' = overlooked \ {x}
      /\ \A y \in Objects : owner'[y] = IF y = x THEN 0 ELSE owner[y]
  BY DEF Vanish, workerVars, TypeOK
<1>2. UidInv' /\ CacheInv'
  BY <1>1, UidTyped DEF FinalizerInv, UidInv, CacheInv, WellFormed, Live
<1>3. WorkerInv'
  BY <1>1 DEF FinalizerInv, WorkerInv, Live
<1>4. WaitInv'
  <2>1. pc # "idle" => olsconfig.uid # 0
    BY DEF FinalizerInv, WorkerInv
  <2> QED
    BY <1>1, <2>1 DEF FinalizerInv, WaitInv, ListedOwnedBy
<1>5. FinalizerBeforeObjects' /\ CleanDeletion'
  BY <1>1 DEF FinalizerInv, FinalizerBeforeObjects, CleanDeletion
<1>6. LagInv'
  <2>1. \A y \in hidden \cup overlooked : y \in Objects
    BY DEF TypeOK
  <2> QED
    BY <1>1, <2>1 DEF FinalizerInv, LagInv
<1> QED
  BY <1>2, <1>3, <1>4, <1>5, <1>6 DEF FinalizerInv

\* Every step of the worker and of its environment keeps the invariant.
LEMMA FinalizerStep == TypeOK /\ FinalizerInv /\ [Next]_vars => FinalizerInv'
<1> SUFFICES ASSUME TypeOK, FinalizerInv, [Next]_vars PROVE FinalizerInv'
  OBVIOUS
<1>r. ReturnNil \/ ReturnError => pc' = "idle" /\ olsconfig' = NoCR
  BY DEF ReturnNil, ReturnError, ForgetLocals
<1>1. CASE StartReconcile
  BY <1>1, StartKeeps
<1>2. CASE AddFinalizer
  BY <1>2, AddFinalizerKeeps
<1>3. CASE Preflight
  <2>1. Frame
    BY <1>3 DEF Preflight, Frame, SameCR, clusterVars
  <2>2. CASE ReturnError
    BY <1>r, <2>1, <2>2, FrameReturn
  <2>3. CASE ~ReturnError
    BY <1>3, <2>1, <2>3, FrameMove DEF Preflight, BuildingPCs
  <2> QED
    BY <2>2, <2>3
<1>4. ASSUME NEW o \in Operands, RemoveDisabled(o) PROVE FinalizerInv'
  BY <1>4, FrameMove DEF RemoveDisabled, Frame, SameCR
<1>5. CASE EnterPhase1
  BY <1>5, FrameMove DEF EnterPhase1, Frame, SameCR, clusterVars, BuildingPCs
<1>6. ASSUME NEW o \in Operands, ReconcileResources(o) PROVE FinalizerInv'
  <2>1. PICK kinds : CreateObjects(o, kinds)
    BY <1>6 DEF ReconcileResources
  <2> QED
    BY <1>6, <2>1, CreateKeeps DEF ReconcileResources, BuildingPCs
<1>7. CASE FailPhase1
  <2>1. failureStatus \in Status
    BY EmptyTyped DEF failureStatus, Status, TypeOK, CR
  <2>2. SameCR
    BY <1>7, <2>1, StatusWrittenTyped DEF FailPhase1, StatusRefused, SameCR
  <2> QED
    BY <1>7, <2>2, FrameReturn DEF FailPhase1, Frame, clusterVars, ForgetLocals
<1>8. CASE EnterPhase2
  BY <1>8, FrameMove DEF EnterPhase2, Frame, SameCR, clusterVars, BuildingPCs
<1>9. ASSUME NEW o \in Operands, RemoveAlertsAdapterAgain(o) PROVE FinalizerInv'
  BY <1>9, FrameMove DEF RemoveAlertsAdapterAgain, Frame, SameCR
<1>10. CASE EnterDeployments
  BY <1>10, FrameMove DEF EnterDeployments, Frame, SameCR, clusterVars, BuildingPCs
<1>11. ASSUME NEW o \in Operands, ReconcileDeployment(o) PROVE FinalizerInv'
  <2>1. PICK kinds : CreateObjects(o, kinds)
    BY <1>11 DEF ReconcileDeployment
  <2> QED
    BY <1>11, <2>1, CreateKeeps DEF ReconcileDeployment, BuildingPCs
<1>12. CASE PublishHandoff
  BY <1>12, FrameMove DEF PublishHandoff, Frame, SameCR, clusterVars, BuildingPCs
<1>13. CASE UpdateStatus
  <2>1. SameCR
    BY <1>13, StatusWrittenTyped DEF UpdateStatus, StatusRefused, SameCR, TypeOK
  <2> QED
    BY <1>13, <1>r, <2>1, FrameReturn DEF UpdateStatus, Frame, clusterVars
<1>14. ASSUME NEW o \in Operands, FinalizeRemove(o) PROVE FinalizerInv'
  BY <1>14, FrameMove DEF FinalizeRemove, Frame, SameCR
<1>15. CASE FinalizeDeleteOwned
  <2>1. Frame
    BY <1>15 DEF FinalizeDeleteOwned, Frame, SameCR
  <2>2. CASE ReturnError
    BY <1>r, <2>1, <2>2, FrameReturn
  <2>3. CASE ~ReturnError
    BY <1>15, <2>1, <2>3, FrameMove DEF FinalizeDeleteOwned
  <2> QED
    BY <2>2, <2>3
<1>16. CASE FinalizeWait
  BY <1>16, WaitKeeps
<1>17. CASE FinalizeRefetch
  BY <1>17, RefetchKeeps
<1>18. CASE RemoveFinalizer
  BY <1>18, RemoveFinalizerKeeps
<1>19. CASE CreateCR
  BY <1>19, CreateCRKeeps
<1>20. ASSUME NEW o \in SpecGated, EditSpec(o) PROVE FinalizerInv'
  <2>1. SameCR
    BY <1>20 DEF EditSpec, SameCR, TypeOK, CR
  <2> QED
    BY <1>20, <2>1, FrameMove DEF EditSpec, Frame, workerVars, clusterVars
<1>21. CASE DeleteCR
  BY <1>21, DeleteCRKeeps
<1>22. CASE SyncCache
  BY <1>22, SyncKeeps DEF SyncCache, workerVars, clusterVars
<1>23. CASE OtherEvent
  BY <1>23, FrameMove DEF OtherEvent, Frame, SameCR, workerVars, clusterVars
<1>24. ASSUME NEW x \in Objects, CollectGarbage(x) PROVE FinalizerInv'
  BY <1>24, FrameMove DEF CollectGarbage, Frame, SameCR, workerVars
<1>25. ASSUME NEW x \in Objects, Vanish(x) PROVE FinalizerInv'
  BY <1>25, VanishKeeps
<1>26. ASSUME NEW o \in Operands, DeploymentAvailable(o) PROVE FinalizerInv'
  BY <1>26, FrameMove DEF DeploymentAvailable, Frame, SameCR, workerVars
<1>27. ASSUME NEW o \in Operands, DeploymentFails(o) PROVE FinalizerInv'
  BY <1>27, FrameMove DEF DeploymentFails, Frame, SameCR, workerVars
<1>28. CASE Restart
  BY <1>28, SyncKeeps DEF Restart, clusterVars, ForgetLocals
<1>29. CASE UNCHANGED vars
  BY <1>29, FrameMove DEF vars, Frame, SameCR
<1>30. ASSUME NEW x \in Objects, ShowObject(x) PROVE FinalizerInv'
  BY <1>30, FrameMove DEF ShowObject, Frame, SameCR, workerVars
<1> QED
  BY <1>1, <1>2, <1>3, <1>4, <1>5, <1>6, <1>7, <1>8, <1>9, <1>10, <1>11, <1>12,
     <1>13, <1>14, <1>15, <1>16, <1>17, <1>18, <1>19, <1>20, <1>21, <1>22, <1>23,
     <1>24, <1>25, <1>26, <1>27, <1>28, <1>29, <1>30 DEF Next, Worker, Environment

\* Nothing exists at first.
LEMMA FinalizerInit == Init => FinalizerInv
<1> SUFFICES ASSUME Init PROVE FinalizerInv
  OBVIOUS
<1>1. UidInv /\ CacheInv
  BY DEF Init, UidInv, CacheInv, WellFormed, Live, NoCR
<1>2. WorkerInv /\ WaitInv
  BY DEF Init, WorkerInv, WaitInv, BuildingPCs, FinalizingPCs
<1>3. LagInv /\ FinalizerBeforeObjects /\ CleanDeletion
  BY DEF Init, LagInv, FinalizerBeforeObjects, CleanDeletion
<1> QED
  BY <1>1, <1>2, <1>3 DEF FinalizerInv

\* The inductive invariant holds in every behaviour: for any lag of the CR's cache and of
\* the caches that finalization lists its objects from.
THEOREM FinalizerInvariant == Spec => []FinalizerInv
<1>1. Init => TypeOK /\ FinalizerInv
  BY TypeInit, FinalizerInit
<1>2. (TypeOK /\ FinalizerInv) /\ [Next]_vars => (TypeOK /\ FinalizerInv)'
  BY TypeStep, FinalizerStep
<1> QED
  BY <1>1, <1>2, PTL DEF Spec

\* An object of the current CR implies that the CR carries the finalizer.
THEOREM FinalizerGuardsObjects == Spec => []FinalizerBeforeObjects
<1>1. FinalizerInv => FinalizerBeforeObjects
  BY DEF FinalizerInv
<1> QED
  BY <1>1, FinalizerInvariant, PTL

\* A listed object that a CR that is gone left behind was waited for until the time-out,
\* or no cache showed it when that CR's finalization looked for the last time. For any
\* lag of the caches.
THEOREM DeletionIsClean == Spec => []CleanDeletion
<1>1. FinalizerInv => CleanDeletion
  BY DEF FinalizerInv
<1> QED
  BY <1>1, FinalizerInvariant, PTL

----------------------------------------------------------------------------
(* What a step may do to the objects and to the finalizer.                 *)

\* What a step does to the objects: the two phases create some, for the current CR, one
\* goes, or the caches come to show some.
LEMMA OwnerStep ==
    ASSUME TypeOK, FinalizerInv, [Next]_vars
    PROVE  \/ UNCHANGED <<owner, hidden>>
           \/ UNCHANGED <<owner, cr, leftVars>> /\ hidden' \subseteq hidden
           \/ \E x \in Objects : Vanish(x)
           \/ /\ \E o \in Operands, kinds \in SUBSET Kinds : CreateObjects(o, kinds)
              /\ olsconfig.uid = cr.uid /\ Finalizer \in cr.finalizers
              /\ UNCHANGED <<cr, leftVars>>
<1>1. ASSUME NEW o \in Operands, ReconcileResources(o)
      PROVE  /\ \E kinds \in SUBSET Kinds : CreateObjects(o, kinds)
             /\ olsconfig.uid = cr.uid /\ Finalizer \in cr.finalizers
             /\ UNCHANGED <<cr, leftVars>>
  <2>1. Phase1Kinds(o) \in SUBSET Kinds
    BY DEF Phase1Kinds, Kinds
  <2> QED
    BY <1>1, <2>1 DEF ReconcileResources, FinalizerInv, WorkerInv, BuildingPCs
<1>2. ASSUME NEW o \in Operands, ReconcileDeployment(o)
      PROVE  /\ \E kinds \in SUBSET Kinds : CreateObjects(o, kinds)
             /\ olsconfig.uid = cr.uid /\ Finalizer \in cr.finalizers
             /\ UNCHANGED <<cr, leftVars>>
  <2>1. Phase2Kinds(o) \in SUBSET Kinds /\ {"dep"} \in SUBSET Kinds
    BY DEF Phase2Kinds, Kinds
  <2>2. \E kinds \in SUBSET Kinds : CreateObjects(o, kinds)
    BY <1>2, <2>1 DEF ReconcileDeployment
  <2> QED
    BY <1>2, <2>2 DEF ReconcileDeployment, FinalizerInv, WorkerInv, BuildingPCs
<1>3. CASE Worker
  BY <1>1, <1>2, <1>3
  DEF Worker, StartReconcile, AddFinalizer, Preflight, RemoveDisabled, EnterPhase1,
      FailPhase1, EnterPhase2, RemoveAlertsAdapterAgain, EnterDeployments,
      PublishHandoff, UpdateStatus, FinalizeRemove, FinalizeDeleteOwned, FinalizeWait,
      FinalizeRefetch, RemoveFinalizer, clusterVars
<1>4. CASE Environment
  BY <1>4
  DEF Environment, CreateCR, EditSpec, DeleteCR, SyncCache, OtherEvent, ShowObject,
      CollectGarbage, DeploymentAvailable, DeploymentFails, Restart, clusterVars
<1>5. CASE UNCHANGED vars
  BY <1>5 DEF vars
<1> QED
  BY <1>3, <1>4, <1>5 DEF Next

\* Objects are only ever created for the CR that exists.
THEOREM ObjectsForLiveCR == Spec => CreatedForLiveCR
<1>1. TypeOK /\ FinalizerInv /\ [Next]_vars
        => [\A x \in Objects :
               owner'[x] # owner[x] /\ owner'[x] # 0 => owner'[x] = cr.uid]_vars
  <2> SUFFICES ASSUME TypeOK, FinalizerInv, [Next]_vars,
                      NEW x \in Objects, owner'[x] # owner[x], owner'[x] # 0
               PROVE  owner'[x] = cr.uid
    OBVIOUS
  <2>1. CASE \E y \in Objects : Vanish(y)
    BY <2>1 DEF Vanish, TypeOK
  <2>2. CASE \E o \in Operands, kinds \in SUBSET Kinds : CreateObjects(o, kinds)
    BY <2>2, OwnerStep, <2>1 DEF CreateObjects
  <2> QED
    BY <2>1, <2>2, OwnerStep
<1> QED
  BY <1>1, TypeCorrect, FinalizerInvariant, PTL DEF Spec, CreatedForLiveCR

\* Which steps write the CR's uid, deletion timestamp or finalizers, and how.
LEMMA CRStep ==
    ASSUME TypeOK, FinalizerInv, [Next]_vars
    PROVE  \/ SameCR \/ CreateCR \/ DeleteCR
           \/ /\ pc = "addFinalizer" /\ olsconfig = cr /\ UNCHANGED <<owner, hidden, leftVars>>
              /\ cr' = [cr EXCEPT !.finalizers = @ \cup {Finalizer}]
           \/ /\ pc = "strip" /\ olsconfig = cr /\ cr.uid # 0
              /\ cr.deletion = "set" /\ cr' = NoCR /\ UNCHANGED <<owner, hidden, leftVars>>
<1>1. ASSUME NEW s \in Status, StatusWritten(s) PROVE SameCR
  BY <1>1, StatusWrittenTyped DEF SameCR
<1>2. failureStatus \in Status /\ newStatus \in Status
  BY EmptyTyped DEF failureStatus, Status, TypeOK, CR
<1>3. CASE FailPhase1 \/ UpdateStatus
  BY <1>1, <1>2, <1>3 DEF FailPhase1, UpdateStatus, StatusRefused, SameCR
<1>4. CASE AddFinalizer
  BY <1>4 DEF AddFinalizer, SameCR, clusterVars
<1>5. CASE RemoveFinalizer
  <2>1. CASE cr.deletion # "set" /\ cr' # cr
    <3>1. cr.uid # 0 /\ pc = "strip" /\ cr' = [cr EXCEPT !.finalizers = {}]
      BY <1>5, <2>1 DEF RemoveFinalizer
    <3>2. cr.finalizers = {}
      BY <2>1, <3>1 DEF FinalizerInv, WorkerInv, Live, FinalizingPCs, TypeOK, CR
    <3> QED
      BY <3>1, <3>2 DEF SameCR, TypeOK, CR
  <2> QED
    BY <1>5, <2>1 DEF RemoveFinalizer, SameCR, clusterVars
<1>6. ASSUME NEW o \in SpecGated, EditSpec(o) PROVE SameCR
  BY <1>6 DEF EditSpec, SameCR, TypeOK, CR
<1>7. CASE Worker /\ ~FailPhase1 /\ ~UpdateStatus /\ ~AddFinalizer /\ ~RemoveFinalizer
  BY <1>7
  DEF Worker, StartReconcile, Preflight, RemoveDisabled, EnterPhase1,
      ReconcileResources, EnterPhase2, RemoveAlertsAdapterAgain, EnterDeployments,
      ReconcileDeployment, PublishHandoff, FinalizeRemove, FinalizeDeleteOwned,
      FinalizeWait, FinalizeRefetch, SameCR
<1>8. CASE Environment
  BY <1>6, <1>8
  DEF Environment, SyncCache, OtherEvent, ShowObject, CollectGarbage, Vanish,
      DeploymentAvailable, DeploymentFails, Restart, SameCR
<1>9. CASE UNCHANGED vars
  BY <1>9 DEF vars, SameCR
<1> QED
  BY <1>3, <1>4, <1>5, <1>7, <1>8, <1>9 DEF Next

\* The finalizer of a CR that is not being deleted is never taken away.
THEOREM FinalizerIsKept == Spec => FinalizerKeptWhileLive
<1>1. TypeOK /\ FinalizerInv /\ [Next]_vars
        => [cr.uid # 0 /\ cr.deletion = "unset" /\ Finalizer \in cr.finalizers
               => cr'.uid = cr.uid /\ Finalizer \in cr'.finalizers]_vars
  <2> SUFFICES ASSUME TypeOK, FinalizerInv, [Next]_vars,
                      cr.uid # 0, cr.deletion = "unset", Finalizer \in cr.finalizers
               PROVE  cr'.uid = cr.uid /\ Finalizer \in cr'.finalizers
    OBVIOUS
  <2>1. CASE DeleteCR
    BY <2>1 DEF DeleteCR, TypeOK, CR
  <2>2. CASE cr' = [cr EXCEPT !.finalizers = @ \cup {Finalizer}]
    BY <2>2 DEF TypeOK, CR
  <2> QED
    BY <2>1, <2>2, CRStep DEF CreateCR, SameCR
<1> QED
  BY <1>1, TypeCorrect, FinalizerInvariant, PTL DEF Spec, FinalizerKeptWhileLive

----------------------------------------------------------------------------
(* The reconcile loop implements the lifecycle.                            *)

LiveObjects == {x \in Objects : owner[x] # 0 /\ owner[x] = cr.uid}
StaleObjects == {x \in Objects : owner[x] # 0 /\ owner[x] # cr.uid}
HiddenObjects == {x \in hidden : owner[x] # 0 /\ owner[x] = cr.uid}
MissedObjects == {x \in overlooked : owner[x] # 0 /\ owner[x] = cr.uid}
Abandoned == cr.uid # 0 /\ cr.uid \in timedOut

\* What a wait leaves behind is recorded only when it ends, or when it goes.
LEMMA TimedOutStep ==
    ASSUME [Next]_vars
    PROVE  UNCHANGED leftVars \/ FinalizeWait \/ \E x \in Objects : Vanish(x)
BY DEF Next, vars, Worker, StartReconcile, AddFinalizer, Preflight, RemoveDisabled,
    EnterPhase1, ReconcileResources, FailPhase1, EnterPhase2, RemoveAlertsAdapterAgain,
    EnterDeployments, ReconcileDeployment, PublishHandoff, UpdateStatus, FinalizeRemove,
    FinalizeDeleteOwned, FinalizeRefetch, RemoveFinalizer, Environment, CreateCR,
    EditSpec, DeleteCR, SyncCache, OtherEvent, ShowObject, CollectGarbage,
    DeploymentAvailable, DeploymentFails, Restart

\* Every step maps to a step of the lifecycle or to a stutter.
LEMMA LifecycleStep ==
    ASSUME TypeOK, FinalizerInv, [Next]_vars
    PROVE  [Lifecycle!Next]_(Lifecycle!vars)
<1> USE DEF Lifecycle!vars
<1> USE DEF LiveObjects, StaleObjects, HiddenObjects, MissedObjects
<1>s. ASSUME SameCR, UNCHANGED <<owner, hidden>>
      PROVE  /\ Stage' = Stage /\ LiveObjects' = LiveObjects
             /\ StaleObjects' = StaleObjects /\ HiddenObjects' = HiddenObjects
  BY <1>s DEF SameCR, Stage
<1>l. UNCHANGED LiveObjects /\ UNCHANGED <<owner, hidden, leftVars>>
        => UNCHANGED <<HiddenObjects, MissedObjects>>
  <2>1. HiddenObjects = hidden \cap LiveObjects /\ MissedObjects = overlooked \cap LiveObjects
    BY DEF TypeOK
  <2>2. ASSUME UNCHANGED <<owner, hidden, leftVars>>
        PROVE  HiddenObjects' = hidden \cap LiveObjects'
               /\ MissedObjects' = overlooked \cap LiveObjects'
    BY <2>2 DEF TypeOK
  <2> QED
    BY <2>1, <2>2
<1>1. CASE FinalizeWait
  <2>1. /\ SameCR /\ UNCHANGED <<owner, hidden>> /\ pc = "wait"
        /\ olsconfig.uid # 0 /\ (olsconfig.uid = cr.uid => cr.deletion = "set")
    BY <1>1 DEF FinalizeWait, SameCR, clusterVars, FinalizerInv, WorkerInv, FinalizingPCs
  <2>2. CASE olsconfig.uid # cr.uid
    <3>1. Abandoned' = Abandoned
      BY <1>1, <2>1, <2>2 DEF FinalizeWait, Abandoned, SameCR
    <3>2. MissedObjects' = MissedObjects
      BY <1>1, <2>1, <2>2 DEF FinalizeWait, ListedOwnedBy, SameCR
    <3> QED
      BY <1>s, <2>1, <3>1, <3>2 DEF Abandoned
  <2>3. CASE olsconfig.uid = cr.uid /\ UNCHANGED overlooked
    <3>1. MissedObjects' = MissedObjects
      BY <2>1, <2>3 DEF SameCR
    <3>2. Stage = "terminating"
      BY <2>1, <2>3 DEF Stage
    <3>3. Abandoned' \/ Abandoned' = Abandoned
      BY <1>1, <2>1, <2>3 DEF FinalizeWait, Abandoned, SameCR
    <3>4. Lifecycle!Abandon \/ UNCHANGED Lifecycle!vars
      BY <1>s, <2>1, <3>1, <3>2, <3>3 DEF Lifecycle!Abandon, Abandoned
    <3> QED
      BY <3>4 DEF Lifecycle!Next
  <2>4. CASE olsconfig.uid = cr.uid /\ overlooked' # overlooked
    <3>1. /\ listOwnedResources(cr.uid) = {} /\ UNCHANGED timedOut
          /\ overlooked' = overlooked \cup ListedOwnedBy(cr.uid)
      BY <1>1, <2>4 DEF FinalizeWait
    <3>2. Stage = "terminating" /\ Abandoned' = Abandoned
      BY <2>1, <2>4, <3>1 DEF Stage, Abandoned, SameCR
    <3>3. ListedOwnedBy(cr.uid) = LiveObjects \cap {x \in Objects : x[2] \in ListedKinds}
      BY <2>1, <2>4 DEF ListedOwnedBy
    <3>4. ListedOwnedBy(cr.uid) \subseteq HiddenObjects
      BY <3>1, <3>3 DEF listOwnedResources
    <3>5. MissedObjects' = MissedObjects \cup ListedOwnedBy(cr.uid)
      BY <2>1, <2>4, <3>1 DEF ListedOwnedBy, SameCR
    <3>6. Lifecycle!LastLook
      BY <1>s, <2>1, <3>2, <3>3, <3>4, <3>5 DEF Lifecycle!LastLook, Abandoned
    <3> QED
      BY <3>6 DEF Lifecycle!Next
  <2> QED
    BY <2>2, <2>3, <2>4
<1>2. CASE \E x \in Objects : Vanish(x)
  <2>1. PICK x \in Objects : Vanish(x)
    BY <1>2
  <2>2. /\ SameCR /\ UNCHANGED timedOut /\ owner' = [owner EXCEPT ![x] = 0]
        /\ hidden' = hidden \ {x} /\ overlooked' = overlooked \ {x}
    BY <2>1 DEF Vanish, SameCR
  <2>3. Stage' = Stage /\ Abandoned' = Abandoned
    BY <2>2 DEF SameCR, Stage, Abandoned
  <2>4. /\ LiveObjects' = LiveObjects \ {x} /\ StaleObjects' = StaleObjects \ {x}
        /\ HiddenObjects' = HiddenObjects \ {x} /\ MissedObjects' = MissedObjects \ {x}
    BY <2>2 DEF SameCR, TypeOK
  <2>5. Lifecycle!Drain({x}) /\ {x} \in SUBSET Objects
    BY <2>3, <2>4 DEF Lifecycle!Drain, Abandoned
  <2> QED
    BY <2>5 DEF Lifecycle!Next
<1>3. ASSUME NEW o \in Operands, NEW kinds \in SUBSET Kinds, CreateObjects(o, kinds),
             olsconfig.uid = cr.uid, Finalizer \in cr.finalizers, UNCHANGED <<cr, leftVars>>
      PROVE  [Lifecycle!Next]_(Lifecycle!vars)
  <2> DEFINE new == {x \in ObjectsOf(o, kinds) : owner[x] = 0}
  <2>1. cr.uid # 0 /\ Stage \in {"guarded", "terminating"}
    BY <1>3 DEF FinalizerInv, UidInv, WellFormed, Stage
  <2>2. /\ owner' = [x \in Objects |-> IF x \in new THEN cr.uid ELSE owner[x]]
        /\ hidden' = hidden \cup {x \in new : x[2] \in ListedKinds}
    BY <1>3 DEF CreateObjects
  <2>3. /\ Stage' = Stage /\ Abandoned' = Abandoned
        /\ new \cap (LiveObjects \cup StaleObjects) = {}
        /\ LiveObjects' = LiveObjects \cup new /\ StaleObjects' = StaleObjects
        /\ HiddenObjects' = HiddenObjects \cup (new \cap {x \in Objects : x[2] \in ListedKinds})
        /\ MissedObjects' = MissedObjects
    <3>1. Stage' = Stage /\ Abandoned' = Abandoned
      BY <1>3 DEF Stage, Abandoned
    <3>2. \A x \in Objects : owner'[x] = IF x \in new THEN cr.uid ELSE owner[x]
      BY <2>2
    <3>3. \A x \in new : owner[x] = 0 /\ x \in Objects
      BY DEF ObjectsOf
    <3>4. /\ hidden' = hidden \cup {x \in new : x[2] \in ListedKinds}
          /\ \A x \in hidden \cup overlooked : owner[x] # 0 /\ x \in Objects
      BY <2>2 DEF FinalizerInv, LagInv, TypeOK
    <3> HIDE DEF new
    <3>5. new \cap (LiveObjects \cup StaleObjects) = {}
      BY <3>3
    <3>6. LiveObjects' = LiveObjects \cup new
      BY <1>3, <2>1, <3>2, <3>3
    <3>7. StaleObjects' = StaleObjects
      BY <1>3, <3>2, <3>3
    <3>8. HiddenObjects' = HiddenObjects \cup (new \cap {x \in Objects : x[2] \in ListedKinds})
      BY <1>3, <2>1, <3>2, <3>3, <3>4
    <3>9. MissedObjects' = MissedObjects
      BY <1>3, <3>2, <3>3, <3>4
    <3> QED
      BY <3>1, <3>5, <3>6, <3>7, <3>8, <3>9
  <2>4. PICK S \in SUBSET Objects : S = new
    BY DEF ObjectsOf
  <2> HIDE DEF new
  <2>5. Lifecycle!Populate(S)
    BY <2>1, <2>3, <2>4 DEF Lifecycle!Populate, Abandoned
  <2> QED
    BY <2>5 DEF Lifecycle!Next
<1>4. ASSUME UNCHANGED <<owner, hidden, leftVars>> PROVE [Lifecycle!Next]_(Lifecycle!vars)
  <2>1. CASE SameCR
    <3>1. MissedObjects' = MissedObjects /\ Abandoned' = Abandoned
      BY <1>4, <2>1 DEF SameCR, Abandoned
    <3> QED
      BY <1>4, <1>s, <2>1, <3>1 DEF Abandoned
  <2>2. CASE CreateCR
    <3>1. cr.uid = 0 /\ cr'.uid = lastUid + 1 /\ cr'.deletion = "unset" /\ cr'.finalizers = {}
      BY <2>2 DEF CreateCR
    <3>2. /\ cr'.uid # 0 /\ cr'.uid \notin timedOut
          /\ \A x \in Objects : owner[x] # cr'.uid
      BY <3>1, UidTyped DEF FinalizerInv, UidInv, TypeOK
    <3>3. /\ Stage = "absent" /\ Stage' = "bare" /\ Abandoned' = Abandoned
          /\ LiveObjects' = LiveObjects /\ StaleObjects' = StaleObjects
          /\ UNCHANGED <<HiddenObjects, MissedObjects>>
      BY <1>4, <1>l, <3>1, <3>2 DEF Stage, Abandoned
    <3>4. Lifecycle!Create
      BY <3>3 DEF Lifecycle!Create, Abandoned
    <3> QED
      BY <3>4 DEF Lifecycle!Next
  <2>3. CASE DeleteCR /\ cr.finalizers = {}
    <3>1. cr.uid # 0 /\ cr.deletion = "unset" /\ cr'.uid = 0
      BY <2>3 DEF DeleteCR, NoCR
    <3>2. Stage = "bare" /\ Stage' = "absent"
      BY <2>3, <3>1 DEF Stage
    <3>3. /\ LiveObjects' = LiveObjects /\ StaleObjects' = StaleObjects
          /\ UNCHANGED <<HiddenObjects, MissedObjects>>
      BY <1>4, <1>l, <2>3, <3>1
      DEF FinalizerInv, FinalizerBeforeObjects
    <3>4. Abandoned' = Abandoned
      BY <1>4, <3>1 DEF FinalizerInv, UidInv, Abandoned
    <3>5. Lifecycle!Delete
      BY <3>2, <3>3, <3>4 DEF Lifecycle!Delete, Abandoned
    <3> QED
      BY <3>5 DEF Lifecycle!Next
  <2>4. CASE DeleteCR /\ cr.finalizers # {}
    <3>1. cr.uid # 0 /\ cr.deletion = "unset" /\ cr'.uid = cr.uid /\ cr'.deletion = "set"
      BY <2>4 DEF DeleteCR, TypeOK, CR
    <3>2. Stage = "guarded" /\ Stage' = "terminating"
      BY <2>4, <3>1 DEF Stage, TypeOK, CR
    <3>3. /\ LiveObjects' = LiveObjects /\ StaleObjects' = StaleObjects
          /\ Abandoned' = Abandoned /\ UNCHANGED <<HiddenObjects, MissedObjects>>
      BY <1>4, <1>l, <3>1 DEF Abandoned
    <3>4. Lifecycle!Delete
      BY <3>2, <3>3 DEF Lifecycle!Delete, Abandoned
    <3> QED
      BY <3>4 DEF Lifecycle!Next
  <2>5. CASE pc = "addFinalizer" /\ olsconfig = cr
             /\ cr' = [cr EXCEPT !.finalizers = @ \cup {Finalizer}]
    <3>1. /\ cr.uid # 0 /\ cr'.uid = cr.uid /\ cr'.deletion = cr.deletion
          /\ Finalizer \in cr'.finalizers
      BY <2>5 DEF FinalizerInv, WorkerInv, TypeOK, CR
    <3>2. /\ LiveObjects' = LiveObjects /\ StaleObjects' = StaleObjects
          /\ Abandoned' = Abandoned /\ UNCHANGED <<HiddenObjects, MissedObjects>>
      BY <1>4, <1>l, <3>1 DEF Abandoned
    <3>3. CASE Stage' = Stage
      BY <3>2, <3>3 DEF Abandoned
    <3>4. CASE Stage' # Stage
      <4>1. Stage = "bare" /\ Stage' = "guarded"
        BY <3>1, <3>4 DEF Stage
      <4>2. Lifecycle!Guard
        BY <3>2, <4>1 DEF Lifecycle!Guard, Abandoned
      <4> QED
        BY <4>2 DEF Lifecycle!Next
    <3> QED
      BY <3>3, <3>4
  <2>6. CASE pc = "strip" /\ olsconfig = cr /\ cr.uid # 0 /\ cr.deletion = "set" /\ cr' = NoCR
    <3>1. ListedOwnedBy(cr.uid) \subseteq overlooked \/ cr.uid \in timedOut
      BY <2>6 DEF FinalizerInv, UidInv, WaitInv
    <3>2. /\ Stage = "terminating" /\ Stage' = "absent" /\ Abandoned' = FALSE
          /\ LiveObjects' = {} /\ StaleObjects' = StaleObjects \cup LiveObjects
          /\ HiddenObjects' = {} /\ MissedObjects' = {}
      BY <1>4, <2>6 DEF Stage, Abandoned, NoCR
    <3>3. \/ LiveObjects \cap {x \in Objects : x[2] \in ListedKinds} \subseteq MissedObjects
          \/ Abandoned
      BY <2>6, <3>1 DEF ListedOwnedBy, Abandoned
    <3>4. Lifecycle!Finish
      BY <3>2, <3>3 DEF Lifecycle!Finish, Abandoned
    <3> QED
      BY <3>4 DEF Lifecycle!Next
  <2> QED
    BY <2>1, <2>2, <2>3, <2>4, <2>5, <2>6, CRStep
<1>5. ASSUME UNCHANGED <<owner, cr, leftVars>>, hidden' \subseteq hidden
      PROVE  [Lifecycle!Next]_(Lifecycle!vars)
  <2>1. /\ Stage' = Stage /\ Abandoned' = Abandoned
        /\ LiveObjects' = LiveObjects /\ StaleObjects' = StaleObjects
        /\ MissedObjects' = MissedObjects
    BY <1>5 DEF Stage, Abandoned
  <2>2. PICK S \in SUBSET Objects : S = hidden \ hidden'
    BY DEF TypeOK
  <2>3. HiddenObjects' = HiddenObjects \ S
    BY <1>5, <2>2
  <2>4. Lifecycle!See(S)
    BY <2>1, <2>3 DEF Lifecycle!See, Abandoned
  <2> QED
    BY <2>4 DEF Lifecycle!Next
<1>6. CASE UNCHANGED leftVars
  BY <1>2, <1>3, <1>4, <1>5, <1>6, OwnerStep
<1> QED
  BY <1>1, <1>2, <1>6, TimedOutStep

\* No CR exists at first, and nothing is left of an earlier one.
LEMMA LifecycleInit == Init => Lifecycle!Init
BY DEF Init, Lifecycle!Init, Stage, NoCR

\* The reconcile loop implements the lifecycle it promises.
THEOREM LoopImplementsLifecycle == Spec => ImplementsLifecycle
<1>1. TypeOK /\ FinalizerInv /\ [Next]_vars => [Lifecycle!Next]_(Lifecycle!vars)
  BY LifecycleStep
<1> QED
  BY <1>1, LifecycleInit, TypeCorrect, FinalizerInvariant, PTL
  DEF Spec, ImplementsLifecycle, Lifecycle!Spec

----------------------------------------------------------------------------
(* The Ready status.                                                       *)

\* The spec switches the operand off.
SwitchedOff(o, spec) == o \in SpecGated /\ o \notin spec

\* A Ready status covers a spec, but for operands that are still to be visited.
Covers(s, spec, pending) ==
    s.overall = "Ready" =>
        /\ ~s.resourceReconciliation
        /\ \A o \in Operands :
              IF SwitchedOff(o, spec)
              THEN \/ s.conds[o] = "Disabled"
                   \/ s.conds[o] = "None" /\ o = "alertsadapter"
              ELSE \/ s.conds[o] = "Available"
                   \/ s.conds[o] = "Disabled" /\ o \in ImageGated
                   \/ o \in pending

\* A copy of the CR that exists is no newer than it, and the generation tells the spec.
CopyOf(c) ==
    c.uid # 0 /\ c.uid = cr.uid =>
        /\ c.generation <= cr.generation
        /\ c.generation = cr.generation => c.spec = cr.spec

StatusPCs == {"gates2", "phase2", "status"}
Unvisited == IF pc = "gates2" THEN {o \in Operands : Enabled(o, olsconfig.spec)} ELSE todo

\* The status that Phase 2 builds is for the worker's copy of the CR.
BuildingInv ==
    pc \in StatusPCs =>
        /\ newStatus.observed = olsconfig.generation
        /\ Covers(newStatus, olsconfig.spec, Unvisited)
        /\ pc = "gates2" => \A o \in todo : SwitchedOff(o, olsconfig.spec)
        /\ pc = "phase2" => \A o \in todo : ~SwitchedOff(o, olsconfig.spec)
        /\ pc = "status" => todo = {}

ReadyInv ==
    /\ CopyOf(cache) /\ CopyOf(olsconfig)
    /\ cr.status.observed <= cr.generation
    /\ BuildingInv
    /\ ReadyCoversSpec

LEMMA ReadyIsCovered ==
    ReadyCoversSpec <=> (cr.status.observed = cr.generation => Covers(cr.status, cr.spec, {}))
BY DEF ReadyCoversSpec, Covers, SwitchedOff

LEMMA ReadyIsCoveredPrime ==
    ReadyCoversSpec' <=>
        (cr'.status.observed = cr'.generation => Covers(cr'.status, cr'.spec, {}))
BY DEF ReadyCoversSpec, Covers, SwitchedOff

\* A status that may be written onto the CR.
Writable(s) ==
    /\ s.observed <= cr.generation
    /\ s.observed = cr.generation => Covers(s, cr.spec, {})

\* Steps that leave generation and spec alone: the status is kept or may be written,
\* and the worker takes its copy from the cache.
LEMMA ReadyCarried ==
    ASSUME ReadyInv, BuildingInv', cache' = cache, olsconfig' \in {olsconfig, NoCR, cache},
           cr'.uid = cr.uid, cr'.generation = cr.generation, cr'.spec = cr.spec,
           cr'.status = cr.status \/ Writable(cr'.status)
    PROVE  ReadyInv'
<1>1. \A c \in {cache, olsconfig, NoCR} :
          c.uid # 0 /\ c.uid = cr'.uid => /\ c.generation <= cr'.generation
                                          /\ c.generation = cr'.generation => c.spec = cr'.spec
  BY DEF ReadyInv, CopyOf, NoCR
<1>2. CopyOf(cache)' /\ CopyOf(olsconfig)'
  BY <1>1 DEF CopyOf
<1>3. Writable(cr'.status)
  BY ReadyIsCovered DEF ReadyInv, Writable
<1>4. (cr.status.observed <= cr.generation)' /\ ReadyCoversSpec'
  BY <1>3, ReadyIsCoveredPrime DEF Writable
<1> QED
  BY <1>2, <1>4 DEF ReadyInv

\* The CR is gone.
LEMMA ReadyGone ==
    ASSUME BuildingInv', cr' = NoCR
    PROVE  ReadyInv'
<1>1. CopyOf(cache)' /\ CopyOf(olsconfig)'
  BY DEF CopyOf, NoCR
<1>2. (cr.status.observed <= cr.generation)' /\ ReadyCoversSpec'
  BY DEF NoCR, EmptyStatus, ReadyCoversSpec
<1> QED
  BY <1>1, <1>2 DEF ReadyInv

\* Outside Phase 2 no status is being built.
LEMMA NotBuilding ==
    ASSUME pc' \notin StatusPCs PROVE BuildingInv'
BY DEF BuildingInv

LEMMA BuildingSame ==
    ASSUME BuildingInv, UNCHANGED <<pc, olsconfig, todo, newStatus, images>>
    PROVE  BuildingInv'
BY DEF BuildingInv, Unvisited, Enabled

\* Writing a condition while the others stay.
LEMMA ConditionWritten ==
    ASSUME NEW s \in Status, NEW o \in Operands, NEW r \in Reasons
    PROVE  /\ WithCondition(s, o, r).conds = [s.conds EXCEPT ![o] = r]
           /\ WithCondition(s, o, r).overall = (IF r = "Available" THEN s.overall ELSE "NotReady")
           /\ WithCondition(s, o, r).observed = s.observed
           /\ WithCondition(s, o, r).resourceReconciliation = s.resourceReconciliation
           /\ s.conds \in [Operands -> Reasons]
BY DEF Status, WithCondition

LEMMA EnterPhase2Builds ==
    ASSUME TypeOK, EnterPhase2
    PROVE  BuildingInv'
<1>1. /\ pc' = "gates2" /\ UNCHANGED <<olsconfig, images>>
      /\ newStatus'.observed = olsconfig.generation
      /\ newStatus'.resourceReconciliation = FALSE
      /\ newStatus'.conds = [o \in Operands |->
            IF ~Enabled(o, olsconfig.spec) /\ o \notin todo' THEN "Disabled" ELSE "None"]
  BY DEF EnterPhase2
<1>2. \A o \in todo' : o = "alertsadapter" /\ SwitchedOff(o, olsconfig.spec)
  BY DEF EnterPhase2, SwitchedOff, SpecGated, Removable
<1>3. \A o \in Operands : SwitchedOff(o, olsconfig.spec) => ~Enabled(o, olsconfig.spec)
  BY DEF SwitchedOff, Enabled
<1>4. \A o \in Operands : ~SwitchedOff(o, olsconfig.spec) /\ ~Enabled(o, olsconfig.spec)
                             => o \in ImageGated
  BY DEF SwitchedOff, Enabled
<1>5. Unvisited' = {o \in Operands : Enabled(o, olsconfig.spec)}
  BY <1>1 DEF Unvisited, Enabled
<1>6. Covers(newStatus', olsconfig.spec, {o \in Operands : Enabled(o, olsconfig.spec)})
  <2> SUFFICES ASSUME NEW o \in Operands
               PROVE  IF SwitchedOff(o, olsconfig.spec)
                      THEN \/ newStatus'.conds[o] = "Disabled"
                           \/ newStatus'.conds[o] = "None" /\ o = "alertsadapter"
                      ELSE \/ newStatus'.conds[o] = "Disabled" /\ o \in ImageGated
                           \/ Enabled(o, olsconfig.spec)
    BY <1>1 DEF Covers
  <2>1. newStatus'.conds[o] = IF ~Enabled(o, olsconfig.spec) /\ o \notin todo'
                              THEN "Disabled" ELSE "None"
    BY <1>1
  <2>2. CASE SwitchedOff(o, olsconfig.spec)
    BY <1>2, <1>3, <2>1, <2>2
  <2>3. CASE ~SwitchedOff(o, olsconfig.spec)
    BY <1>2, <1>4, <2>1, <2>3
  <2> QED
    BY <2>2, <2>3
<1> QED
  BY <1>1, <1>2, <1>5, <1>6 DEF BuildingInv

LEMMA RemoveAgainBuilds ==
    ASSUME TypeOK, BuildingInv, NEW o \in Operands, RemoveAlertsAdapterAgain(o)
    PROVE  BuildingInv'
<1>1. /\ pc = "gates2" /\ o \in todo /\ todo' = todo \ {o}
      /\ UNCHANGED <<pc, olsconfig, images>>
      /\ newStatus' = [newStatus EXCEPT !.conds[o] = "Disabled"] \/ newStatus' = newStatus
  BY DEF RemoveAlertsAdapterAgain, IsNext
<1>2. /\ newStatus.observed = olsconfig.generation
      /\ Covers(newStatus, olsconfig.spec, Unvisited)
      /\ \A q \in todo : SwitchedOff(q, olsconfig.spec)
  BY <1>1 DEF BuildingInv, StatusPCs
<1>3. Unvisited' = Unvisited
  BY <1>1 DEF Unvisited, Enabled
<1>4. newStatus \in Status /\ "Disabled" \in Reasons
  BY DEF TypeOK, Reasons
<1>5. CASE newStatus' = newStatus
  BY <1>1, <1>2, <1>3, <1>5 DEF BuildingInv
<1>6. CASE newStatus' = [newStatus EXCEPT !.conds[o] = "Disabled"]
  <2>1. /\ newStatus'.conds = [newStatus.conds EXCEPT ![o] = "Disabled"]
        /\ newStatus'.overall = newStatus.overall
        /\ newStatus'.observed = newStatus.observed
        /\ newStatus'.resourceReconciliation = newStatus.resourceReconciliation
        /\ newStatus.conds \in [Operands -> Reasons]
    <3> DEFINE written == [newStatus EXCEPT !.conds[o] = "Disabled"]
    <3>1. /\ written.conds = [newStatus.conds EXCEPT ![o] = "Disabled"]
          /\ written.overall = newStatus.overall
          /\ written.observed = newStatus.observed
          /\ written.resourceReconciliation = newStatus.resourceReconciliation
          /\ newStatus.conds \in [Operands -> Reasons]
      BY <1>4 DEF Status
    <3>2. newStatus' = written
      BY <1>6
    <3> HIDE DEF written
    <3> QED
      BY <3>1, <3>2
  <2>2. Covers(newStatus', olsconfig.spec, Unvisited)
    <3>1. SwitchedOff(o, olsconfig.spec) /\ newStatus'.conds[o] = "Disabled"
      BY <1>1, <1>2, <2>1
    <3>2. \A q \in Operands \ {o} : newStatus'.conds[q] = newStatus.conds[q]
      BY <2>1
    <3> QED
      BY <1>2, <2>1, <3>1, <3>2 DEF Covers
  <2>3. pc' \in StatusPCs /\ pc' = "gates2" /\ newStatus'.observed = olsconfig'.generation
    BY <1>1, <1>2, <2>1 DEF StatusPCs
  <2>4. \A q \in todo' : SwitchedOff(q, olsconfig'.spec)
    BY <1>1, <1>2
  <2>5. Covers(newStatus, olsconfig.spec, Unvisited)'
    BY <1>1, <1>3, <2>2 DEF Covers
  <2> QED
    BY <2>3, <2>4, <2>5 DEF BuildingInv
<1> QED
  BY <1>1, <1>5, <1>6

LEMMA EnterDeploymentsBuilds ==
    ASSUME BuildingInv, EnterDeployments
    PROVE  BuildingInv'
<1>1. /\ pc = "gates2" /\ pc' = "phase2" /\ UNCHANGED <<olsconfig, images, newStatus>>
      /\ todo' = {o \in Operands : Enabled(o, olsconfig.spec)}
  BY DEF EnterDeployments
<1>2. Unvisited' = Unvisited
  BY <1>1 DEF Unvisited
<1>3. \A o \in todo' : ~SwitchedOff(o, olsconfig.spec)
  BY <1>1 DEF SwitchedOff, Enabled
<1> QED
  BY <1>1, <1>2, <1>3 DEF BuildingInv, StatusPCs

\* A condition that is not Available ends the hope of a Ready status; one that is
\* concerns an operand that is on.
LEMMA ReconcileDeploymentBuilds ==
    ASSUME TypeOK, BuildingInv, NEW o \in Operands, ReconcileDeployment(o)
    PROVE  BuildingInv'
<1>1. /\ pc = "phase2" /\ o \in todo /\ todo' = todo \ {o}
      /\ UNCHANGED <<pc, olsconfig, images>>
  BY DEF ReconcileDeployment, IsNext
<1>2. /\ newStatus.observed = olsconfig.generation
      /\ Covers(newStatus, olsconfig.spec, todo)
      /\ \A q \in todo : ~SwitchedOff(q, olsconfig.spec)
  BY <1>1 DEF BuildingInv, StatusPCs, Unvisited
<1>3. ConditionReason(health[o]) \in Reasons /\ "Failed" \in Reasons
  BY ConditionReasonTyped DEF TypeOK, Reasons
<1>4. PICK r \in Reasons : newStatus' = WithCondition(newStatus, o, r)
  BY <1>3 DEF ReconcileDeployment
<1>5. newStatus \in Status
  BY DEF TypeOK
<1>6. /\ newStatus'.conds = [newStatus.conds EXCEPT ![o] = r]
      /\ newStatus'.overall = (IF r = "Available" THEN newStatus.overall ELSE "NotReady")
      /\ newStatus'.observed = newStatus.observed
      /\ newStatus'.resourceReconciliation = newStatus.resourceReconciliation
      /\ newStatus.conds \in [Operands -> Reasons]
  BY <1>4, <1>5, ConditionWritten
<1>7. Covers(newStatus', olsconfig.spec, todo')
  <2>1. CASE r = "Available"
    BY <1>1, <1>2, <1>6, <2>1 DEF Covers
  <2>2. CASE r # "Available"
    BY <1>6, <2>2 DEF Covers
  <2> QED
    BY <2>1, <2>2
<1>8. Unvisited' = todo'
  BY <1>1 DEF Unvisited
<1> QED
  BY <1>1, <1>2, <1>6, <1>7, <1>8 DEF BuildingInv

LEMMA PublishBuilds ==
    ASSUME TypeOK, BuildingInv, PublishHandoff
    PROVE  BuildingInv'
<1>1. /\ pc = "phase2" /\ pc' = "status" /\ todo = {} /\ UNCHANGED <<olsconfig, todo, images>>
      /\ newStatus' = newStatus \/ newStatus' = [newStatus EXCEPT !.overall = "NotReady"]
  BY DEF PublishHandoff
<1>2. /\ newStatus.observed = olsconfig.generation
      /\ Covers(newStatus, olsconfig.spec, todo)
  BY <1>1 DEF BuildingInv, StatusPCs, Unvisited
<1>3. /\ newStatus'.observed = newStatus.observed
      /\ newStatus' = newStatus \/ newStatus'.overall = "NotReady"
  BY <1>1 DEF TypeOK, Status
<1>4. Covers(newStatus', olsconfig.spec, todo)
  BY <1>2, <1>3 DEF Covers
<1> QED
  BY <1>1, <1>2, <1>3, <1>4 DEF BuildingInv, Unvisited

\* The writes of the status: the worker's copy is of the CR that exists, for which the
\* finalizer invariant answers, and no newer than it.
LEMMA WorkersStatus ==
    ASSUME FinalizerInv, ReadyInv, pc \in BuildingPCs, NEW s,
           s.observed = olsconfig.generation, Covers(s, olsconfig.spec, {})
    PROVE  Writable(s)
<1>1. olsconfig.uid = cr.uid /\ olsconfig.uid # 0
  BY DEF FinalizerInv, WorkerInv, BuildingPCs
<1>2. /\ olsconfig.generation <= cr.generation
      /\ olsconfig.generation = cr.generation => olsconfig.spec = cr.spec
  BY <1>1 DEF ReadyInv, CopyOf
<1> QED
  BY <1>2 DEF Writable

LEMMA StatusWriteKeeps ==
    ASSUME TypeOK, ReadyInv, BuildingInv', NEW s, Writable(s), StatusWritten(s),
           cache' = cache, olsconfig' \in {olsconfig, NoCR, cache}
    PROVE  ReadyInv'
<1>1. cr' = cr \/ cr' = [cr EXCEPT !.status = s]
  BY DEF StatusWritten
<1>2. cr' = cr \/ /\ cr'.uid = cr.uid /\ cr'.generation = cr.generation
                  /\ cr'.spec = cr.spec /\ cr'.status = s
  BY <1>1 DEF TypeOK, CR
<1> QED
  BY <1>2, ReadyCarried

LEMMA EditKeeps ==
    ASSUME TypeOK, ReadyInv, NEW o \in SpecGated, EditSpec(o)
    PROVE  ReadyInv'
<1>1. UNCHANGED <<cache, pc, olsconfig, todo, newStatus, images>>
  BY DEF EditSpec, workerVars
<1>2. /\ cr'.generation = cr.generation + 1
      /\ cr'.uid = cr.uid /\ cr'.status = cr.status
  BY DEF EditSpec, TypeOK, CR
<1>3. /\ cr.generation \in Nat /\ cache.generation \in Nat /\ olsconfig.generation \in Nat
      /\ cr.status.observed \in Nat
  BY DEF TypeOK, CR, Status
<1>4. ASSUME NEW c \in {cache, olsconfig}, c.uid # 0, c.uid = cr'.uid
      PROVE  c.generation <= cr'.generation /\ c.generation # cr'.generation
  <2>1. c.generation <= cr.generation /\ c.generation \in Nat
    BY <1>2, <1>3, <1>4 DEF ReadyInv, CopyOf
  <2> QED
    BY <1>2, <1>3, <2>1
<1>5. CopyOf(cache)' /\ CopyOf(olsconfig)'
  BY <1>1, <1>4 DEF CopyOf
<1>6. cr'.status.observed <= cr'.generation /\ cr'.status.observed # cr'.generation
  <2>1. cr.status.observed <= cr.generation
    BY DEF ReadyInv
  <2> QED
    BY <1>2, <1>3, <2>1
<1>7. BuildingInv'
  BY <1>1, BuildingSame DEF ReadyInv
<1> QED
  BY <1>5, <1>6, <1>7 DEF ReadyInv, ReadyCoversSpec

LEMMA CreateCRReady ==
    ASSUME TypeOK, FinalizerInv, ReadyInv, CreateCR
    PROVE  ReadyInv'
<1>1. UNCHANGED <<cache, pc, olsconfig, todo, newStatus, images>>
  BY DEF CreateCR, workerVars
<1>2. cr'.uid = lastUid + 1 /\ cr'.generation = 1 /\ cr'.status = EmptyStatus
  BY DEF CreateCR
<1>3. cache.uid <= lastUid /\ olsconfig.uid <= lastUid
  BY DEF FinalizerInv, UidInv
<1>4. cache.uid \in Nat /\ olsconfig.uid \in Nat /\ lastUid \in Nat
  BY DEF TypeOK, CR
<1>5. cache.uid # cr'.uid /\ olsconfig.uid # cr'.uid
  BY <1>2, <1>3, <1>4
<1>6. CopyOf(cache)' /\ CopyOf(olsconfig)'
  BY <1>1, <1>5 DEF CopyOf
<1>7. cr'.status.observed = 0 /\ cr'.status.overall = "None"
  BY <1>2 DEF EmptyStatus
<1>8. BuildingInv'
  BY <1>1, BuildingSame DEF ReadyInv
<1> QED
  BY <1>2, <1>6, <1>7, <1>8 DEF ReadyInv, ReadyCoversSpec

\* The informer delivers the CR; the worker's copy is kept, or forgotten in a restart.
LEMMA CopyTaken ==
    ASSUME TypeOK, ReadyInv, BuildingInv', cr' = cr, cache' = cr,
           olsconfig' \in {olsconfig, NoCR}
    PROVE  ReadyInv'
<1>1. cr.generation \in Nat
  BY DEF TypeOK, CR
<1>2. CopyOf(cache)'
  BY <1>1 DEF CopyOf
<1>3. CopyOf(olsconfig)'
  BY DEF CopyOf, ReadyInv, NoCR
<1> QED
  BY <1>2, <1>3 DEF ReadyInv, ReadyCoversSpec

LEMMA ReadyStep == TypeOK /\ FinalizerInv /\ ReadyInv /\ [Next]_vars => ReadyInv'
<1> SUFFICES ASSUME TypeOK, FinalizerInv, ReadyInv, [Next]_vars PROVE ReadyInv'
  OBVIOUS
<1> USE DEF StatusPCs
<1>b. BuildingInv
  BY DEF ReadyInv
<1>r. ReturnNil \/ ReturnError => pc' = "idle" /\ olsconfig' = NoCR
  BY DEF ReturnNil, ReturnError, ForgetLocals
<1>k. ASSUME UNCHANGED <<cr, cache>>, BuildingInv', olsconfig' \in {olsconfig, NoCR, cache}
      PROVE  ReadyInv'
  BY <1>k, ReadyCarried
<1>n. ASSUME UNCHANGED <<cr, cache>>, pc' \notin StatusPCs,
             olsconfig' \in {olsconfig, NoCR, cache}
      PROVE  ReadyInv'
  BY <1>k, <1>n, NotBuilding
<1>s. ASSUME UNCHANGED <<cr, cache, pc, olsconfig, todo, newStatus, images>>
      PROVE  ReadyInv'
  BY <1>b, <1>k, <1>s, BuildingSame
<1>1. CASE StartReconcile
  <2>1. /\ UNCHANGED <<cr, cache>> /\ olsconfig' \in {NoCR, cache}
        /\ pc' \in {"idle", "remove", "addFinalizer", "preflight"}
    BY <1>1, <1>r DEF StartReconcile
  <2> QED
    BY <1>n, <2>1
<1>2. CASE AddFinalizer
  <2>1. cache' = cache /\ pc' = "idle" /\ olsconfig' = NoCR
    BY <1>2, <1>r DEF AddFinalizer
  <2>2. /\ cr'.uid = cr.uid /\ cr'.generation = cr.generation /\ cr'.spec = cr.spec
        /\ cr'.status = cr.status
    BY <1>2 DEF AddFinalizer, TypeOK, CR
  <2> QED
    BY <2>1, <2>2, NotBuilding, ReadyCarried
<1>3. CASE Preflight
  <2>1. UNCHANGED <<cr, cache>> /\ olsconfig' \in {olsconfig, NoCR} /\ pc' \in {"idle", "gates1"}
    BY <1>3, <1>r DEF Preflight
  <2> QED
    BY <1>n, <2>1
<1>4. ASSUME NEW o \in Operands, RemoveDisabled(o) \/ ReconcileResources(o) \/ FinalizeRemove(o)
      PROVE  ReadyInv'
  <2>1. UNCHANGED <<cr, cache, olsconfig, pc>> /\ pc \in {"gates1", "phase1", "remove"}
    BY <1>4 DEF RemoveDisabled, ReconcileResources, FinalizeRemove
  <2> QED
    BY <1>n, <2>1
<1>5. CASE EnterPhase1
  BY <1>5, <1>n DEF EnterPhase1
<1>6. CASE FailPhase1
  <2>1. cache' = cache /\ olsconfig' = NoCR /\ pc' = "idle" /\ pc \in BuildingPCs
    BY <1>6 DEF FailPhase1, ForgetLocals, BuildingPCs
  <2>2. Writable(failureStatus)
    <3>1. failureStatus.observed = olsconfig.generation /\ failureStatus.overall = "NotReady"
      BY DEF failureStatus
    <3>2. Covers(failureStatus, olsconfig.spec, {})
      BY <3>1 DEF Covers
    <3> QED
      BY <2>1, <3>1, <3>2, WorkersStatus
  <2>3. StatusWritten(failureStatus) \/ UNCHANGED cr
    BY <1>6 DEF FailPhase1, StatusRefused
  <2> QED
    BY <1>n, <2>1, <2>2, <2>3, NotBuilding, StatusWriteKeeps
<1>7. CASE EnterPhase2
  BY <1>7, <1>k, EnterPhase2Builds DEF EnterPhase2
<1>8. ASSUME NEW o \in Operands, RemoveAlertsAdapterAgain(o) PROVE ReadyInv'
  BY <1>8, <1>b, <1>k, RemoveAgainBuilds DEF RemoveAlertsAdapterAgain
<1>9. CASE EnterDeployments
  BY <1>9, <1>b, <1>k, EnterDeploymentsBuilds DEF EnterDeployments
<1>10. ASSUME NEW o \in Operands, ReconcileDeployment(o) PROVE ReadyInv'
  BY <1>10, <1>b, <1>k, ReconcileDeploymentBuilds DEF ReconcileDeployment
<1>11. CASE PublishHandoff
  BY <1>11, <1>b, <1>k, PublishBuilds DEF PublishHandoff
<1>12. CASE UpdateStatus
  <2>1. cache' = cache /\ olsconfig' = NoCR /\ pc' = "idle" /\ pc = "status"
    BY <1>12, <1>r DEF UpdateStatus
  <2>2. Writable(newStatus)
    <3>1. newStatus.observed = olsconfig.generation /\ Covers(newStatus, olsconfig.spec, {})
      BY <1>b, <2>1 DEF BuildingInv, Unvisited
    <3> QED
      BY <2>1, <3>1, WorkersStatus DEF BuildingPCs
  <2>3. StatusWritten(newStatus) \/ UNCHANGED cr
    BY <1>12 DEF UpdateStatus, StatusRefused
  <2> QED
    BY <1>n, <2>1, <2>2, <2>3, NotBuilding, StatusWriteKeeps
<1>13. CASE FinalizeDeleteOwned
  <2>1. UNCHANGED <<cr, cache>> /\ olsconfig' \in {olsconfig, NoCR} /\ pc' \in {"idle", "wait"}
    BY <1>13, <1>r DEF FinalizeDeleteOwned
  <2> QED
    BY <1>n, <2>1
<1>14. CASE FinalizeWait
  BY <1>14, <1>n DEF FinalizeWait
<1>15. CASE FinalizeRefetch
  <2>1. UNCHANGED <<cr, cache>> /\ olsconfig' \in {cache, NoCR} /\ pc' \in {"idle", "strip"}
    BY <1>15, <1>r DEF FinalizeRefetch
  <2> QED
    BY <1>n, <2>1
<1>16. CASE RemoveFinalizer
  <2>1. cache' = cache /\ pc' = "idle" /\ olsconfig' = NoCR
    BY <1>16, <1>r DEF RemoveFinalizer
  <2>2. \/ cr' = NoCR
        \/ /\ cr'.uid = cr.uid /\ cr'.generation = cr.generation /\ cr'.spec = cr.spec
           /\ cr'.status = cr.status
    BY <1>16 DEF RemoveFinalizer, TypeOK, CR
  <2> QED
    BY <2>1, <2>2, NotBuilding, ReadyCarried, ReadyGone
<1>17. CASE CreateCR
  BY <1>17, CreateCRReady
<1>18. ASSUME NEW o \in SpecGated, EditSpec(o) PROVE ReadyInv'
  BY <1>18, EditKeeps
<1>19. CASE DeleteCR
  <2>1. UNCHANGED <<cache, pc, olsconfig, todo, newStatus, images>>
    BY <1>19 DEF DeleteCR, workerVars
  <2>2. \/ cr' = NoCR
        \/ /\ cr'.uid = cr.uid /\ cr'.generation = cr.generation /\ cr'.spec = cr.spec
           /\ cr'.status = cr.status
    BY <1>19 DEF DeleteCR, TypeOK, CR
  <2> QED
    BY <1>b, <2>1, <2>2, BuildingSame, ReadyCarried, ReadyGone
<1>20. CASE SyncCache
  <2>1. UNCHANGED <<cr, pc, olsconfig, todo, newStatus, images>> /\ cache' = cr
    BY <1>20 DEF SyncCache, workerVars
  <2> QED
    BY <1>b, <2>1, BuildingSame, CopyTaken
<1>21. CASE Restart
  <2>1. cr' = cr /\ cache' = cr /\ olsconfig' = NoCR /\ pc' = "idle"
    BY <1>21 DEF Restart, ForgetLocals
  <2> QED
    BY <2>1, NotBuilding, CopyTaken
<1>22. CASE OtherEvent \/ UNCHANGED vars
  BY <1>22, <1>s DEF OtherEvent, vars, workerVars
<1>23. ASSUME NEW x \in Objects, ShowObject(x) \/ CollectGarbage(x) \/ Vanish(x)
       PROVE  ReadyInv'
  BY <1>23, <1>s DEF ShowObject, CollectGarbage, Vanish, workerVars
<1>24. ASSUME NEW o \in Operands, DeploymentAvailable(o) \/ DeploymentFails(o) PROVE ReadyInv'
  BY <1>24, <1>s DEF DeploymentAvailable, DeploymentFails, workerVars
<1> QED
  BY <1>1, <1>2, <1>3, <1>4, <1>5, <1>6, <1>7, <1>8, <1>9, <1>10, <1>11, <1>12, <1>13,
     <1>14, <1>15, <1>16, <1>17, <1>18, <1>19, <1>20, <1>21, <1>22, <1>23, <1>24
  DEF Next, Worker, Environment

LEMMA ReadyInit == Init => ReadyInv
<1> SUFFICES ASSUME Init PROVE ReadyInv
  OBVIOUS
<1>1. CopyOf(cache) /\ CopyOf(olsconfig) /\ BuildingInv
  BY DEF Init, CopyOf, NoCR, BuildingInv, StatusPCs
<1>2. cr.status.observed <= cr.generation /\ ReadyCoversSpec
  BY DEF Init, NoCR, EmptyStatus, ReadyCoversSpec
<1> QED
  BY <1>1, <1>2 DEF ReadyInv

\* A Ready status for the current generation tells the truth about the current spec, for
\* any set of operands, any number of edits and any lag of the cache: the spec may change,
\* and the CR may be deleted and recreated, between the worker's read and the write of the
\* status, but that write lands on the CR the status was built for, under the generation
\* it was built from.
THEOREM ReadyIsTruthful == Spec => []ReadyCoversSpec
<1>1. ReadyInv => ReadyCoversSpec
  BY DEF ReadyInv
<1> QED
  BY <1>1, TypeCorrect, FinalizerInvariant, ReadyInit, ReadyStep, PTL DEF Spec

=============================================================================
