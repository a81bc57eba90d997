--------------------------- MODULE Watchers_proofs ---------------------------
(***************************************************************************)
(* Proofs about Watchers, for any set of resources and every value of the  *)
(* bounds: the type invariant, and that the Deployments mount only         *)
(* resources that carry the watcher annotation while none is deleted.      *)
(***************************************************************************)
EXTENDS Watchers, TLAPS

----------------------------------------------------------------------------
(* The inductive invariant.                                                *)

Annotations(rs) == \A r \in rs : obj[r].annotated

\* Nothing was deleted so far. Deletions are the only way a resource loses its
\* annotation, and their budget is never given back.
NothingDeleted == budget["delete"] = MaxDeletes

\* What the worker has been through is annotated, unless an annotation failed; when it
\* comes to the phases, everything the CR named at the start of the pass is.
WorkerInv ==
    /\ pc = "annotate" /\ ~errs => Annotations(recRefs \ todo)
    /\ pc = "phases" => Annotations(recRefs)

WatchedInv ==
    NothingDeleted =>
        /\ \A r \in Resources : obj[r].data # 0
        /\ Annotations(mounted \cap UserResources)
        /\ WorkerInv

WatchInv == TypeOK /\ budget["delete"] <= MaxDeletes /\ WatchedInv

----------------------------------------------------------------------------
(* The type invariant.                                                     *)

ObjStates == [data : Nat, annotated : BOOLEAN, rv : Nat]

\* The parts of the type invariant that single operations change.
ObjTyped == obj \in [Resources -> ObjStates]
EventsTyped == events \in [Resources -> Seq(Events)]
LoadedTyped == loaded \in [Resources -> [Deployments -> Nat]]
BudgetTyped == budget \in [Budgets -> Nat]
MappingTyped == mapping \in [UserResources -> SUBSET Deployments]
WorkerTyped ==
    /\ pc \in {"idle", "annotate", "phases"} /\ errs \in BOOLEAN
    /\ recRefs \subseteq UserResources /\ todo \subseteq recRefs
    /\ recIntrospection \in BOOLEAN
RestTyped ==
    /\ version \in 0..MaxWrites
    /\ refs \subseteq UserResources
    /\ introspection \in BOOLEAN /\ queued \in BOOLEAN
    /\ watchEnabled \in BOOLEAN /\ mounted \subseteq Resources

LEMMA TypeParts ==
    TypeOK <=> /\ ObjTyped /\ EventsTyped /\ LoadedTyped /\ BudgetTyped
               /\ MappingTyped /\ WorkerTyped /\ RestTyped
BY DEF TypeOK, ObjTyped, EventsTyped, LoadedTyped, BudgetTyped, MappingTyped,
       WorkerTyped, RestTyped, ObjStates

LEMMA TypePartsPrime ==
    TypeOK' <=> /\ ObjTyped' /\ EventsTyped' /\ LoadedTyped' /\ BudgetTyped'
                /\ MappingTyped' /\ WorkerTyped' /\ RestTyped'
BY DEF TypeOK, ObjTyped, EventsTyped, LoadedTyped, BudgetTyped, MappingTyped,
       WorkerTyped, RestTyped, ObjStates

\* A part of the budget is spent, and the others are left alone.
LEMMA SpendFacts ==
    ASSUME BudgetTyped, NEW b \in Budgets, Spend(b)
    PROVE  /\ BudgetTyped'
           /\ budget'[b] = budget[b] - 1
           /\ \A c \in Budgets \ {b} : budget'[c] = budget[c]
BY DEF BudgetTyped, Spend

\* A write of an object of the right type leaves objects and events typed, and
\* touches one object.
LEMMA StoreFacts ==
    ASSUME ObjTyped, EventsTyped, NEW r \in Resources, NEW new \in ObjStates,
           NEW type \in {"create", "update"}, NEW changed \in BOOLEAN,
           Store(r, new, type, changed)
    PROVE  /\ ObjTyped' /\ EventsTyped'
           /\ obj'[r] = new
           /\ \A q \in Resources \ {r} : obj'[q] = obj[q]
<1> DEFINE e == [type |-> type, changed |-> changed,
                 annotated |-> new.annotated, rv |-> new.rv]
<1>1. new.annotated \in BOOLEAN /\ new.rv \in Nat
  BY Zenon DEF ObjStates
<1>2. e \in Events
  BY <1>1, Zenon DEF Events
<1> HIDE DEF e
<1>3. events' = [events EXCEPT ![r] = Append(@, e)]
  BY Zenon DEF Store, e
<1>4. Append(events[r], e) \in Seq(Events)
  BY <1>2 DEF EventsTyped
<1>5. EventsTyped'
  BY <1>3, <1>4 DEF EventsTyped
<1>6. obj' = [obj EXCEPT ![r] = new]
  BY DEF Store
<1> QED
  BY <1>5, <1>6 DEF ObjTyped

\* The objects a write makes of the one there is.
LEMMA Rewritten ==
    ASSUME ObjTyped, NEW r \in Resources, NEW v \in Nat
    PROVE  /\ obj[r].data \in Nat /\ obj[r].annotated \in BOOLEAN /\ obj[r].rv \in Nat
           /\ [obj[r] EXCEPT !.data = v, !.rv = @ + 1] \in ObjStates
           /\ [obj[r] EXCEPT !.rv = @ + 1] \in ObjStates
           /\ [obj[r] EXCEPT !.annotated = TRUE, !.rv = @ + 1] \in ObjStates
           /\ [data |-> v, annotated |-> FALSE, rv |-> obj[r].rv + 1] \in ObjStates
<1>1. obj[r] \in ObjStates
  BY DEF ObjTyped
<1>2. obj[r].data \in Nat /\ obj[r].annotated \in BOOLEAN /\ obj[r].rv \in Nat
  BY <1>1, Zenon DEF ObjStates
<1>3. obj[r].rv + 1 \in Nat
  BY <1>2
<1> QED
  BY <1>1, <1>2, <1>3, Zenon DEF ObjStates

\* A handler's restarts change what pods have read, the queue and the budget.
LEMMA RestartFacts ==
    ASSUME TypeOK, NEW ds, restartDeployment(ds)
    PROVE  /\ LoadedTyped' /\ BudgetTyped' /\ queued' \in BOOLEAN
           /\ budget'["delete"] = budget["delete"]
<1> USE TypeParts
<1>1. PICK done \in SUBSET ds :
          /\ IF done = ds THEN UNCHANGED budget ELSE Spend("restart")
          /\ loaded' = Reloaded(done)
          /\ queued' = (queued \/ done # {})
  BY Zenon DEF restartDeployment
<1>2. queued' \in BOOLEAN
  BY <1>1, Zenon
<1>3. BudgetTyped' /\ budget'["delete"] = budget["delete"]
  <2>1. CASE done = ds
    BY <1>1, <2>1 DEF BudgetTyped
  <2>2. CASE done # ds
    BY <1>1, <2>2, SpendFacts DEF Budgets
  <2> QED
    BY <2>1, <2>2
<1>4. \A r \in Resources : obj[r].data \in Nat
  BY Rewritten
<1>5. LoadedTyped'
  BY <1>1, <1>4 DEF LoadedTyped, Reloaded
<1> QED
  BY <1>2, <1>3, <1>5

\* Taking the first event away, and putting one at the end.
LEMMA TakenEvent ==
    ASSUME EventsTyped, NEW r \in Resources, events[r] # <<>>
    PROVE  /\ Head(events[r]) \in Events
           /\ Tail(events[r]) \in Seq(Events)
           /\ \A e \in Events : Append(Tail(events[r]), e) \in Seq(Events)
BY DEF EventsTyped

----------------------------------------------------------------------------
(* Steps.                                                                  *)

\* No object goes away or loses its annotation.
Grows ==
    \A r \in Resources : obj'[r].data # 0 /\ (obj[r].annotated => obj'[r].annotated)

\* Objects, mounts and the worker's variables are all that WatchedInv is about: a step
\* that leaves the last two alone and lets the objects grow keeps it.
LEMMA Carried ==
    ASSUME WatchInv, budget'["delete"] = budget["delete"], NothingDeleted => Grows,
           UNCHANGED <<mounted, pc, errs, recRefs, todo>>
    PROVE  WatchedInv'
<1> SUFFICES ASSUME NothingDeleted'
             PROVE  /\ \A r \in Resources : obj'[r].data # 0
                    /\ Annotations(mounted \cap UserResources)'
                    /\ WorkerInv'
  BY Zenon DEF WatchedInv
<1>1. NothingDeleted
  BY DEF NothingDeleted
<1>2. Grows /\ Annotations(mounted \cap UserResources) /\ WorkerInv
  BY <1>1, Zenon DEF WatchInv, WatchedInv
<1>3. recRefs \subseteq Resources /\ UserResources \subseteq Resources
  BY DEF WatchInv, TypeOK, UserResources
<1>4. Annotations(mounted \cap UserResources)'
  BY <1>2, <1>3 DEF Grows, Annotations
<1>5. WorkerInv'
  BY <1>2, <1>3 DEF Grows, Annotations, WorkerInv
<1> QED
  BY <1>2, <1>4, <1>5 DEF Grows

\* A write of one object that keeps its annotation.
LEMMA GrowsOne ==
    ASSUME WatchInv, NEW r \in Resources, NothingDeleted,
           \A q \in Resources \ {r} : obj'[q] = obj[q],
           obj'[r].data # 0, obj[r].annotated => obj'[r].annotated
    PROVE  Grows
<1>1. \A q \in Resources : obj[q].data # 0
  BY Zenon DEF WatchInv, WatchedInv
<1> QED
  BY <1>1 DEF Grows

LEMMA GrowsNone ==
    ASSUME WatchInv, NothingDeleted, UNCHANGED obj
    PROVE  Grows
<1>1. \A q \in Resources : obj[q].data # 0
  BY Zenon DEF WatchInv, WatchedInv
<1> QED
  BY <1>1 DEF Grows

LEMMA WriteDataStep ==
    ASSUME WatchInv, NEW r \in Resources, WriteData(r)
    PROVE  WatchInv'
<1> USE TypeParts, TypePartsPrime
<1>0. /\ ObjTyped /\ EventsTyped /\ LoadedTyped /\ BudgetTyped
      /\ MappingTyped /\ WorkerTyped /\ RestTyped
  BY DEF WatchInv
<1>1. version + 1 \in Nat /\ version + 1 \in 0..MaxWrites /\ version' = version + 1
      /\ version + 1 # 0
  BY <1>0, WatcherBounds DEF WriteData, RestTyped
<1>2. UNCHANGED <<refs, introspection, queued, pc, recRefs, recIntrospection, todo,
                  errs, mapping, watchEnabled, mounted, budget>>
  BY DEF WriteData, crVars, workerVars
<1>3. BudgetTyped' /\ MappingTyped' /\ WorkerTyped' /\ RestTyped'
  BY <1>0, <1>1, <1>2 DEF BudgetTyped, MappingTyped, WorkerTyped, RestTyped
<1>4. budget'["delete"] = budget["delete"]
  BY <1>2
<1>5. CASE obj[r].data # 0
  <2>1. Store(r, [obj[r] EXCEPT !.data = version + 1, !.rv = @ + 1], "update", TRUE)
        /\ UNCHANGED loaded
    BY <1>5 DEF WriteData
  <2>2. [obj[r] EXCEPT !.data = version + 1, !.rv = @ + 1] \in ObjStates
    BY <1>0, <1>1, Rewritten
  <2>3. /\ ObjTyped' /\ EventsTyped'
        /\ obj'[r] = [obj[r] EXCEPT !.data = version + 1, !.rv = @ + 1]
        /\ \A q \in Resources \ {r} : obj'[q] = obj[q]
    BY <1>0, <2>1, <2>2, StoreFacts
  <2>4. obj'[r].data = version + 1 /\ obj'[r].annotated = obj[r].annotated
    BY <2>3, <1>0 DEF ObjTyped, ObjStates
  <2>5. LoadedTyped'
    BY <2>1, <1>0 DEF LoadedTyped
  <2>6. NothingDeleted => Grows
    BY <2>3, <2>4, <1>1, GrowsOne
  <2> QED
    BY <1>2, <1>3, <1>4, <2>3, <2>5, <2>6, Carried DEF WatchInv
<1>6. CASE obj[r].data = 0
  <2>1. /\ Store(r, [data |-> version + 1, annotated |-> FALSE, rv |-> obj[r].rv + 1],
                 "create", TRUE)
        /\ StartPending(r, version + 1)
    BY <1>6 DEF WriteData
  <2>2. [data |-> version + 1, annotated |-> FALSE, rv |-> obj[r].rv + 1] \in ObjStates
    BY <1>0, <1>1, Rewritten
  <2>3. ObjTyped' /\ EventsTyped'
    BY <1>0, <2>1, <2>2, StoreFacts
  <2>4. LoadedTyped'
    BY <2>1, <1>0, <1>1 DEF LoadedTyped, StartPending
  <2>5. ~NothingDeleted
    BY <1>6 DEF WatchInv, WatchedInv
  <2> QED
    BY <1>2, <1>3, <1>4, <2>3, <2>4, <2>5, Carried DEF WatchInv
<1> QED
  BY <1>5, <1>6

LEMMA DeleteStep ==
    ASSUME WatchInv, NEW r \in Resources, DeleteResource(r)
    PROVE  WatchInv'
<1> USE TypeParts, TypePartsPrime
<1>0. /\ ObjTyped /\ EventsTyped /\ LoadedTyped /\ BudgetTyped
      /\ MappingTyped /\ WorkerTyped /\ RestTyped
  BY DEF WatchInv
<1>1. UNCHANGED <<events, version, refs, introspection, queued, pc, recRefs,
                  recIntrospection, todo, errs, mapping, watchEnabled, mounted, loaded>>
  BY DEF DeleteResource, crVars, workerVars
<1>2. /\ EventsTyped' /\ LoadedTyped' /\ MappingTyped' /\ WorkerTyped' /\ RestTyped'
  BY <1>0, <1>1 DEF EventsTyped, LoadedTyped, MappingTyped, WorkerTyped, RestTyped
<1>3. [data |-> 0, annotated |-> FALSE, rv |-> obj[r].rv + 1] \in ObjStates
  BY <1>0, Rewritten
<1>4. ObjTyped'
  BY <1>0, <1>3 DEF ObjTyped, DeleteResource
<1>5. BudgetTyped' /\ budget'["delete"] = budget["delete"] - 1
  BY <1>0, SpendFacts DEF DeleteResource, Budgets
<1>6. budget["delete"] \in Nat /\ budget["delete"] <= MaxDeletes
  BY <1>0 DEF WatchInv, BudgetTyped, Budgets
<1>7. budget'["delete"] <= MaxDeletes /\ ~NothingDeleted'
  BY <1>5, <1>6, WatcherBounds DEF NothingDeleted
<1> QED
  BY <1>2, <1>4, <1>5, <1>7 DEF WatchInv, WatchedInv

LEMMA TouchStep ==
    ASSUME WatchInv, NEW r \in Resources, Touch(r)
    PROVE  WatchInv'
<1> USE TypeParts, TypePartsPrime
<1>0. /\ ObjTyped /\ EventsTyped /\ LoadedTyped /\ BudgetTyped
      /\ MappingTyped /\ WorkerTyped /\ RestTyped
  BY DEF WatchInv
<1>1. UNCHANGED <<version, refs, introspection, queued, pc, recRefs,
                  recIntrospection, todo, errs, mapping, watchEnabled, mounted, loaded>>
  BY DEF Touch, crVars, workerVars
<1>2. /\ LoadedTyped' /\ MappingTyped' /\ WorkerTyped' /\ RestTyped'
  BY <1>0, <1>1 DEF LoadedTyped, MappingTyped, WorkerTyped, RestTyped
<1>3. BudgetTyped' /\ budget'["delete"] = budget["delete"]
  BY <1>0, SpendFacts DEF Touch, Budgets
<1>4. [obj[r] EXCEPT !.rv = @ + 1] \in ObjStates
  BY <1>0, Rewritten
<1>5. /\ ObjTyped' /\ EventsTyped'
      /\ obj'[r] = [obj[r] EXCEPT !.rv = @ + 1]
      /\ \A q \in Resources \ {r} : obj'[q] = obj[q]
  BY <1>0, <1>4, StoreFacts DEF Touch
<1>6. obj'[r].data = obj[r].data /\ obj'[r].annotated = obj[r].annotated
  BY <1>5, <1>0 DEF ObjTyped, ObjStates
<1>7. NothingDeleted => Grows
  BY <1>5, <1>6, GrowsOne DEF Touch
<1> QED
  BY <1>1, <1>2, <1>3, <1>5, <1>7, Carried DEF WatchInv

LEMMA EditStep ==
    ASSUME WatchInv, EditCR
    PROVE  WatchInv'
<1> USE TypeParts, TypePartsPrime
<1>0. /\ ObjTyped /\ EventsTyped /\ LoadedTyped /\ BudgetTyped
      /\ MappingTyped /\ WorkerTyped /\ RestTyped
  BY DEF WatchInv
<1>1. UNCHANGED <<obj, events, version, pc, recRefs, recIntrospection, todo, errs,
                  mapping, watchEnabled, mounted, loaded>>
  BY DEF EditCR, workerVars
<1>2. /\ ObjTyped' /\ EventsTyped' /\ LoadedTyped' /\ MappingTyped' /\ WorkerTyped'
  BY <1>0, <1>1 DEF ObjTyped, EventsTyped, LoadedTyped, MappingTyped, WorkerTyped
<1>3. BudgetTyped' /\ budget'["delete"] = budget["delete"]
  BY <1>0, SpendFacts DEF EditCR, Budgets
<1>4. refs' \subseteq UserResources
  BY <1>0 DEF EditCR, RestTyped
<1>5. introspection' \in BOOLEAN
  BY <1>0, Zenon DEF EditCR, RestTyped
<1>6. RestTyped'
  BY <1>0, <1>1, <1>4, <1>5 DEF EditCR, RestTyped
<1>7. NothingDeleted => Grows
  BY <1>1, GrowsNone
<1> QED
  BY <1>1, <1>2, <1>3, <1>6, <1>7, Carried DEF WatchInv

LEMMA OtherEventStep ==
    ASSUME WatchInv, OtherEvent
    PROVE  WatchInv'
<1>1. UNCHANGED <<obj, events, version, refs, introspection, pc, recRefs,
                  recIntrospection, todo, errs, mapping, watchEnabled, mounted, loaded,
                  budget>>
  BY DEF OtherEvent, crVars, workerVars
<1>2. TypeOK'
  BY <1>1 DEF WatchInv, TypeOK, OtherEvent
<1>3. NothingDeleted => Grows
  BY <1>1, GrowsNone
<1> QED
  BY <1>1, <1>2, <1>3, Carried DEF WatchInv

\* The effect of a handler on the objects and on its queue of events.
LEMMA HandledFacts ==
    ASSUME WatchInv, NEW r \in Resources, Handle(r)
    PROVE  /\ ObjTyped' /\ EventsTyped' /\ LoadedTyped' /\ BudgetTyped'
           /\ queued' \in BOOLEAN /\ budget'["delete"] = budget["delete"]
           /\ NothingDeleted => Grows
<1> USE TypeParts
<1>0. /\ ObjTyped /\ EventsTyped /\ LoadedTyped /\ BudgetTyped /\ RestTyped /\ TypeOK
  BY DEF WatchInv
<1> DEFINE e == Head(events[r])
           taken == Tail(events[r])
<1>1. /\ e \in Events /\ taken \in Seq(Events)
      /\ \A f \in Events : Append(taken, f) \in Seq(Events)
  BY <1>0, TakenEvent DEF Handle
<1>2. ASSUME events' = [events EXCEPT ![r] = taken]
      PROVE  EventsTyped'
  BY <1>2, <1>1, <1>0 DEF EventsTyped
<1>3. ASSUME UNCHANGED <<loaded, queued, budget>>
      PROVE  /\ LoadedTyped' /\ BudgetTyped' /\ queued' \in BOOLEAN
             /\ budget'["delete"] = budget["delete"]
  BY <1>3, <1>0 DEF LoadedTyped, BudgetTyped, RestTyped
<1>4. ASSUME UNCHANGED obj
      PROVE  ObjTyped' /\ (NothingDeleted => Grows)
  BY <1>4, <1>0, GrowsNone DEF ObjTyped
<1>5. ASSUME restartDeployment(AffectedDeployments(r))
      PROVE  /\ LoadedTyped' /\ BudgetTyped' /\ queued' \in BOOLEAN
             /\ budget'["delete"] = budget["delete"]
  BY <1>5, <1>0, RestartFacts
<1>6. CASE HandleUpdate(r, e)
  BY <1>2, <1>3, <1>4, <1>5, <1>6, Zenon DEF HandleUpdate
<1>7. CASE HandleCreate(r, e)
  <2>1. CASE /\ events' = [events EXCEPT ![r] = taken]
             /\ UNCHANGED <<obj, loaded, queued, budget>>
    BY <1>2, <1>3, <1>4, <2>1, Zenon
  <2>2. CASE /\ events' = [events EXCEPT ![r] = taken]
             /\ restartDeployment(AffectedDeployments(r))
             /\ UNCHANGED obj
    BY <1>2, <1>4, <1>5, <2>2, Zenon
  <2>3. CASE /\ obj[r].data # 0
             /\ obj' = [obj EXCEPT ![r].annotated = TRUE, ![r].rv = @ + 1]
             /\ events' = [events EXCEPT ![r] = Append(taken,
                   [type |-> "update", changed |-> FALSE, annotated |-> TRUE,
                    rv |-> obj[r].rv + 1])]
             /\ restartDeployment(AffectedDeployments(r))
    <3>1. obj[r].rv \in Nat
      BY <1>0, Rewritten
    <3>2. [type |-> "update", changed |-> FALSE, annotated |-> TRUE,
           rv |-> obj[r].rv + 1] \in Events
      BY <3>1 DEF Events
    <3>3. EventsTyped'
      BY <1>0, <1>1, <2>3, <3>2 DEF EventsTyped
    <3>4. /\ obj'[r] = [obj[r] EXCEPT !.annotated = TRUE, !.rv = @ + 1]
          /\ \A q \in Resources \ {r} : obj'[q] = obj[q]
          /\ obj' \in [Resources -> ObjStates]
      <4>1. [obj[r] EXCEPT !.annotated = TRUE, !.rv = @ + 1] \in ObjStates
        BY <1>0, Rewritten
      <4>2. obj' = [obj EXCEPT ![r] = [obj[r] EXCEPT !.annotated = TRUE, !.rv = @ + 1]]
        BY <1>0, <2>3 DEF ObjTyped, ObjStates
      <4> QED
        BY <1>0, <4>1, <4>2 DEF ObjTyped
    <3>5. obj'[r].data = obj[r].data /\ obj'[r].annotated
      BY <3>4, <1>0 DEF ObjTyped, ObjStates
    <3>6. NothingDeleted => Grows
      BY <2>3, <3>4, <3>5, GrowsOne
    <3> QED
      BY <1>5, <2>3, <3>3, <3>4, <3>6 DEF ObjTyped
  <2> QED
    BY <1>7, <2>1, <2>2, <2>3, Zenon DEF HandleCreate
<1> QED
  BY <1>6, <1>7, Zenon DEF Handle

LEMMA HandleStep ==
    ASSUME WatchInv, NEW r \in Resources, Handle(r)
    PROVE  WatchInv'
<1> USE TypeParts, TypePartsPrime
<1>0. MappingTyped /\ WorkerTyped /\ RestTyped
  BY DEF WatchInv
<1>1. UNCHANGED <<version, refs, introspection, pc, recRefs, recIntrospection, todo,
                  errs, mapping, watchEnabled, mounted>>
  BY DEF Handle, crVars, workerVars
<1>2. MappingTyped' /\ WorkerTyped'
  BY <1>0, <1>1 DEF MappingTyped, WorkerTyped
<1>3. RestTyped'
  BY <1>0, <1>1, HandledFacts DEF RestTyped
<1> QED
  BY <1>1, <1>2, <1>3, HandledFacts, Carried DEF WatchInv

LEMMA StartReconcileStep ==
    ASSUME WatchInv, StartReconcile
    PROVE  WatchInv'
<1> USE TypeParts, TypePartsPrime
<1>0. /\ ObjTyped /\ EventsTyped /\ LoadedTyped /\ BudgetTyped
      /\ MappingTyped /\ WorkerTyped /\ RestTyped
  BY DEF WatchInv
<1>1. UNCHANGED <<obj, events, version, refs, introspection, watchEnabled, mounted,
                  loaded, budget>>
  BY DEF StartReconcile, crVars
<1>2. /\ ObjTyped' /\ EventsTyped' /\ LoadedTyped' /\ BudgetTyped'
  BY <1>0, <1>1 DEF ObjTyped, EventsTyped, LoadedTyped, BudgetTyped
<1>3. NothingDeleted => Grows
  BY <1>1, GrowsNone
<1>4. CASE UNCHANGED <<queued, workerVars, mapping>>
  <2>1. MappingTyped' /\ WorkerTyped' /\ RestTyped'
    BY <1>0, <1>1, <1>4 DEF MappingTyped, WorkerTyped, RestTyped, workerVars
  <2> QED
    BY <1>1, <1>2, <1>3, <1>4, <2>1, Carried DEF WatchInv, workerVars
<1>5. CASE /\ queued' = FALSE /\ pc' = "annotate"
           /\ recRefs' = refs /\ recIntrospection' = introspection
           /\ todo' = refs /\ errs' = FALSE /\ mapping' = NoMapping
  <2>1. MappingTyped' /\ WorkerTyped' /\ RestTyped'
    BY <1>0, <1>1, <1>5 DEF MappingTyped, WorkerTyped, RestTyped, NoMapping
  <2>2. WorkerInv'
    BY <1>5 DEF WorkerInv, Annotations
  <2>3. WatchedInv'
    BY <1>1, <2>2 DEF WatchInv, WatchedInv, NothingDeleted, Annotations
  <2> QED
    BY <1>1, <1>2, <2>1, <2>3 DEF WatchInv
<1> QED
  BY <1>4, <1>5, Zenon DEF StartReconcile

LEMMA AnnotateStep ==
    ASSUME WatchInv, NEW r \in UserResources, Annotate(r)
    PROVE  WatchInv'
<1> USE TypeParts, TypePartsPrime
<1>0. /\ ObjTyped /\ EventsTyped /\ LoadedTyped /\ BudgetTyped
      /\ MappingTyped /\ WorkerTyped /\ RestTyped
  BY DEF WatchInv
<1>1. UNCHANGED <<version, refs, introspection, queued, pc, recRefs, recIntrospection,
                  watchEnabled, mounted, loaded>>
  BY DEF Annotate, crVars
<1>2. /\ pc = "annotate" /\ r \in todo /\ todo' = todo \ {r} /\ r \in Resources
      /\ mapping' = [mapping EXCEPT ![r] = MappedDeployments(r)]
  BY DEF Annotate, UserResources
<1>3. MappedDeployments(r) \subseteq Deployments
  BY DEF MappedDeployments, Deployments
<1>4. LoadedTyped' /\ MappingTyped' /\ RestTyped'
  BY <1>0, <1>1, <1>2, <1>3 DEF LoadedTyped, MappingTyped, RestTyped
<1>5. /\ ObjTyped' /\ EventsTyped' /\ BudgetTyped' /\ errs' \in BOOLEAN
      /\ budget'["delete"] = budget["delete"]
      /\ NothingDeleted => Grows /\ (errs' \/ (~errs /\ obj'[r].annotated))
  <2>1. CASE /\ obj[r].data = 0 \/ obj[r].annotated
             /\ UNCHANGED <<obj, events, errs, budget>>
    <3>1. /\ ObjTyped' /\ EventsTyped' /\ BudgetTyped' /\ errs' \in BOOLEAN
          /\ budget'["delete"] = budget["delete"]
      BY <1>0, <2>1 DEF ObjTyped, EventsTyped, BudgetTyped, WorkerTyped
    <3>2. NothingDeleted => Grows /\ obj[r].data # 0
      BY <1>2, <2>1, GrowsNone DEF WatchInv, WatchedInv
    <3>3. NothingDeleted => (errs' \/ (~errs /\ obj'[r].annotated))
      BY <2>1, <3>2
    <3> QED
      BY <3>1, <3>2, <3>3
  <2>2. CASE /\ obj[r].data # 0 /\ ~obj[r].annotated
             /\ Store(r, [obj[r] EXCEPT !.annotated = TRUE, !.rv = @ + 1], "update", FALSE)
             /\ UNCHANGED <<errs, budget>>
    <3>1. [obj[r] EXCEPT !.annotated = TRUE, !.rv = @ + 1] \in ObjStates
      BY <1>0, <1>2, Rewritten
    <3>2. /\ ObjTyped' /\ EventsTyped'
          /\ obj'[r] = [obj[r] EXCEPT !.annotated = TRUE, !.rv = @ + 1]
          /\ \A q \in Resources \ {r} : obj'[q] = obj[q]
      BY <1>0, <1>2, <2>2, <3>1, StoreFacts
    <3>3. obj'[r].data = obj[r].data /\ obj'[r].annotated
      BY <1>0, <1>2, <3>2 DEF ObjTyped, ObjStates
    <3>4. NothingDeleted => Grows
      BY <1>2, <2>2, <3>2, <3>3, GrowsOne
    <3>5. BudgetTyped' /\ errs' \in BOOLEAN /\ budget'["delete"] = budget["delete"]
      BY <1>0, <2>2 DEF BudgetTyped, WorkerTyped
    <3> QED
      BY <2>2, <3>2, <3>3, <3>4, <3>5
  <2>3. CASE /\ Spend("fault") /\ errs' = TRUE /\ UNCHANGED <<obj, events>>
    <3>1. BudgetTyped' /\ budget'["delete"] = budget["delete"]
      BY <1>0, <2>3, SpendFacts DEF Budgets
    <3>2. ObjTyped' /\ EventsTyped' /\ (NothingDeleted => Grows)
      BY <1>0, <2>3, GrowsNone DEF ObjTyped, EventsTyped
    <3> QED
      BY <2>3, <3>1, <3>2
  <2> QED
    BY <2>1, <2>2, <2>3, Zenon DEF Annotate
<1>6. WorkerTyped'
  BY <1>0, <1>1, <1>2, <1>5 DEF WorkerTyped
<1>7. WatchedInv'
  <2> SUFFICES ASSUME NothingDeleted'
               PROVE  /\ \A q \in Resources : obj'[q].data # 0
                      /\ Annotations(mounted \cap UserResources)'
                      /\ WorkerInv'
    BY Zenon DEF WatchedInv
  <2>1. NothingDeleted /\ Annotations(mounted \cap UserResources) /\ WorkerInv
    BY <1>5, Zenon DEF NothingDeleted, WatchInv, WatchedInv
  <2>2. Grows /\ (errs' \/ (~errs /\ obj'[r].annotated))
    BY <1>5, <2>1
  <2>3. recRefs \subseteq Resources /\ UserResources \subseteq Resources
    BY <1>0 DEF WorkerTyped, UserResources
  <2>4. Annotations(mounted \cap UserResources)'
    BY <1>1, <2>1, <2>2, <2>3 DEF Grows, Annotations
  <2>5. WorkerInv'
    <3>1. ASSUME ~errs', NEW q \in recRefs \ todo' PROVE obj'[q].annotated
      BY <1>2, <2>1, <2>2, <2>3, <3>1 DEF Grows, WorkerInv, Annotations
    <3> QED
      BY <1>1, <1>2, <3>1 DEF WorkerInv, Annotations
  <2> QED
    BY <2>2, <2>4, <2>5 DEF Grows
<1> QED
  BY <1>4, <1>5, <1>6, <1>7 DEF WatchInv

LEMMA AnnotatedStep ==
    ASSUME WatchInv, Annotated
    PROVE  WatchInv'
<1>1. UNCHANGED <<obj, events, version, refs, introspection, recRefs, recIntrospection,
                  todo, errs, mapping, mounted, loaded, budget>>
  BY DEF Annotated, crVars
<1>2. pc = "annotate" /\ todo = {}
  BY DEF Annotated
<1>3. \/ errs /\ pc' = "idle" /\ queued' = TRUE /\ UNCHANGED watchEnabled
      \/ ~errs /\ pc' = "phases" /\ watchEnabled' = recIntrospection /\ UNCHANGED queued
  BY Zenon DEF Annotated
<1>4. TypeOK'
  BY <1>1, <1>3 DEF WatchInv, TypeOK
<1>5. WorkerInv => WorkerInv'
  BY <1>1, <1>2, <1>3 DEF WorkerInv, Annotations
<1>6. WatchedInv'
  BY <1>1, <1>5 DEF WatchInv, WatchedInv, NothingDeleted, Annotations
<1> QED
  BY <1>1, <1>4, <1>6 DEF WatchInv

LEMMA RolloutStep ==
    ASSUME WatchInv, Rollout
    PROVE  WatchInv'
<1> USE TypeParts, TypePartsPrime
<1>0. /\ ObjTyped /\ EventsTyped /\ LoadedTyped /\ BudgetTyped
      /\ MappingTyped /\ WorkerTyped /\ RestTyped
  BY DEF WatchInv
<1>1. /\ UNCHANGED <<obj, events, version, refs, introspection, recRefs,
                     recIntrospection, todo, errs, mapping, watchEnabled>>
      /\ pc = "phases" /\ pc' = "idle"
  BY DEF Rollout, crVars
<1>2. ObjTyped' /\ EventsTyped' /\ MappingTyped' /\ WorkerTyped'
  BY <1>0, <1>1 DEF ObjTyped, EventsTyped, MappingTyped, WorkerTyped
<1>3. WorkerInv'
  BY <1>1 DEF WorkerInv
<1>4. CASE Spend("fault") /\ queued' = TRUE /\ UNCHANGED <<mounted, loaded>>
  <2>1. BudgetTyped' /\ budget'["delete"] = budget["delete"]
    BY <1>0, <1>4, SpendFacts DEF Budgets
  <2>2. LoadedTyped' /\ RestTyped'
    BY <1>0, <1>1, <1>4 DEF LoadedTyped, RestTyped
  <2>3. WatchedInv'
    BY <1>1, <1>3, <1>4, <2>1 DEF WatchInv, WatchedInv, NothingDeleted, Annotations
  <2> QED
    BY <1>2, <2>1, <2>2, <2>3 DEF WatchInv
<1>5. CASE /\ mounted' = SystemResources \cup
                {r \in recRefs : Source(r) = "alerts-adapter" => obj[r].data # 0}
           /\ LET moved == (mounted \ mounted') \cup (mounted' \ mounted)
                  rolled == UNION {Users(r) : r \in moved}
              IN  loaded' = [r \in Resources |-> [d \in Deployments |->
                    IF d \notin rolled \cap Users(r) THEN loaded[r][d]
                    ELSE IF r \in mounted' THEN obj[r].data ELSE 0]]
           /\ UNCHANGED <<queued, budget>>
  <2>1. mounted' \subseteq Resources /\ mounted' \cap UserResources \subseteq recRefs
    BY <1>0, <1>5 DEF WorkerTyped, UserResources, SystemResources
  <2>2. RestTyped' /\ BudgetTyped'
    BY <1>0, <1>1, <1>5, <2>1 DEF RestTyped, BudgetTyped
  <2>3. \A r \in Resources : obj[r].data \in Nat
    BY <1>0, Rewritten
  <2>4. LoadedTyped'
    <3> DEFINE rolled == UNION {Users(r) : r \in (mounted \ mounted') \cup (mounted' \ mounted)}
    <3>1. loaded' = [r \in Resources |-> [d \in Deployments |->
                    IF d \notin rolled \cap Users(r) THEN loaded[r][d]
                    ELSE IF r \in mounted' THEN obj[r].data ELSE 0]]
      BY <1>5, Zenon
    <3> HIDE DEF rolled
    <3> QED
      BY <1>0, <2>3, <3>1 DEF LoadedTyped
  <2>5. NothingDeleted => Annotations(recRefs)
    BY <1>1 DEF WatchInv, WatchedInv, WorkerInv
  <2>6. NothingDeleted => Annotations(mounted \cap UserResources)'
    BY <1>1, <2>1, <2>5 DEF Annotations
  <2>7. WatchedInv'
    BY <1>1, <1>3, <1>5, <2>6 DEF WatchInv, WatchedInv, NothingDeleted
  <2> QED
    BY <1>2, <1>5, <2>2, <2>4, <2>7 DEF WatchInv
<1> QED
  BY <1>4, <1>5, Zenon DEF Rollout

LEMMA CrashStep ==
    ASSUME WatchInv, Crash
    PROVE  WatchInv'
<1> USE TypeParts, TypePartsPrime
<1>0. /\ ObjTyped /\ EventsTyped /\ LoadedTyped /\ BudgetTyped
      /\ MappingTyped /\ WorkerTyped /\ RestTyped
  BY DEF WatchInv
<1>1. /\ UNCHANGED <<obj, version, refs, introspection, mounted, loaded>>
      /\ pc' = "idle" /\ recRefs' = {} /\ recIntrospection' = FALSE
      /\ todo' = {} /\ errs' = FALSE /\ mapping' = NoMapping
      /\ watchEnabled' = FALSE /\ queued' = TRUE
  BY DEF Crash, crVars
<1>2. ObjTyped' /\ LoadedTyped' /\ MappingTyped' /\ WorkerTyped' /\ RestTyped'
  BY <1>0, <1>1 DEF ObjTyped, LoadedTyped, MappingTyped, WorkerTyped, RestTyped, NoMapping
<1>3. BudgetTyped' /\ budget'["delete"] = budget["delete"]
  BY <1>0, SpendFacts DEF Crash, Budgets
<1>4. EventsTyped'
  <2> DEFINE ev(r) == [type |-> "create", changed |-> TRUE,
                       annotated |-> obj[r].annotated, rv |-> obj[r].rv]
  <2>1. \A r \in Resources : ev(r) \in Events
    BY <1>0, Rewritten, Zenon DEF Events
  <2>2. events' = [r \in Resources |-> IF obj[r].data = 0 THEN <<>> ELSE <<ev(r)>>]
    BY Zenon DEF Crash
  <2> HIDE DEF ev
  <2> QED
    BY <2>1, <2>2 DEF EventsTyped
<1>5. WatchedInv'
  BY <1>1, <1>3 DEF WatchInv, WatchedInv, WorkerInv, NothingDeleted, Annotations
<1> QED
  BY <1>2, <1>3, <1>4, <1>5 DEF WatchInv

LEMMA WatchInit == Init => WatchInv
<1> SUFFICES ASSUME Init PROVE WatchInv
  OBVIOUS
<1>1. ObjTyped /\ EventsTyped
  BY DEF Init, ObjTyped, EventsTyped, ObjStates
<1>2. LoadedTyped /\ MappingTyped /\ WorkerTyped
  BY DEF Init, LoadedTyped, MappingTyped, WorkerTyped, NoMapping
<1>3. RestTyped
  <2>1. 1 \in 0..MaxWrites
    BY WatcherBounds
  <2> QED
    BY <2>1 DEF Init, RestTyped, SystemResources
<1>4. BudgetTyped /\ budget["delete"] = MaxDeletes
  BY WatcherBounds DEF Init, BudgetTyped, Budgets
<1>5. TypeOK
  BY <1>1, <1>2, <1>3, <1>4, TypeParts
<1>6. WatchedInv
  BY DEF Init, WatchedInv, WorkerInv, Annotations, UserResources
<1> QED
  BY <1>4, <1>5, <1>6, WatcherBounds DEF WatchInv

LEMMA WatchStep == WatchInv /\ [Next]_vars => WatchInv'
<1> SUFFICES ASSUME WatchInv, [Next]_vars PROVE WatchInv'
  OBVIOUS
<1>1. CASE Worker
  BY <1>1, StartReconcileStep, AnnotatedStep, RolloutStep, AnnotateStep DEF Worker
<1>2. CASE EditCR \/ OtherEvent \/ Crash
  BY <1>2, EditStep, OtherEventStep, CrashStep
<1>3. CASE \E r \in Resources : WriteData(r) \/ DeleteResource(r) \/ Touch(r) \/ Handle(r)
  BY <1>3, WriteDataStep, DeleteStep, TouchStep, HandleStep
<1>4. CASE UNCHANGED vars
  BY <1>4 DEF vars, WatchInv, TypeOK, WatchedInv, WorkerInv, NothingDeleted, Annotations
<1> QED
  BY <1>1, <1>2, <1>3, <1>4 DEF Next

----------------------------------------------------------------------------
(* The theorems.                                                           *)

LEMMA WatchInvariant == Spec => []WatchInv
<1> QED
  BY WatchInit, WatchStep, PTL DEF Spec

\* Every variable keeps its type, whatever the handlers and the worker do to the map,
\* the events and the objects they share.
THEOREM WatchersTyped == Spec => []TypeOK
<1>1. WatchInv => TypeOK
  BY DEF WatchInv
<1> QED
  BY <1>1, WatchInvariant, PTL

\* For any number of resources, edits, refused annotations, lost restarts and crashes:
\* as long as nothing is deleted, no Deployment mounts a resource whose updates the
\* predicates filter out. annotateExternalResources ends the pass on a failure, and a
\* crash or an edit between annotation and roll-out does not undo what was annotated.
THEOREM MountedStaysWatched == Spec => []MountedIsWatched
<1>1. WatchInv => MountedIsWatched
  BY DEF WatchInv, WatchedInv, NothingDeleted, Annotations, MountedIsWatched
<1> QED
  BY <1>1, WatchInvariant, PTL

=============================================================================
