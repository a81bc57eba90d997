------------------------ MODULE OperandRollout_proofs ------------------------
(***************************************************************************)
(* Proofs about OperandRollout, for every choice of operands and kept      *)
(* objects and every value of the bounds: the type invariant, that the     *)
(* operands that wait for their certificate are not deployed before it     *)
(* exists, and that the stamps of a Deployment never claim more than its   *)
(* pods have.                                                              *)
(***************************************************************************)
EXTENDS OperandRollout, TLAPS

----------------------------------------------------------------------------
(* The task lists.                                                         *)

\* Tasks of Phase 1 work on objects that the operator writes; in Phase 2 the
\* certificate is only waited for, and the Deployment is only deployed.
ObjectTasks == {"Apply", "Overwrite", "Ensure", "Delete"} \X (Objects \ {"dep", "tls"})
WaitTasks == {"Wait", "WaitAndTouch"} \X {"tls"}
DeployTask == <<"Deploy", "dep">>
CertTask == <<"Wait", "tls">>
PhaseTasks == ObjectTasks \cup WaitTasks \cup {DeployTask}

LEMMA TaskAtTyped ==
    ASSUME NEW S, NEW list, NEW i,
           i \in DOMAIN list /\ list[i][2] \in Objects => list[i] \in S
    PROVE  TaskAt(list, i) \in Seq(S)
BY DEF TaskAt

LEMMA Joined ==
    ASSUME NEW S, NEW a \in Seq(S), NEW b \in Seq(S)
    PROVE  a \o b \in Seq(S)
OBVIOUS

LEMMA KeptTyped ==
    ASSUME NEW S, NEW list, \A i \in DOMAIN list : list[i][2] \in Objects => list[i] \in S
    PROVE  Kept(list) \in Seq(S)
<1>1. \A i \in {1, 2, 3, 4, 5, 6} : TaskAt(list, i) \in Seq(S)
  BY TaskAtTyped
<1> DEFINE k2 == TaskAt(list, 1) \o TaskAt(list, 2)
           k3 == k2 \o TaskAt(list, 3)
           k4 == k3 \o TaskAt(list, 4)
           k5 == k4 \o TaskAt(list, 5)
           k6 == k5 \o TaskAt(list, 6)
<1>2. k2 \in Seq(S)
  BY <1>1, Joined
<1>3. k3 \in Seq(S)
  <2> HIDE DEF k2
  <2> QED  BY <1>1, <1>2, Joined
<1>4. k4 \in Seq(S)
  <2> HIDE DEF k3
  <2> QED  BY <1>1, <1>3, Joined
<1>5. k5 \in Seq(S)
  <2> HIDE DEF k4
  <2> QED  BY <1>1, <1>4, Joined
<1>6. k6 \in Seq(S)
  <2> HIDE DEF k5
  <2> QED  BY <1>1, <1>5, Joined
<1> QED
  BY <1>6, Zenon DEF Kept

\* A task of a list names its object second.
LEMMA TaskKinds ==
    ASSUME NEW k, NEW x, x \in Objects
    PROVE  /\ k \in {"Apply", "Overwrite", "Ensure", "Delete"} /\ x \notin {"dep", "tls"}
                 => <<k, x>> \in ObjectTasks /\ <<k, x>> \in PhaseTasks
           /\ k \in {"Wait", "WaitAndTouch"} /\ x = "tls" => <<k, x>> \in PhaseTasks
           /\ k = "Deploy" /\ x = "dep" => <<k, x>> \in PhaseTasks
BY DEF ObjectTasks, WaitTasks, DeployTask, PhaseTasks

\* The lists of every operand.
Phase1Lists ==
    {McpTasks.res, RhokpTasks.res, OtelTasks.res, PostgresTasks.res, AppServerTasks.res,
     AlertsAdapterTasks.res, ConsoleTasks.res}
Phase2Lists ==
    {McpTasks.dep, RhokpTasks.dep, OtelTasks.dep, PostgresTasks.dep, AppServerTasks.dep,
     AlertsAdapterTasks.dep, ConsoleTasks.dep}

LEMMA ListsOf ==
    ASSUME NEW o \in Operands
    PROVE  Tasks[o].res \in Phase1Lists /\ Tasks[o].dep \in Phase2Lists
<1>1. o \in {"mcp", "rhokp", "otel", "postgres", "appserver", "alertsadapter", "console",
             "agenticconsole"}
  BY OperandsChoice DEF Tasks
<1>2. Tasks[o] \in {McpTasks, RhokpTasks, OtelTasks, PostgresTasks, AppServerTasks,
                    AlertsAdapterTasks, ConsoleTasks}
  BY <1>1 DEF Tasks
<1> QED
  BY <1>2 DEF Phase1Lists, Phase2Lists

WrittenKinds == {"Apply", "Overwrite", "Ensure", "Delete"}
IsObjectTask(t) == \E k \in WrittenKinds : \E x : t = <<k, x>> /\ x \notin {"dep", "tls"}

LEMMA Phase1Typed ==
    ASSUME NEW list \in Phase1Lists
    PROVE  Kept(list) \in Seq(ObjectTasks)
<1>1. \A i \in DOMAIN list : IsObjectTask(list[i])
  <2>1. CASE list = McpTasks.res
    BY <2>1 DEF McpTasks, IsObjectTask, WrittenKinds
  <2>2. CASE list = RhokpTasks.res
    BY <2>2 DEF RhokpTasks, IsObjectTask, WrittenKinds
  <2>3. CASE list = OtelTasks.res
    BY <2>3 DEF OtelTasks, IsObjectTask, WrittenKinds
  <2>4. CASE list = PostgresTasks.res
    BY <2>4 DEF PostgresTasks, IsObjectTask, WrittenKinds
  <2>5. CASE list = AppServerTasks.res
    BY <2>5 DEF AppServerTasks, IsObjectTask, WrittenKinds
  <2>6. CASE list = AlertsAdapterTasks.res
    BY <2>6 DEF AlertsAdapterTasks, IsObjectTask, WrittenKinds
  <2>7. CASE list = ConsoleTasks.res
    BY <2>7 DEF ConsoleTasks, IsObjectTask, WrittenKinds
  <2> QED
    BY <2>1, <2>2, <2>3, <2>4, <2>5, <2>6, <2>7 DEF Phase1Lists
<1>2. \A i \in DOMAIN list : list[i][2] \in Objects => list[i] \in ObjectTasks
  BY <1>1, TaskKinds DEF IsObjectTask, WrittenKinds
<1> QED
  BY <1>2, KeptTyped

IsPhaseTask(t) == IsObjectTask(t) \/ t \in WaitTasks \/ t = DeployTask

LEMMA Phase2Typed ==
    ASSUME NEW list \in Phase2Lists
    PROVE  Kept(list) \in Seq(PhaseTasks)
<1> USE DEF IsPhaseTask, IsObjectTask, WrittenKinds, WaitTasks, DeployTask
<1>1. \A i \in DOMAIN list : IsPhaseTask(list[i])
  <2>1. CASE list = McpTasks.dep
    BY <2>1 DEF McpTasks
  <2>2. CASE list = RhokpTasks.dep
    BY <2>2 DEF RhokpTasks
  <2>3. CASE list = OtelTasks.dep
    BY <2>3 DEF OtelTasks
  <2>4. CASE list = PostgresTasks.dep
    BY <2>4 DEF PostgresTasks
  <2>5. CASE list = AppServerTasks.dep
    BY <2>5 DEF AppServerTasks
  <2>6. CASE list = AlertsAdapterTasks.dep
    BY <2>6 DEF AlertsAdapterTasks
  <2>7. CASE list = ConsoleTasks.dep
    BY <2>7 DEF ConsoleTasks
  <2> QED
    BY <2>1, <2>2, <2>3, <2>4, <2>5, <2>6, <2>7 DEF Phase2Lists
<1>2. \A i \in DOMAIN list : list[i][2] \in Objects => list[i] \in PhaseTasks
  BY <1>1, TaskKinds DEF PhaseTasks
<1> QED
  BY <1>2, KeptTyped

----------------------------------------------------------------------------
(* The inductive invariant.                                                *)

\* The tasks left are of the phase the worker is in.
TasksInv ==
    /\ tasks \in Seq(PhaseTasks)
    /\ phase = "res" => tasks \in Seq(ObjectTasks)

\* Versions of the CR never outrun the edits that are left.
EditsInv ==
    /\ want.cfg + budget["edit"] <= MaxEdits + 1
    /\ want.pod + budget["edit"] <= MaxEdits + 1

\* Nothing is deployed before the certificate is waited for.
Waits == {"mcp", "rhokp", "otel"}
Guarded(q) == \E j \in DOMAIN q : q[j] = CertTask /\ \A i \in 1..j : q[i] # DeployTask
NoDeploy(q) == \A i \in DOMAIN q : q[i] # DeployTask

CertInv ==
    /\ cached["tls"].there => obj["tls"].there
    /\ operand \in Waits =>
          /\ obj["dep"].there => obj["tls"].there
          /\ obj["tls"].there \/ Guarded(tasks) \/ NoDeploy(tasks)

\* While resource versions do not wrap, copies, stamps and pods are not ahead.
StampsInv ==
    RvModulus = 0 =>
        /\ \A x \in Objects : cached[x].rv <= obj[x].rv
        /\ "cm" \in Objects => stamp.cm <= obj["cm"].rv /\ obj["dep"].stamp.cm <= obj["cm"].rv
        /\ stamp.tls <= obj["tls"].rv /\ obj["dep"].stamp.tls <= obj["tls"].rv
        /\ obj["dep"].template <= obj["dep"].rv /\ pods.template <= obj["dep"].rv
        /\ StampCoversPods

RolloutInv == TypeOK /\ TasksInv /\ EditsInv /\ CertInv /\ StampsInv

----------------------------------------------------------------------------
(* Values.                                                                 *)

LEMMA RvFacts ==
    /\ 0 \in Rvs /\ 1 \in Rvs /\ Rvs \subseteq Nat
    /\ \A v \in Rvs : NextRv(v) \in Rvs
    /\ RvModulus = 0 => \A v \in Rvs : NextRv(v) = v + 1
<1>1. RvModulus \in Nat
  BY RolloutBounds
<1>2. CASE RvModulus = 0
  BY <1>2 DEF Rvs, NextRv
<1>3. CASE RvModulus # 0
  <2>1. \A v \in Nat : v % RvModulus \in 0..(RvModulus - 1)
    BY <1>1, <1>3
  <2>2. \A v \in Nat : (v % RvModulus) + 1 \in 0..RvModulus
    <3> TAKE v \in Nat
    <3> DEFINE m == v % RvModulus
    <3>1. m \in 0..(RvModulus - 1)
      BY <2>1
    <3> HIDE DEF m
    <3>2. m + 1 \in 0..RvModulus
      BY <1>1, <1>3, <3>1
    <3> QED
      BY <3>2 DEF m
  <2>3. Rvs = 0..RvModulus /\ \A v \in Nat : NextRv(v) = (v % RvModulus) + 1
    BY <1>3 DEF Rvs, NextRv
  <2>4. 0 \in 0..RvModulus /\ 1 \in 0..RvModulus /\ 0..RvModulus \subseteq Nat
    BY <1>1, <1>3
  <2> QED
    BY <1>3, <2>2, <2>3, <2>4, Zenon
<1> QED
  BY <1>2, <1>3

LEMMA DataFacts ==
    /\ 0 \in Data /\ 1 \in Data /\ Data \subseteq Nat
    /\ \A v \in Versions : \A x : DataFor(v, x) \in Data
<1>1. 0 \in Data /\ 1 \in Data /\ Data \subseteq Nat
  BY RolloutBounds DEF Data
<1>2. ASSUME NEW v \in Versions, NEW x PROVE DataFor(v, x) \in {v.cfg, v.pod, 1}
  BY DEF DataFor, McpConfigMap, OtelCollectorConfigMap, OLSConfigMap, PostgresConfigMap,
     ConsoleConfigMap
<1>3. \A v \in Versions : v.cfg \in Data /\ v.pod \in Data
  BY DEF Versions
<1> QED
  BY <1>1, <1>2, <1>3

LEMMA Named == {"dep", "tls"} \subseteq Objects
BY DEF Objects

LEMMA NoStampTyped == NoStamp \in StampRecord
BY RvFacts DEF NoStamp, StampRecord

LEMMA NoObjectTyped == NoObject \in Object
<1>1. 0 \in Data /\ 0 \in Rvs /\ NoStamp \in StampRecord
  BY DataFacts, RvFacts, NoStampTyped
<1> QED
  BY <1>1, Zenon DEF NoObject, Object

\* The parts of an object.
LEMMA Fields ==
    ASSUME NEW o \in Object
    PROVE  /\ o.there \in BOOLEAN /\ o.data \in Data /\ o.rv \in Rvs /\ o.rv \in Nat
           /\ o.stamp \in StampRecord /\ o.stamp.cm \in Rvs /\ o.stamp.tls \in Rvs
           /\ o.stamp.cm \in Nat /\ o.stamp.tls \in Nat
           /\ o.template \in Rvs /\ o.template \in Nat
<1>1. /\ o.there \in BOOLEAN /\ o.data \in Data /\ o.rv \in Rvs
      /\ o.stamp \in StampRecord /\ o.template \in Rvs
  BY Zenon DEF Object
<1>2. o.stamp.cm \in Rvs /\ o.stamp.tls \in Rvs
  BY <1>1, Zenon DEF StampRecord
<1> QED
  BY <1>1, <1>2, RvFacts

\* Touching an object: a new version of it, of the right type, and no other object.
Touched(x) ==
    /\ obj' \in [Objects -> Object]
    /\ obj'[x].rv = NextRv(obj[x].rv)
    /\ \A y \in Objects \ {x} : obj'[y] = obj[y]

LEMMA WriteTouches ==
    ASSUME TypeOK, NEW x \in Objects, NEW new \in Object, Write(x, new)
    PROVE  /\ Touched(x) /\ obj'[x].there
           /\ obj'[x].stamp = new.stamp /\ obj'[x].template = new.template
           /\ obj'[x].data = new.data
<1>1. obj \in [Objects -> Object] /\ obj[x] \in Object
  BY DEF TypeOK
<1>2. NextRv(obj[x].rv) \in Rvs
  BY <1>1, Fields, RvFacts
<1> DEFINE o == [new EXCEPT !.there = TRUE, !.rv = NextRv(obj[x].rv)]
<1>3. o \in Object
  BY <1>2, Zenon DEF Object
<1>4. /\ o.there = TRUE /\ o.rv = NextRv(obj[x].rv) /\ o.stamp = new.stamp
      /\ o.template = new.template /\ o.data = new.data
  BY DEF Object
<1>5. obj' = [obj EXCEPT ![x] = o]
  BY DEF Write
<1> HIDE DEF o
<1> QED
  BY <1>1, <1>3, <1>4, <1>5 DEF Touched

LEMMA RemovalTouches ==
    ASSUME TypeOK, NEW x \in Objects,
           obj' = [obj EXCEPT ![x] = [NoObject EXCEPT !.rv = NextRv(obj[x].rv)]]
    PROVE  /\ Touched(x) /\ ~obj'[x].there
           /\ obj'[x].stamp = NoStamp /\ obj'[x].template = 0
<1>1. obj \in [Objects -> Object] /\ obj[x] \in Object
  BY DEF TypeOK
<1>2. NextRv(obj[x].rv) \in Rvs
  BY <1>1, Fields, RvFacts
<1> DEFINE o == [NoObject EXCEPT !.rv = NextRv(obj[x].rv)]
<1>3. o \in Object
  BY <1>2, NoObjectTyped, Zenon DEF Object
<1>4. /\ o.there = FALSE /\ o.rv = NextRv(obj[x].rv) /\ o.stamp = NoStamp /\ o.template = 0
  BY DEF NoObject
<1>5. obj' = [obj EXCEPT ![x] = o]
  OBVIOUS
<1> HIDE DEF o
<1> QED
  BY <1>1, <1>3, <1>4, <1>5 DEF Touched


----------------------------------------------------------------------------
(* Tasks and their ends.                                                   *)

Left(q) == Guarded(q) \/ NoDeploy(q)

\* The tasks before the certificate's are not the Deployment's, so the list that is
\* left stays guarded until the certificate has been found.
LEMMA TailLeft ==
    ASSUME NEW q \in Seq(PhaseTasks), q # <<>>, Left(q)
    PROVE  /\ NoDeploy(q) => Head(q) # DeployTask /\ NoDeploy(Tail(q))
           /\ Guarded(q) => Head(q) # DeployTask
           /\ Guarded(q) /\ Head(q) # CertTask => Guarded(Tail(q))
<1>1. /\ Head(q) = q[1] /\ 1 \in DOMAIN q /\ Tail(q) \in Seq(PhaseTasks)
      /\ DOMAIN q = 1..Len(q) /\ Len(q) \in Nat
      /\ DOMAIN Tail(q) = 1..(Len(q) - 1)
  OBVIOUS
<1>2. \A i \in DOMAIN Tail(q) : i + 1 \in DOMAIN q /\ Tail(q)[i] = q[i + 1]
  OBVIOUS
<1>3. ASSUME NoDeploy(q) PROVE Head(q) # DeployTask /\ NoDeploy(Tail(q))
  BY <1>1, <1>2, <1>3 DEF NoDeploy
<1>4. ASSUME Guarded(q)
      PROVE  Head(q) # DeployTask /\ (Head(q) # CertTask => Guarded(Tail(q)))
  <2>1. PICK j \in DOMAIN q : q[j] = CertTask /\ \A i \in 1..j : q[i] # DeployTask
    BY <1>4 DEF Guarded
  <2>2. j \in Nat /\ 1 <= j /\ j <= Len(q)
    BY <1>1, <2>1
  <2>3. Head(q) # DeployTask
    BY <1>1, <2>1, <2>2
  <2>4. ASSUME Head(q) # CertTask PROVE Guarded(Tail(q))
    <3>1. j # 1
      BY <1>1, <2>1, <2>4
    <3>2. j - 1 \in DOMAIN Tail(q) /\ (j - 1) + 1 = j
      BY <1>1, <2>2, <3>1
    <3>3. Tail(q)[j - 1] = CertTask
      BY <1>2, <2>1, <3>2
    <3>4. ASSUME NEW i \in 1..(j - 1) PROVE Tail(q)[i] # DeployTask
      <4>1. i \in DOMAIN Tail(q) /\ i + 1 \in 1..j
        BY <1>1, <2>2
      <4> QED
        BY <1>2, <2>1, <4>1
    <3> QED
      BY <3>2, <3>3, <3>4 DEF Guarded
  <2> QED
    BY <2>3, <2>4
<1> QED
  BY <1>3, <1>4

LEMMA GuardedGrows ==
    ASSUME NEW S, NEW q \in Seq(S), NEW r \in Seq(S), Guarded(q)
    PROVE  Guarded(q \o r)
<1>1. PICK j \in DOMAIN q : q[j] = CertTask /\ \A i \in 1..j : q[i] # DeployTask
  BY DEF Guarded
<1>2. /\ DOMAIN q = 1..Len(q) /\ Len(q) \in Nat /\ Len(r) \in Nat
      /\ DOMAIN (q \o r) = 1..(Len(q) + Len(r))
      /\ \A i \in DOMAIN q : (q \o r)[i] = q[i]
  OBVIOUS
<1>3. j \in DOMAIN (q \o r) /\ 1..j \subseteq DOMAIN q
  BY <1>1, <1>2
<1> QED
  BY <1>1, <1>2, <1>3 DEF Guarded

LEMMA GuardedByCert ==
    ASSUME NEW S, NEW q \in Seq(S), NEW r \in Seq(S), NoDeploy(q), r = <<CertTask>>
    PROVE  Guarded(q \o r)
<1>1. /\ DOMAIN q = 1..Len(q) /\ Len(q) \in Nat /\ Len(r) = 1 /\ r[1] = CertTask
      /\ DOMAIN (q \o r) = 1..(Len(q) + Len(r))
      /\ \A i \in DOMAIN q : (q \o r)[i] = q[i]
  OBVIOUS
<1>2. (q \o r)[Len(q) + 1] = CertTask
  BY <1>1
<1>3. CertTask # DeployTask
  BY DEF CertTask, DeployTask
<1>4. Len(q) + 1 \in DOMAIN (q \o r)
  BY <1>1
<1>5. \A i \in 1..(Len(q) + 1) : i \in DOMAIN q \/ i = Len(q) + 1
  BY <1>1
<1>6. \A i \in 1..(Len(q) + 1) : (q \o r)[i] # DeployTask
  BY <1>1, <1>2, <1>3, <1>5 DEF NoDeploy
<1> QED
  BY <1>2, <1>4, <1>6 DEF Guarded

\* The operands that wait for the certificate do so right before they deploy.
LEMMA KeptGuarded ==
    ASSUME NEW o \in Waits
    PROVE  Guarded(Kept(Tasks[o].dep))
<1> DEFINE list == << <<"Apply", "svc">>, CertTask, DeployTask, <<"Apply", "sm">> >>
<1>1. Tasks[o].dep = list
  BY DEF Tasks, McpTasks, RhokpTasks, OtelTasks, Waits, CertTask, DeployTask
<1>2. /\ DOMAIN list = 1..4 /\ list[1] = <<"Apply", "svc">> /\ list[2] = CertTask
      /\ list[3] = DeployTask /\ list[4] = <<"Apply", "sm">>
  OBVIOUS
<1> DEFINE S == {<<"Apply", "svc">>, CertTask, DeployTask, <<"Apply", "sm">>}
<1> HIDE DEF list
<1>3. \A i \in {1, 2, 3, 4, 5, 6} : TaskAt(list, i) \in Seq(S)
  <2>1. \A i \in DOMAIN list : list[i] \in S
    BY <1>2
  <2> QED
    BY <2>1, TaskAtTyped
<1>4. TaskAt(list, 2) = <<CertTask>>
  BY <1>2, Named DEF TaskAt, CertTask
<1>5. TaskAt(list, 1) \in {<<>>, << <<"Apply", "svc">> >>}
  BY <1>2 DEF TaskAt
<1> DEFINE k2 == TaskAt(list, 1) \o TaskAt(list, 2)
           k3 == k2 \o TaskAt(list, 3)
           k4 == k3 \o TaskAt(list, 4)
           k5 == k4 \o TaskAt(list, 5)
           k6 == k5 \o TaskAt(list, 6)
<1>6. k2 \in Seq(S) /\ Guarded(k2)
  <2>1. NoDeploy(TaskAt(list, 1))
    BY <1>5 DEF NoDeploy, DeployTask
  <2> QED
    BY <1>3, <1>4, <2>1, Joined, GuardedByCert
<1>7. k3 \in Seq(S) /\ Guarded(k3)
  <2> HIDE DEF k2, S
  <2> QED  BY <1>3, <1>6, Joined, GuardedGrows
<1>8. k4 \in Seq(S) /\ Guarded(k4)
  <2> HIDE DEF k3, S
  <2> QED  BY <1>3, <1>7, Joined, GuardedGrows
<1>9. k5 \in Seq(S) /\ Guarded(k5)
  <2> HIDE DEF k4, S
  <2> QED  BY <1>3, <1>8, Joined, GuardedGrows
<1>10. k6 \in Seq(S) /\ Guarded(k6)
  <2> HIDE DEF k5, S
  <2> QED  BY <1>3, <1>9, Joined, GuardedGrows
<1> QED
  BY <1>1, <1>10, Zenon DEF Kept

----------------------------------------------------------------------------
(* What a step does to the objects and to the tasks.                       *)

\* The types of the objects, the stamps and the pods, as the provers need them.
LEMMA StateFacts ==
    ASSUME TypeOK
    PROVE  /\ obj \in [Objects -> Object] /\ cached \in [Objects -> Object]
           /\ \A x \in Objects : obj[x] \in Object /\ obj[x].rv \in Nat
           /\ \A x \in Objects : cached[x] \in Object /\ cached[x].rv \in Nat
           /\ obj["dep"].template \in Nat /\ obj["dep"].stamp.cm \in Nat
           /\ obj["dep"].stamp.tls \in Nat
           /\ stamp.cm \in Nat /\ stamp.tls \in Nat
           /\ pods.template \in Nat /\ pods.cert \in Nat
<1>1. obj \in [Objects -> Object] /\ cached \in [Objects -> Object]
  BY DEF TypeOK
<1>2. /\ \A x \in Objects : obj[x] \in Object /\ obj[x].rv \in Nat
      /\ \A x \in Objects : cached[x] \in Object /\ cached[x].rv \in Nat
  BY <1>1, Fields
<1>3. /\ obj["dep"].template \in Nat /\ obj["dep"].stamp.cm \in Nat
      /\ obj["dep"].stamp.tls \in Nat
  BY <1>2, Named, Fields
<1>4. stamp.cm \in Nat /\ stamp.tls \in Nat /\ pods.template \in Nat /\ pods.cert \in Nat
  BY RvFacts DEF TypeOK
<1> QED
  BY <1>1, <1>2, <1>3, <1>4

\* An object other than the Deployment gets a new version, which no stamp has yet.
LEMMA StampsCarried ==
    ASSUME TypeOK, TypeOK', StampsInv,
           \A y \in Objects : \/ obj'[y] = obj[y]
                              \/ y # "dep" /\ obj'[y].rv = NextRv(obj[y].rv),
           UNCHANGED <<operand, pods>>,
           \A y \in Objects : cached'[y] \in {cached[y], obj[y]},
           stamp' \in {stamp, NotGenerated}
    PROVE  StampsInv'
<1> SUFFICES ASSUME RvModulus = 0 PROVE StampsInv'
  BY DEF StampsInv
<1>1. /\ \A x \in Objects : cached[x].rv <= obj[x].rv
      /\ "cm" \in Objects => stamp.cm <= obj["cm"].rv /\ obj["dep"].stamp.cm <= obj["cm"].rv
      /\ stamp.tls <= obj["tls"].rv /\ obj["dep"].stamp.tls <= obj["tls"].rv
      /\ obj["dep"].template <= obj["dep"].rv /\ pods.template <= obj["dep"].rv
      /\ StampCoversPods
  BY DEF StampsInv
<1>2. \A y \in Objects : obj'[y].rv >= obj[y].rv /\ obj'[y].rv \in Nat /\ obj[y].rv \in Nat
  <2>1. \A y \in Objects : /\ obj[y].rv \in Nat /\ obj[y].rv \in Rvs
                           /\ NextRv(obj[y].rv) = obj[y].rv + 1
    BY StateFacts, Fields, RvFacts
  <2> QED
    BY <2>1
<1>3. \A y \in Objects : obj'[y] = obj[y] \/ obj'[y].rv > obj[y].rv
  <2>1. \A y \in Objects : obj[y].rv \in Nat /\ NextRv(obj[y].rv) = obj[y].rv + 1
    BY StateFacts, Fields, RvFacts
  <2> QED
    BY <2>1
<1>4. obj'["dep"] = obj["dep"]
  BY Named
<1>5. \A x \in Objects : cached'[x].rv <= obj'[x].rv
  <2> TAKE x \in Objects
  <2>1. cached[x].rv \in Nat /\ cached[x].rv <= obj[x].rv
    BY <1>1, StateFacts
  <2> QED
    BY <1>2, <2>1
<1>6. /\ "cm" \in Objects => stamp'.cm <= obj'["cm"].rv /\ obj'["dep"].stamp.cm <= obj'["cm"].rv
      /\ stamp'.tls <= obj'["tls"].rv /\ obj'["dep"].stamp.tls <= obj'["tls"].rv
  <2>1. stamp'.cm \in {stamp.cm, 0} /\ stamp'.tls \in {stamp.tls, 0}
    BY DEF NotGenerated
  <2>2. /\ stamp.cm \in Nat /\ stamp.tls \in Nat
        /\ obj["dep"].stamp.cm \in Nat /\ obj["dep"].stamp.tls \in Nat
    BY StateFacts
  <2> QED
    BY <1>1, <1>2, <1>4, <2>1, <2>2, Named
<1>7. obj'["dep"].template <= obj'["dep"].rv /\ pods'.template <= obj'["dep"].rv
  BY <1>1, <1>4
<1>8. StampCoversPods'
  <2> SUFFICES ASSUME obj["dep"].there, pods.template = obj["dep"].template
      PROVE  /\ /\ "cm" \in Deployments[operand].stamps \cap Objects /\ obj'["cm"].there
                   /\ obj["dep"].stamp.cm = obj'["cm"].rv
                => pods.cfg = obj'["cm"].data
             /\ /\ "tls" \in Deployments[operand].stamps \cap Objects
                /\ obj["dep"].stamp.tls = obj'["tls"].rv
                => pods.cert = obj'["tls"].rv
    BY <1>4 DEF StampCoversPods, Stamps
  <2>1. obj["dep"].stamp.cm \in Nat /\ obj["dep"].stamp.tls \in Nat
    BY StateFacts
  <2>2. "cm" \in Objects /\ obj["dep"].stamp.cm = obj'["cm"].rv => obj'["cm"] = obj["cm"]
    BY <1>1, <1>2, <1>3, <2>1
  <2>3. obj["dep"].stamp.tls = obj'["tls"].rv => obj'["tls"] = obj["tls"]
    BY <1>1, <1>2, <1>3, <2>1, Named
  <2> QED
    BY <1>1, <2>2, <2>3 DEF StampCoversPods, Stamps
<1> QED
  BY <1>5, <1>6, <1>7, <1>8 DEF StampsInv

\* A Deployment that is written has a template that no pods have yet.
LEMMA StampsNewDep ==
    ASSUME TypeOK, TypeOK', StampsInv, Touched("dep"),
           UNCHANGED <<operand, pods, cached>>,
           stamp' \in {stamp, NotGenerated},
           obj'["dep"].stamp.cm \in {obj["dep"].stamp.cm, stamp.cm, 0},
           obj'["dep"].stamp.tls \in {obj["dep"].stamp.tls, stamp.tls, 0},
           \/ obj'["dep"].template = NextRv(obj["dep"].rv)
           \/ ~obj'["dep"].there /\ obj'["dep"].template = 0
    PROVE  StampsInv'
<1> SUFFICES ASSUME RvModulus = 0 PROVE StampsInv'
  BY DEF StampsInv
<1>1. /\ \A x \in Objects : cached[x].rv <= obj[x].rv
      /\ "cm" \in Objects => stamp.cm <= obj["cm"].rv /\ obj["dep"].stamp.cm <= obj["cm"].rv
      /\ stamp.tls <= obj["tls"].rv /\ obj["dep"].stamp.tls <= obj["tls"].rv
      /\ obj["dep"].template <= obj["dep"].rv /\ pods.template <= obj["dep"].rv
  BY DEF StampsInv
<1>2. \A y \in Objects \ {"dep"} : obj'[y] = obj[y]
  BY DEF Touched
<1>3. obj'["dep"].rv = obj["dep"].rv + 1 /\ NextRv(obj["dep"].rv) = obj["dep"].rv + 1
      /\ obj["dep"].rv \in Nat
  BY StateFacts, Fields, RvFacts, Named DEF Touched
<1>4. \A x \in Objects : cached'[x].rv <= obj'[x].rv
  <2> TAKE x \in Objects
  <2>1. cached[x].rv \in Nat /\ cached[x].rv <= obj[x].rv /\ obj[x].rv \in Nat
    BY <1>1, StateFacts
  <2>2. CASE x = "dep"
    BY <1>3, <2>1, <2>2
  <2>3. CASE x # "dep"
    BY <1>2, <2>1, <2>3
  <2> QED
    BY <2>2, <2>3
<1>5. /\ "cm" \in Objects => stamp'.cm <= obj'["cm"].rv /\ obj'["dep"].stamp.cm <= obj'["cm"].rv
      /\ stamp'.tls <= obj'["tls"].rv /\ obj'["dep"].stamp.tls <= obj'["tls"].rv
  <2>1. stamp'.cm \in {stamp.cm, 0} /\ stamp'.tls \in {stamp.tls, 0}
    BY DEF NotGenerated
  <2>2. /\ stamp.cm \in Nat /\ stamp.tls \in Nat
        /\ obj["dep"].stamp.cm \in Nat /\ obj["dep"].stamp.tls \in Nat
        /\ "cm" \in Objects => obj["cm"].rv \in Nat
        /\ obj["tls"].rv \in Nat
    BY StateFacts, Named
  <2>3. obj'["tls"] = obj["tls"] /\ ("cm" \in Objects => obj'["cm"] = obj["cm"])
    BY <1>2, Named
  <2> QED
    BY <1>1, <2>1, <2>2, <2>3
<1>6. obj'["dep"].template <= obj'["dep"].rv /\ pods'.template <= obj'["dep"].rv
  <2>1. pods.template \in Nat
    BY StateFacts
  <2> QED
    BY <1>1, <1>3, <2>1
<1>7. StampCoversPods'
  <2>1. obj'["dep"].there => pods'.template # obj'["dep"].template
    <3>1. pods.template \in Nat
      BY StateFacts
    <3> QED
      BY <1>1, <1>3, <3>1
  <2> QED
    BY <2>1 DEF StampCoversPods
<1> QED
  BY <1>4, <1>5, <1>6, <1>7 DEF StampsInv

\* A task ends, well or not.
LEMMA TaskEnds ==
    ASSUME TypeOK, TasksInv, tasks # <<>>, Done \/ Failed
    PROVE  /\ TasksInv'
           /\ queued' \in BOOLEAN /\ failed' \in BOOLEAN /\ phase' \in {"idle", "res", "dep"}
           /\ tasks' = <<>> \/ tasks' = Tail(tasks)
           /\ Failed /\ tasks' # <<>> => tasks \in Seq(ObjectTasks) /\ tasks' = Tail(tasks)
<1>1. tasks \in Seq(PhaseTasks) /\ (phase = "res" => tasks \in Seq(ObjectTasks))
  BY DEF TasksInv
<1>2. Tail(tasks) \in Seq(PhaseTasks) /\ (phase = "res" => Tail(tasks) \in Seq(ObjectTasks))
  BY <1>1
<1>3. queued \in BOOLEAN /\ failed \in BOOLEAN /\ phase \in {"idle", "res", "dep"}
  BY DEF TypeOK
<1>4. CASE Done
  BY <1>2, <1>3, <1>4 DEF Done, Failed, TasksInv
<1>5. CASE Failed
  <2>1. <<>> \in Seq(PhaseTasks)
    OBVIOUS
  <2> QED
    BY <1>1, <1>2, <1>3, <1>5, <2>1 DEF Failed, TasksInv
<1> QED
  BY <1>4, <1>5

\* The objects of the tasks of a phase are kept.
LEMMA TasksKept ==
    ASSUME NEW q \in Seq(PhaseTasks)
    PROVE  \A i \in DOMAIN q : q[i][2] \in Objects
<1>1. \A t \in PhaseTasks : t[2] \in Objects
  BY Named DEF PhaseTasks, ObjectTasks, WaitTasks, DeployTask
<1> QED
  BY <1>1

LEMMA NothingLeft ==
    /\ <<>> \in Seq(PhaseTasks) /\ <<>> \in Seq(ObjectTasks) /\ NoDeploy(<<>>)
BY DEF NoDeploy

LEMMA ObjectTasksDeployNothing ==
    ASSUME NEW q \in Seq(ObjectTasks)
    PROVE  q \in Seq(PhaseTasks) /\ NoDeploy(q)
<1>1. \A t \in ObjectTasks : t # DeployTask /\ t \in PhaseTasks
  BY DEF ObjectTasks, DeployTask, PhaseTasks
<1> QED
  BY <1>1 DEF NoDeploy

LEMMA NotGeneratedTyped == NotGenerated \in [cm : Rvs, tls : Rvs, made : BOOLEAN]
BY RvFacts DEF NotGenerated

\* A task ends and the list that is left stays guarded, unless the certificate
\* is there.
LEMMA CertCarried ==
    ASSUME TypeOK, TasksInv, CertInv, tasks # <<>>, Done \/ Failed,
           UNCHANGED <<operand, cached>>,
           obj["tls"].there => obj'["tls"].there,
           obj'["dep"].there => obj["dep"].there \/ obj["tls"].there \/ operand \notin Waits,
           Head(tasks) = CertTask => Failed \/ obj["tls"].there
    PROVE  CertInv'
<1>1. cached'["tls"].there => obj'["tls"].there
  BY DEF CertInv
<1>2. ASSUME operand \in Waits PROVE obj'["dep"].there => obj'["tls"].there
  BY <1>2 DEF CertInv
<1>3. ASSUME operand \in Waits PROVE obj'["tls"].there \/ Guarded(tasks') \/ NoDeploy(tasks')
  <2> SUFFICES ASSUME ~obj["tls"].there PROVE Guarded(tasks') \/ NoDeploy(tasks')
    OBVIOUS
  <2>1. Left(tasks) /\ tasks \in Seq(PhaseTasks)
    BY <1>3 DEF CertInv, Left, TasksInv
  <2>2. CASE tasks' = <<>>
    BY <2>2, NothingLeft
  <2>3. CASE Failed /\ tasks' # <<>>
    <3>1. tasks \in Seq(ObjectTasks) /\ tasks' = Tail(tasks)
      BY <2>3, TaskEnds
    <3>2. NoDeploy(tasks)
      BY <3>1, ObjectTasksDeployNothing
    <3> QED
      BY <2>1, <3>1, <3>2, TailLeft
  <2>4. CASE ~Failed
    <3>1. tasks' = Tail(tasks) /\ Head(tasks) # CertTask
      BY <2>4 DEF Done
    <3> QED
      BY <2>1, <3>1, TailLeft DEF Left
  <2> QED
    BY <2>2, <2>3, <2>4
<1> QED
  BY <1>1, <1>2, <1>3 DEF CertInv

\* The common part of the worker's tasks.
LEMMA TaskStep ==
    ASSUME RolloutInv, tasks # <<>>, Done \/ Failed,
           UNCHANGED <<operand, want, cached, read, pods>>,
           obj' \in [Objects -> Object],
           stamp' \in {stamp, NotGenerated},
           budget' \in [Budgets -> Nat], budget'["edit"] = budget["edit"],
           obj["tls"].there => obj'["tls"].there,
           obj'["dep"].there => obj["dep"].there \/ obj["tls"].there \/ operand \notin Waits,
           Head(tasks) = CertTask => Failed \/ obj["tls"].there
    PROVE  TypeOK' /\ TasksInv' /\ EditsInv' /\ CertInv'
<1>1. TypeOK /\ TasksInv /\ EditsInv /\ CertInv
  BY DEF RolloutInv
<1>2. /\ TasksInv'
      /\ queued' \in BOOLEAN /\ failed' \in BOOLEAN /\ phase' \in {"idle", "res", "dep"}
  BY <1>1, TaskEnds
<1>3. CertInv'
  BY <1>1, CertCarried
<1>4. \A i \in DOMAIN tasks' : tasks'[i][2] \in Objects
  BY <1>2, TasksKept DEF TasksInv
<1>5. stamp' \in [cm : Rvs, tls : Rvs, made : BOOLEAN]
  BY <1>1, NotGeneratedTyped DEF TypeOK
<1>6. TypeOK'
  BY <1>1, <1>2, <1>4, <1>5 DEF TypeOK
<1>7. EditsInv'
  BY <1>1 DEF EditsInv
<1> QED
  BY <1>2, <1>3, <1>6, <1>7

----------------------------------------------------------------------------
(* The tasks on objects.                                                   *)

LEMMA CreateEffect ==
    ASSUME TypeOK, NEW x \in Objects, Create(x)
    PROVE  (Done \/ Failed) /\ (obj' = obj \/ Touched(x))
<1>1. CASE obj[x].there
  BY <1>1 DEF Create
<1>2. CASE ~obj[x].there
  <2> DEFINE n == [NoObject EXCEPT !.data = Desired(x)]
  <2>1. Desired(x) \in Data
    BY DataFacts DEF Desired, TypeOK
  <2>2. n \in Object
    BY <2>1, NoObjectTyped, Zenon DEF Object
  <2>3. Write(x, n) /\ Done
    BY <1>2 DEF Create
  <2> HIDE DEF n
  <2> QED
    BY <2>2, <2>3, WriteTouches
<1> QED
  BY <1>1, <1>2

LEMMA UpdateEffect ==
    ASSUME TypeOK, NEW x \in Objects, Update(x)
    PROVE  (Done \/ Failed) /\ (obj' = obj \/ Touched(x))
<1> DEFINE ok == cached[x].rv = obj[x].rv /\ obj[x].there
<1>1. CASE ~ok
  BY <1>1 DEF Update
<1>2. CASE ok
  <2> DEFINE n == [cached[x] EXCEPT !.data = Desired(x)]
  <2>1. Desired(x) \in Data /\ cached[x] \in Object
    BY DataFacts DEF Desired, TypeOK
  <2>2. n \in Object
    BY <2>1, Zenon DEF Object
  <2>3. Write(x, n) /\ Done
    BY <1>2 DEF Update
  <2> HIDE DEF n
  <2> QED
    BY <2>2, <2>3, WriteTouches
<1> QED
  BY <1>1, <1>2

\* Tasks on objects leave the Deployment and the certificate alone.
LEMMA ObjectStep ==
    ASSUME RolloutInv, NEW x \in Objects, NEW k \in WrittenKinds, Current(k, x),
           Done \/ Failed, obj' = obj \/ Touched(x),
           UNCHANGED <<operand, want, cached, read, stamp, pods, budget>>
    PROVE  RolloutInv'
<1>1. TypeOK /\ TasksInv /\ StampsInv
  BY DEF RolloutInv
<1>2. tasks # <<>> /\ Head(tasks) = <<k, x>> /\ Head(tasks) \in PhaseTasks
  BY <1>1 DEF Current, TasksInv
<1>3. x \notin {"dep", "tls"} /\ Head(tasks) # CertTask
  BY <1>2 DEF PhaseTasks, ObjectTasks, WaitTasks, DeployTask, CertTask, WrittenKinds
<1>4. obj'["dep"] = obj["dep"] /\ obj'["tls"] = obj["tls"]
  BY <1>3, Named DEF Touched
<1>5. obj' \in [Objects -> Object] /\ budget \in [Budgets -> Nat]
  BY <1>1 DEF Touched, TypeOK
<1>6. TypeOK' /\ TasksInv' /\ EditsInv' /\ CertInv'
  BY <1>2, <1>3, <1>4, <1>5, TaskStep
<1>7. \A y \in Objects : \/ obj'[y] = obj[y]
                         \/ y # "dep" /\ obj'[y].rv = NextRv(obj[y].rv)
  BY <1>3 DEF Touched
<1>8. StampsInv'
  BY <1>1, <1>6, <1>7, StampsCarried
<1> QED
  BY <1>6, <1>8 DEF RolloutInv

LEMMA ApplyKeepsInv ==
    ASSUME RolloutInv, NEW x \in Objects, Apply(x)
    PROVE  RolloutInv'
<1>1. TypeOK
  BY DEF RolloutInv
<1>2. (Done \/ Failed) /\ (obj' = obj \/ Touched(x))
  <2>1. CASE ~cached[x].there
    BY <1>1, <2>1, CreateEffect DEF Apply
  <2>2. CASE cached[x].there
    <3>1. Settle(x)
      BY <2>2 DEF Apply
    <3> QED
      BY <1>1, <3>1, UpdateEffect DEF Settle
  <2> QED
    BY <2>1, <2>2
<1> QED
  BY <1>2, ObjectStep DEF Apply, WrittenKinds

LEMMA OverwriteKeepsInv ==
    ASSUME RolloutInv, NEW x \in Objects, Overwrite(x)
    PROVE  RolloutInv'
<1>1. TypeOK
  BY DEF RolloutInv
<1> DEFINE n == [NoObject EXCEPT !.data = Desired(x)]
<1>2. n \in Object
  <2>1. Desired(x) \in Data
    BY <1>1, DataFacts DEF Desired, TypeOK
  <2> QED
    BY <2>1, NoObjectTyped, Zenon DEF Object
<1>3. \/ Create(x)
      \/ Done /\ UNCHANGED obj
      \/ Write(x, n) /\ Done
      \/ Failed /\ UNCHANGED obj
  BY DEF Overwrite
<1> HIDE DEF n
<1>4. (Done \/ Failed) /\ (obj' = obj \/ Touched(x))
  BY <1>1, <1>2, <1>3, CreateEffect, WriteTouches
<1> QED
  BY <1>4, ObjectStep DEF Overwrite, WrittenKinds

LEMMA EnsureKeepsInv ==
    ASSUME RolloutInv, NEW x \in Objects, Ensure(x)
    PROVE  RolloutInv'
<1>1. (Done \/ Failed) /\ (obj' = obj \/ Touched(x))
  BY CreateEffect DEF Ensure, RolloutInv
<1> QED
  BY <1>1, ObjectStep DEF Ensure, WrittenKinds

LEMMA DeleteKeepsInv ==
    ASSUME RolloutInv, NEW x \in Objects, Delete(x)
    PROVE  RolloutInv'
<1>1. Done /\ (obj' = obj \/ Touched(x))
  BY RemovalTouches DEF Delete, RolloutInv
<1> QED
  BY <1>1, ObjectStep DEF Delete, WrittenKinds

----------------------------------------------------------------------------
(* The other steps of the worker.                                          *)

\* A task that writes nothing.
LEMMA QuietStep ==
    ASSUME RolloutInv, tasks # <<>>, Done \/ Failed,
           UNCHANGED <<operand, want, obj, cached, read, pods>>,
           stamp' \in {stamp, NotGenerated},
           budget' \in [Budgets -> Nat], budget'["edit"] = budget["edit"],
           Head(tasks) = CertTask => Failed \/ obj["tls"].there
    PROVE  RolloutInv'
<1>1. TypeOK /\ StampsInv /\ obj' \in [Objects -> Object]
  BY DEF RolloutInv, TypeOK
<1>2. TypeOK' /\ TasksInv' /\ EditsInv' /\ CertInv'
  BY <1>1, TaskStep
<1>3. StampsInv'
  BY <1>1, <1>2, StampsCarried
<1> QED
  BY <1>2, <1>3 DEF RolloutInv

LEMMA WaitKeepsInv ==
    ASSUME RolloutInv, NEW x \in Objects, Wait(x) \/ WaitAndTouch(x)
    PROVE  RolloutInv'
<1>1. budget \in [Budgets -> Nat] /\ tasks # <<>> /\ Head(tasks) \in PhaseTasks
  BY DEF RolloutInv, TypeOK, TasksInv, Wait, WaitAndTouch, Current
<1>2. CASE Wait(x)
  <2>1. x = "tls"
    BY <1>1, <1>2 DEF Wait, Current, PhaseTasks, ObjectTasks, WaitTasks, DeployTask
  <2>2. cached["tls"].there => obj["tls"].there
    BY DEF RolloutInv, CertInv
  <2>3. Done \/ Failed
    BY <1>2 DEF Wait
  <2>4. Failed \/ obj["tls"].there
    BY <1>2, <2>1, <2>2 DEF Wait
  <2> QED
    BY <1>1, <1>2, <2>3, <2>4, QuietStep DEF Wait
<1>3. CASE WaitAndTouch(x)
  <2>1. Head(tasks) # CertTask
    BY <1>3 DEF WaitAndTouch, Current, CertTask
  <2>2. Done \/ Failed
    BY <1>3 DEF WaitAndTouch
  <2> QED
    BY <1>1, <1>3, <2>1, <2>2, QuietStep DEF WaitAndTouch
<1> QED
  BY <1>2, <1>3

\* A budget that is spent, other than the edits'.
LEMMA Spent ==
    ASSUME TypeOK, NEW b \in Budgets, Spend(b)
    PROVE  /\ budget' \in [Budgets -> Nat]
           /\ b # "edit" => budget'["edit"] = budget["edit"]
           /\ budget'[b] = budget[b] - 1 /\ budget[b] \in Nat /\ budget[b] > 0
<1>1. budget \in [Budgets -> Nat] /\ "edit" \in Budgets
  BY DEF TypeOK, Budgets
<1>2. budget[b] \in Nat /\ budget[b] > 0 /\ budget' = [budget EXCEPT ![b] = @ - 1]
  BY <1>1 DEF Spend
<1>3. budget[b] - 1 \in Nat
  BY <1>2
<1> QED
  BY <1>1, <1>2, <1>3

LEMMA TaskFailsKeepsInv ==
    ASSUME RolloutInv, TaskFails
    PROVE  RolloutInv'
<1>1. budget' \in [Budgets -> Nat] /\ budget'["edit"] = budget["edit"]
  BY Spent DEF RolloutInv, TaskFails, Budgets
<1> QED
  BY <1>1, QuietStep DEF TaskFails

LEMMA GenerateKeepsInv ==
    ASSUME RolloutInv, GenerateDeployment
    PROVE  RolloutInv'
<1>1. TypeOK /\ TasksInv /\ EditsInv /\ CertInv /\ StampsInv
  BY DEF RolloutInv
<1>2. tasks # <<>> /\ Head(tasks) # CertTask
  BY DEF GenerateDeployment, Current, CertTask
<1>3. CASE Failed /\ UNCHANGED stamp
  <2>1. budget \in [Budgets -> Nat]
    BY <1>1 DEF TypeOK
  <2> QED
    BY <1>2, <1>3, <2>1, QuietStep DEF GenerateDeployment
<1>4. CASE /\ stamp' = [cm |-> FoundVersion("cm"), tls |-> FoundVersion("tls"), made |-> TRUE]
           /\ UNCHANGED <<queued, phase, tasks, failed>>
  <2>1. UNCHANGED <<operand, want, obj, cached, read, pods, budget>>
    BY DEF GenerateDeployment
  <2>2. /\ FoundVersion("cm") \in Rvs /\ FoundVersion("tls") \in Rvs
        /\ FoundVersion("cm") # 0 => "cm" \in Objects /\ FoundVersion("cm") = cached["cm"].rv
        /\ FoundVersion("tls") \in {0, cached["tls"].rv}
    <3>1. 0 \in Rvs /\ \A x \in Objects : cached[x].rv \in Rvs
      BY <1>1, StateFacts, Fields, RvFacts
    <3> QED
      BY <3>1 DEF FoundVersion, Stamps
  <2>3. TypeOK'
    <3>1. stamp' \in [cm : Rvs, tls : Rvs, made : BOOLEAN]
      BY <1>4, <2>2
    <3> QED
      BY <1>1, <1>4, <2>1, <3>1 DEF TypeOK
  <2>4. TasksInv' /\ EditsInv' /\ CertInv'
    BY <1>1, <1>4, <2>1 DEF TasksInv, EditsInv, CertInv
  <2>5. StampsInv'
    <3> SUFFICES ASSUME RvModulus = 0 PROVE StampsInv'
      BY DEF StampsInv
    <3>1. /\ "cm" \in Objects => cached["cm"].rv <= obj["cm"].rv /\ obj["cm"].rv \in Nat
          /\ cached["tls"].rv <= obj["tls"].rv /\ obj["tls"].rv \in Nat
      BY <1>1, StateFacts, Named DEF StampsInv
    <3>2. ("cm" \in Objects => stamp'.cm <= obj["cm"].rv) /\ stamp'.tls <= obj["tls"].rv
      BY <1>4, <2>2, <3>1
    <3>3. StampCoversPods'
      BY <1>1, <2>1 DEF StampsInv, StampCoversPods, Stamps
    <3> QED
      BY <1>1, <2>1, <3>2, <3>3 DEF StampsInv
  <2> QED
    BY <2>3, <2>4, <2>5 DEF RolloutInv
<1> QED
  BY <1>3, <1>4 DEF GenerateDeployment

LEMMA RolledTyped ==
    ASSUME TypeOK, NEW d \in Object
    PROVE  /\ Rolled(d) \in Object
           /\ Rolled(d).stamp = GeneratedStamp
           /\ Rolled(d).template = NextRv(obj["dep"].rv)
<1>1. read.pod \in Data
  BY DEF TypeOK, Versions
<1>2. GeneratedStamp \in StampRecord
  BY DEF TypeOK, GeneratedStamp, StampRecord
<1>3. NextRv(obj["dep"].rv) \in Rvs
  BY StateFacts, Named, Fields, RvFacts
<1>4. Rolled(d) \in Object
  BY <1>1, <1>2, <1>3, Zenon DEF Rolled, Object
<1>5. Rolled(d).stamp = GeneratedStamp /\ Rolled(d).template = NextRv(obj["dep"].rv)
  BY DEF Rolled, Object
<1> QED
  BY <1>4, <1>5

\* A Deployment is only written when the certificate is no longer waited for, and
\* with stamps that were looked up earlier.
LEMMA DeployKeepsInv ==
    ASSUME RolloutInv, Deploy
    PROVE  RolloutInv'
<1>1. TypeOK /\ TasksInv /\ EditsInv /\ CertInv /\ StampsInv
  BY DEF RolloutInv
<1>2. tasks # <<>> /\ Head(tasks) = DeployTask /\ Head(tasks) # CertTask
  BY DEF Deploy, Current, CertTask, DeployTask
<1>3. operand \in Waits => obj["tls"].there
  BY <1>1, <1>2, TailLeft DEF CertInv, TasksInv, Left
<1>4. budget \in [Budgets -> Nat]
  BY <1>1 DEF TypeOK
<1>5. cached["dep"] \in Object /\ NoObject \in Object
  BY <1>1, StateFacts, Named, NoObjectTyped
<1>6. CASE (Done \/ Failed) /\ UNCHANGED obj
  BY <1>2, <1>4, <1>6, QuietStep DEF Deploy
<1>7. ASSUME NEW d \in Object, Write("dep", Rolled(d)), Done
      PROVE  RolloutInv'
  <2>1. /\ Touched("dep") /\ obj'["dep"].stamp = GeneratedStamp
        /\ obj'["dep"].template = NextRv(obj["dep"].rv)
    BY <1>1, <1>7, RolledTyped, WriteTouches, Named
  <2>2. obj' \in [Objects -> Object] /\ obj'["tls"] = obj["tls"]
    BY <2>1, Named DEF Touched
  <2>3. UNCHANGED <<operand, want, cached, read, pods, budget>> /\ stamp' = NotGenerated
    BY DEF Deploy
  <2>4. TypeOK' /\ TasksInv' /\ EditsInv' /\ CertInv'
    BY <1>2, <1>3, <1>4, <1>7, <2>2, <2>3, TaskStep
  <2>5. obj'["dep"].stamp.cm = stamp.cm /\ obj'["dep"].stamp.tls = stamp.tls
    BY <2>1 DEF GeneratedStamp
  <2>6. StampsInv'
    BY <1>1, <2>1, <2>3, <2>4, <2>5, StampsNewDep
  <2> QED
    BY <2>4, <2>6 DEF RolloutInv
<1>8. \/ (Done \/ Failed) /\ UNCHANGED obj
      \/ Write("dep", Rolled(NoObject)) /\ Done
      \/ Write("dep", Rolled(cached["dep"])) /\ Done
  BY Zenon DEF Deploy
<1> QED
  BY <1>5, <1>6, <1>7, <1>8

\* The steps that leave objects, copies, stamps and pods alone.
LEMMA StampsStay ==
    ASSUME StampsInv, UNCHANGED <<operand, obj, cached, stamp, pods>>
    PROVE  StampsInv'
<1>1. StampCoversPods' = StampCoversPods
  BY DEF StampCoversPods, Stamps
<1> QED
  BY <1>1 DEF StampsInv

LEMMA StartKeepsInv ==
    ASSUME RolloutInv, StartReconcile
    PROVE  RolloutInv'
<1>1. TypeOK /\ TasksInv /\ EditsInv /\ CertInv /\ StampsInv
  BY DEF RolloutInv
<1>2. tasks' \in Seq(ObjectTasks)
  BY <1>1, ListsOf, Phase1Typed DEF StartReconcile, TypeOK
<1>3. TasksInv' /\ NoDeploy(tasks')
  BY <1>2, ObjectTasksDeployNothing DEF TasksInv
<1>4. \A i \in DOMAIN tasks' : tasks'[i][2] \in Objects
  BY <1>3, TasksKept DEF TasksInv
<1>5. TypeOK'
  BY <1>1, <1>4 DEF TypeOK, StartReconcile
<1>6. EditsInv' /\ CertInv'
  BY <1>1, <1>3 DEF EditsInv, CertInv, StartReconcile
<1>7. StampsInv'
  BY <1>1, StampsStay DEF StartReconcile
<1> QED
  BY <1>3, <1>5, <1>6, <1>7 DEF RolloutInv

LEMMA EndPhaseKeepsInv ==
    ASSUME RolloutInv, EndPhase
    PROVE  RolloutInv'
<1>1. TypeOK /\ TasksInv /\ EditsInv /\ CertInv /\ StampsInv
  BY DEF RolloutInv
<1>2. /\ UNCHANGED <<operand, want, obj, cached, read, failed, stamp, pods, budget>>
      /\ tasks = <<>> /\ operand \in Operands
  BY <1>1 DEF EndPhase, TypeOK
<1>3. \/ phase' = "dep" /\ tasks' = Kept(Tasks[operand].dep)
      \/ phase' = "idle" /\ tasks' = tasks
  BY DEF EndPhase
<1>4. TasksInv'
  BY <1>1, <1>2, <1>3, ListsOf, Phase2Typed DEF TasksInv
<1>5. CertInv'
  <2>1. ASSUME operand \in Waits PROVE Guarded(tasks') \/ NoDeploy(tasks')
    BY <1>2, <1>3, <2>1, KeptGuarded, NothingLeft
  <2> QED
    BY <1>1, <1>2, <2>1 DEF CertInv
<1>6. \A i \in DOMAIN tasks' : tasks'[i][2] \in Objects
  BY <1>4, TasksKept DEF TasksInv
<1>7. queued' \in BOOLEAN /\ phase' \in {"idle", "res", "dep"}
  BY <1>1 DEF EndPhase, TypeOK
<1>8. TypeOK' /\ EditsInv'
  BY <1>1, <1>2, <1>6, <1>7 DEF TypeOK, EditsInv
<1>9. StampsInv'
  BY <1>1, <1>2, StampsStay
<1> QED
  BY <1>4, <1>5, <1>8, <1>9 DEF RolloutInv

----------------------------------------------------------------------------
(* The environment.                                                        *)

LEMMA EditKeepsInv ==
    ASSUME RolloutInv, EditCR
    PROVE  RolloutInv'
<1>1. TypeOK /\ TasksInv /\ EditsInv /\ CertInv /\ StampsInv
  BY DEF RolloutInv
<1>2. /\ UNCHANGED <<operand, obj, cached, phase, tasks, read, failed, stamp, pods>>
      /\ queued' = TRUE
  BY DEF EditCR, workerVars
<1>3. /\ budget' \in [Budgets -> Nat] /\ budget'["edit"] = budget["edit"] - 1
      /\ budget["edit"] \in Nat /\ budget["edit"] > 0
  BY <1>1, Spent DEF EditCR, Budgets
<1>4. want \in [cfg : Data, pod : Data] /\ want.cfg \in Nat /\ want.pod \in Nat
  BY <1>1, DataFacts DEF TypeOK, Versions
<1>5. /\ want.cfg + budget["edit"] <= MaxEdits + 1
      /\ want.pod + budget["edit"] <= MaxEdits + 1
      /\ MaxEdits \in Nat
  BY <1>1, RolloutBounds DEF EditsInv
<1>6. \/ want' = [want EXCEPT !.cfg = @ + 1]
      \/ want' = [want EXCEPT !.pod = @ + 1]
  BY DEF EditCR
<1>7. /\ want'.cfg \in {want.cfg, want.cfg + 1} /\ want'.pod \in {want.pod, want.pod + 1}
  BY <1>4, <1>6
<1>8. want.cfg + 1 \in Data /\ want.pod + 1 \in Data
  BY <1>3, <1>4, <1>5 DEF Data
<1>9. want' \in Versions
  BY <1>4, <1>6, <1>8 DEF Versions
<1>10. EditsInv'
  BY <1>3, <1>4, <1>5, <1>7 DEF EditsInv
<1>11. TypeOK'
  BY <1>1, <1>2, <1>3, <1>9 DEF TypeOK
<1>12. TasksInv' /\ CertInv'
  BY <1>1, <1>2 DEF TasksInv, CertInv
<1>13. StampsInv'
  BY <1>1, <1>2, StampsStay
<1> QED
  BY <1>10, <1>11, <1>12, <1>13 DEF RolloutInv

\* The common part of the steps of others on objects, and of the informers.
LEMMA OutsideStep ==
    ASSUME RolloutInv,
           UNCHANGED <<operand, want, phase, tasks, read, failed, stamp>>,
           queued' \in BOOLEAN,
           obj' \in [Objects -> Object], cached' \in [Objects -> Object],
           pods' \in [template : Rvs, cfg : Data, cert : Rvs],
           budget' \in [Budgets -> Nat], budget'["edit"] = budget["edit"],
           obj["tls"].there => obj'["tls"].there,
           cached'["tls"].there => obj'["tls"].there,
           obj'["dep"].there => obj["dep"].there
    PROVE  TypeOK' /\ TasksInv' /\ EditsInv' /\ CertInv'
<1>1. TypeOK /\ TasksInv /\ EditsInv /\ CertInv
  BY DEF RolloutInv
<1>2. TypeOK'
  BY <1>1 DEF TypeOK
<1>3. TasksInv' /\ EditsInv'
  BY <1>1 DEF TasksInv, EditsInv
<1>4. CertInv'
  BY <1>1 DEF CertInv
<1> QED
  BY <1>2, <1>3, <1>4

LEMMA TamperKeepsInv ==
    ASSUME RolloutInv, NEW x \in Objects, Tamper(x)
    PROVE  RolloutInv'
<1>1. TypeOK /\ StampsInv /\ CertInv /\ queued \in BOOLEAN
      /\ pods \in [template : Rvs, cfg : Data, cert : Rvs]
  BY DEF RolloutInv, TypeOK
<1>2. /\ UNCHANGED <<operand, want, cached, queued, phase, tasks, read, failed, stamp, pods>>
      /\ obj[x].there /\ x # "tls"
  BY DEF Tamper, workerVars
<1>3. budget' \in [Budgets -> Nat] /\ budget'["edit"] = budget["edit"]
  BY <1>1, Spent DEF Tamper, Budgets
<1> DEFINE n == [obj[x] EXCEPT !.data = 0,
                    !.template = IF x = "dep" THEN NextRv(obj[x].rv) ELSE @]
<1>4. /\ n \in Object /\ n.stamp = obj[x].stamp
      /\ x = "dep" => n.template = NextRv(obj[x].rv)
  <2>1. obj[x] \in Object /\ NextRv(obj[x].rv) \in Rvs /\ obj[x].template \in Rvs /\ 0 \in Data
    BY <1>1, StateFacts, Fields, RvFacts, DataFacts
  <2>2. n.stamp = obj[x].stamp /\ (x = "dep" => n.template = NextRv(obj[x].rv))
    BY <2>1 DEF Object
  <2>3. CASE x = "dep"
    <3>1. n = [obj[x] EXCEPT !.data = 0, !.template = NextRv(obj[x].rv)]
      BY <2>3
    <3>2. [obj[x] EXCEPT !.data = 0, !.template = NextRv(obj[x].rv)] \in Object
      BY <2>1, Zenon DEF Object
    <3> QED
      BY <2>2, <3>1, <3>2
  <2>4. CASE x # "dep"
    <3>1. n = [obj[x] EXCEPT !.data = 0, !.template = obj[x].template]
      BY <2>4
    <3>2. [obj[x] EXCEPT !.data = 0, !.template = obj[x].template] \in Object
      BY <2>1, Zenon DEF Object
    <3> QED
      BY <2>2, <3>1, <3>2
  <2> QED
    BY <2>3, <2>4
<1>5. \/ Write(x, n)
      \/ obj' = [obj EXCEPT ![x] = [NoObject EXCEPT !.rv = NextRv(obj[x].rv)]]
  BY DEF Tamper
<1> HIDE DEF n
<1>6. /\ Touched(x)
      /\ x = "dep" => \/ /\ obj'["dep"].stamp = obj["dep"].stamp
                         /\ obj'["dep"].template = NextRv(obj["dep"].rv)
                      \/ /\ ~obj'["dep"].there
                         /\ obj'["dep"].stamp = NoStamp /\ obj'["dep"].template = 0
  <2>1. CASE Write(x, n)
    BY <1>1, <1>4, <2>1, WriteTouches
  <2>2. CASE obj' = [obj EXCEPT ![x] = [NoObject EXCEPT !.rv = NextRv(obj[x].rv)]]
    BY <1>1, <2>2, RemovalTouches
  <2> QED
    BY <1>5, <2>1, <2>2
<1>7. /\ obj' \in [Objects -> Object] /\ obj'["tls"] = obj["tls"]
      /\ obj'["dep"].there => obj["dep"].there
  BY <1>2, <1>6, Named DEF Touched
<1>8. cached' \in [Objects -> Object] /\ (cached'["tls"].there => obj'["tls"].there)
  BY <1>1, <1>2, <1>7, StateFacts DEF CertInv
<1>9. TypeOK' /\ TasksInv' /\ EditsInv' /\ CertInv'
  BY <1>1, <1>2, <1>3, <1>7, <1>8, OutsideStep
<1>10. StampsInv'
  <2>1. CASE x = "dep"
    <3>1. /\ obj'["dep"].stamp.cm \in {obj["dep"].stamp.cm, stamp.cm, 0}
          /\ obj'["dep"].stamp.tls \in {obj["dep"].stamp.tls, stamp.tls, 0}
      BY <1>6, <2>1 DEF NoStamp
    <3> QED
      BY <1>1, <1>2, <1>6, <1>9, <2>1, <3>1, StampsNewDep
  <2>2. CASE x # "dep"
    <3>1. \A y \in Objects : \/ obj'[y] = obj[y]
                             \/ y # "dep" /\ obj'[y].rv = NextRv(obj[y].rv)
      BY <1>6, <2>2 DEF Touched
    <3> QED
      BY <1>1, <1>2, <1>9, <3>1, StampsCarried
  <2> QED
    BY <2>1, <2>2
<1> QED
  BY <1>9, <1>10 DEF RolloutInv

\* service-ca writes the certificate.
LEMMA CertWritten ==
    ASSUME RolloutInv, NEW n \in Object, Write("tls", n),
           UNCHANGED <<operand, want, cached, queued, phase, tasks, read, failed, stamp, pods>>,
           budget' \in [Budgets -> Nat], budget'["edit"] = budget["edit"]
    PROVE  RolloutInv'
<1>1. TypeOK /\ StampsInv /\ queued \in BOOLEAN
      /\ pods \in [template : Rvs, cfg : Data, cert : Rvs]
  BY DEF RolloutInv, TypeOK
<1>2. Touched("tls") /\ obj'["tls"].there
  BY <1>1, WriteTouches, Named
<1>3. obj' \in [Objects -> Object] /\ obj'["dep"] = obj["dep"]
  BY <1>2, Named DEF Touched
<1>4. TypeOK' /\ TasksInv' /\ EditsInv' /\ CertInv'
  BY <1>1, <1>2, <1>3, StateFacts, OutsideStep
<1>5. \A y \in Objects : \/ obj'[y] = obj[y]
                         \/ y # "dep" /\ obj'[y].rv = NextRv(obj[y].rv)
  BY <1>2 DEF Touched
<1>6. StampsInv'
  BY <1>1, <1>4, <1>5, StampsCarried
<1> QED
  BY <1>4, <1>6 DEF RolloutInv

LEMMA IssueKeepsInv ==
    ASSUME RolloutInv, IssueCert
    PROVE  RolloutInv'
<1>1. budget \in [Budgets -> Nat]
  BY DEF RolloutInv, TypeOK
<1> QED
  BY <1>1, NoObjectTyped, CertWritten DEF IssueCert, workerVars

LEMMA RotateKeepsInv ==
    ASSUME RolloutInv, RotateCert
    PROVE  RolloutInv'
<1>1. TypeOK /\ obj["tls"] \in Object
  BY StateFacts, Named DEF RolloutInv
<1>2. budget' \in [Budgets -> Nat] /\ budget'["edit"] = budget["edit"]
  BY <1>1, Spent DEF RotateCert, Budgets
<1> QED
  BY <1>1, <1>2, CertWritten DEF RotateCert, workerVars

LEMMA SyncKeepsInv ==
    ASSUME RolloutInv, NEW x \in Objects, Sync(x)
    PROVE  RolloutInv'
<1>1. TypeOK /\ StampsInv /\ CertInv /\ budget \in [Budgets -> Nat]
      /\ pods \in [template : Rvs, cfg : Data, cert : Rvs]
  BY DEF RolloutInv, TypeOK
<1>2. /\ UNCHANGED <<operand, want, obj, phase, tasks, read, failed, stamp, pods, budget>>
      /\ cached' = [cached EXCEPT ![x] = obj[x]]
  BY DEF Sync, workerVars
<1>3. queued' \in BOOLEAN
  BY Zenon DEF Sync
<1>4. /\ cached' \in [Objects -> Object] /\ obj' \in [Objects -> Object]
      /\ \A y \in Objects : cached'[y] \in {cached[y], obj[y]}
  BY <1>1, <1>2, StateFacts
<1>5. cached'["tls"].there => obj'["tls"].there
  BY <1>1, <1>2, <1>4, Named DEF CertInv
<1>6. TypeOK' /\ TasksInv' /\ EditsInv' /\ CertInv'
  BY <1>1, <1>2, <1>3, <1>4, <1>5, OutsideStep
<1>7. StampsInv'
  BY <1>1, <1>2, <1>4, <1>6, StampsCarried
<1> QED
  BY <1>6, <1>7 DEF RolloutInv

LEMMA OtherEventKeepsInv ==
    ASSUME RolloutInv, OtherEvent
    PROVE  RolloutInv'
<1>1. TypeOK /\ TasksInv /\ EditsInv /\ CertInv /\ StampsInv
  BY DEF RolloutInv
<1>2. /\ UNCHANGED <<operand, want, obj, cached, phase, tasks, read, failed, stamp, pods, budget>>
      /\ queued' = TRUE
  BY DEF OtherEvent, workerVars
<1>3. TypeOK' /\ TasksInv' /\ EditsInv' /\ CertInv'
  BY <1>1, <1>2 DEF TypeOK, TasksInv, EditsInv, CertInv
<1>4. StampsInv'
  BY <1>1, <1>2, StampsStay
<1> QED
  BY <1>3, <1>4 DEF RolloutInv

\* Pods start with the ConfigMap and the certificate of that moment.
LEMMA RollPodsKeepsInv ==
    ASSUME RolloutInv, RollPods
    PROVE  RolloutInv'
<1>1. TypeOK /\ StampsInv /\ CertInv /\ budget \in [Budgets -> Nat] /\ queued \in BOOLEAN
  BY DEF RolloutInv, TypeOK
<1>2. UNCHANGED <<operand, want, obj, cached, queued, phase, tasks, read, failed, stamp, budget>>
  BY DEF RollPods, workerVars
<1>3. /\ obj["dep"].template \in Rvs /\ obj["tls"].rv \in Rvs
      /\ "cm" \in Objects => obj["cm"].data \in Data
  BY <1>1, StateFacts, Fields, Named
<1>4. /\ pods' \in [template : Rvs, cfg : Data, cert : Rvs]
      /\ pods'.template = obj["dep"].template /\ pods'.cert = obj["tls"].rv
      /\ "cm" \in Objects => pods'.cfg = obj["cm"].data
  BY <1>3, DataFacts DEF RollPods
<1>5. TypeOK' /\ TasksInv' /\ EditsInv' /\ CertInv'
  BY <1>1, <1>2, <1>4, StateFacts, OutsideStep DEF CertInv
<1>6. StampCoversPods'
  BY <1>2, <1>4 DEF StampCoversPods, Stamps
<1>7. StampsInv'
  BY <1>1, <1>2, <1>4, <1>6 DEF StampsInv
<1> QED
  BY <1>5, <1>7 DEF RolloutInv

LEMMA CrashKeepsInv ==
    ASSUME RolloutInv, Crash
    PROVE  RolloutInv'
<1>1. TypeOK /\ EditsInv /\ CertInv /\ StampsInv
  BY DEF RolloutInv
<1>2. /\ UNCHANGED <<operand, want, obj, pods>>
      /\ phase' = "idle" /\ tasks' = <<>> /\ failed' = FALSE
      /\ read' = [cfg |-> 0, pod |-> 0] /\ stamp' = NotGenerated
      /\ cached' = obj /\ queued' = TRUE
  BY DEF Crash
<1>3. budget' \in [Budgets -> Nat] /\ budget'["edit"] = budget["edit"]
  BY <1>1, Spent DEF Crash, Budgets
<1>4. read' \in Versions
  BY <1>2, DataFacts DEF Versions
<1>5. TasksInv' /\ NoDeploy(tasks')
  BY <1>2, NothingLeft DEF TasksInv
<1>6. TypeOK'
  <2>1. \A i \in DOMAIN tasks' : tasks'[i][2] \in Objects
    BY <1>5, TasksKept DEF TasksInv
  <2> QED
    BY <1>1, <1>2, <1>3, <1>4, <2>1, NotGeneratedTyped DEF TypeOK
<1>7. EditsInv' /\ CertInv'
  BY <1>1, <1>2, <1>3, <1>5 DEF EditsInv, CertInv
<1>8. StampsInv'
  BY <1>1, <1>2, <1>6, StampsCarried
<1> QED
  BY <1>5, <1>6, <1>7, <1>8 DEF RolloutInv

----------------------------------------------------------------------------
(* The theorems.                                                           *)

LEMMA InitInv == Init => RolloutInv
<1> SUFFICES ASSUME Init PROVE RolloutInv
  OBVIOUS
<1> DEFINE legacy == [NoObject EXCEPT !.there = TRUE, !.rv = 1]
<1>1. legacy \in Object
  BY NoObjectTyped, RvFacts, Zenon DEF Object
<1>2. /\ obj = [x \in Objects |-> IF x = "legacy" THEN legacy ELSE NoObject]
      /\ cached = obj
  BY DEF Init
<1> HIDE DEF legacy
<1>3. /\ obj \in [Objects -> Object] /\ cached \in [Objects -> Object]
      /\ \A x \in Objects : cached[x] = obj[x]
      /\ "cm" \in Objects => obj["cm"] = NoObject
      /\ obj["dep"] = NoObject /\ obj["tls"] = NoObject
  BY <1>1, <1>2, NoObjectTyped, Named
<1>4. /\ NoObject.rv = 0 /\ NoObject.template = 0 /\ ~NoObject.there
      /\ NoObject.stamp.cm = 0 /\ NoObject.stamp.tls = 0
  BY DEF NoObject, NoStamp
<1>5. TasksInv /\ NoDeploy(tasks) /\ \A i \in DOMAIN tasks : tasks[i][2] \in Objects
  BY NothingLeft, TasksKept DEF Init, TasksInv
<1>6. TypeOK
  <2>1. want \in Versions /\ read \in Versions
    BY DataFacts DEF Init, Versions
  <2>2. pods \in [template : Rvs, cfg : Data, cert : Rvs]
    BY DataFacts, RvFacts DEF Init
  <2>3. budget \in [Budgets -> Nat]
    BY RolloutBounds DEF Init, FullBudget, Budgets
  <2> QED
    BY <1>3, <1>5, <2>1, <2>2, <2>3, NotGeneratedTyped DEF Init, TypeOK
<1>7. EditsInv
  BY RolloutBounds DEF Init, FullBudget, EditsInv
<1>8. CertInv
  BY <1>3, <1>4, <1>5, Named DEF CertInv
<1>9. StampsInv
  <2>1. StampCoversPods
    BY <1>3, <1>4 DEF StampCoversPods
  <2>2. \A x \in Objects : cached[x].rv <= obj[x].rv
    BY <1>3, <1>6, StateFacts
  <2> QED
    BY <1>3, <1>4, <2>1, <2>2 DEF StampsInv, Init, NotGenerated
<1> QED
  BY <1>5, <1>6, <1>7, <1>8, <1>9 DEF RolloutInv

LEMMA StepInv == RolloutInv /\ [Next]_vars => RolloutInv'
<1> SUFFICES ASSUME RolloutInv, [Next]_vars PROVE RolloutInv'
  OBVIOUS
<1>1. CASE UNCHANGED vars
  <2>1. StampsInv'
    BY <1>1, StampsStay DEF RolloutInv, vars
  <2> QED
    BY <1>1, <2>1 DEF RolloutInv, TypeOK, TasksInv, EditsInv, CertInv, vars
<1>2. CASE Worker
  BY <1>2, StartKeepsInv, TaskFailsKeepsInv, GenerateKeepsInv, DeployKeepsInv,
     EndPhaseKeepsInv, ApplyKeepsInv, OverwriteKeepsInv, EnsureKeepsInv, DeleteKeepsInv,
     WaitKeepsInv DEF Worker
<1>3. CASE EditCR \/ IssueCert \/ RotateCert \/ OtherEvent \/ RollPods \/ Crash
  BY <1>3, EditKeepsInv, IssueKeepsInv, RotateKeepsInv, OtherEventKeepsInv,
     RollPodsKeepsInv, CrashKeepsInv
<1>4. CASE \E x \in Objects : Tamper(x) \/ Sync(x)
  BY <1>4, TamperKeepsInv, SyncKeepsInv
<1> QED
  BY <1>1, <1>2, <1>3, <1>4 DEF Next

\* The invariant holds in every state that the operand reconcilers can reach.
THEOREM RolloutInvariant == Spec => []RolloutInv
BY InitInv, StepInv, PTL DEF Spec

\* Whatever the operands and the bounds, every task works on a kept object, every
\* object carries data of a version the CR had, and resource versions stay in range.
THEOREM RolloutTyped == Spec => []TypeOK
<1>1. RolloutInv => TypeOK
  BY DEF RolloutInv
<1> QED
  BY <1>1, RolloutInvariant, PTL

\* For every choice of operands and kept objects, and any number of edits, faults
\* and crashes: the MCP server, RHOKP and the OTEL Collector have a Deployment only
\* while their serving certificate exists, although the poll reads a lagging cache.
THEOREM CertBeforeDeployment == Spec => []DeploymentAfterCert
<1>1. RolloutInv => DeploymentAfterCert
  BY DEF RolloutInv, CertInv, DeploymentAfterCert, Waits
<1> QED
  BY <1>1, RolloutInvariant, PTL

\* With the resource versions of a real API server, which never come back: pods of
\* the current template run the ConfigMap and the certificate whose current version
\* the Deployment's annotations record, after any number of steps.
THEOREM StampsAreTruthful == Spec => [](RvModulus = 0 => StampCoversPods)
<1>1. RolloutInv => (RvModulus = 0 => StampCoversPods)
  BY DEF RolloutInv, StampsInv
<1> QED
  BY <1>1, RolloutInvariant, PTL

=============================================================================
