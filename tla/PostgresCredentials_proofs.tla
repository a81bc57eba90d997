---------------------- MODULE PostgresCredentials_proofs ----------------------
(***************************************************************************)
(* Proofs about PostgresCredentials, for every value of the bounds: the    *)
(* type invariant, and that no path through the tasks pairs a new password *)
(* with a database that has one, unless one of the three things happened   *)
(* that NeverLockedOut sets apart.                                         *)
(***************************************************************************)
EXTENDS PostgresCredentials, FiniteSetTheorems, TLAPS

----------------------------------------------------------------------------
(* The inductive invariant.                                                *)

\* Nothing has happened that the code does not guard the password against.
Guarded == upset \subseteq {"outdated"}

\* The database, and the Secret of its password, are not those of an earlier CR.
Clean ==
    /\ Live["password"].owner \in {0, cr.uid} /\ claim.owner \in {0, cr.uid}
    /\ dep["postgres"] \in {0, cr.uid} /\ pod["postgres"].of \in {0, cr.uid}

\* Some of it is there for the current CR.
Begun ==
    \/ Live["password"].owner = cr.uid \/ claim.owner = cr.uid
    \/ dep["postgres"] = cr.uid \/ pod["postgres"].of = cr.uid

Passing == pc \in Phase1 \cup Phase2

\* No object has an owner that is yet to come.
OwnersInv ==
    /\ \A s \in Secrets : Live[s].owner <= cr.uid
    /\ claim.owner <= cr.uid
    /\ \A o \in Operands : dep[o] <= cr.uid /\ pod[o].of <= cr.uid

\* A database is in a pod or on a claim.
DataInv ==
    data # 0 => IF storage = "emptyDir" THEN pod["postgres"].of # 0 ELSE There(claim)

\* A reconciliation works for a CR that exists.
PassInv ==
    /\ Passing => cr.state # "none"
    /\ pc \in {"finalize", "wait"} => cr.state = "deleting"

\* A reconciliation, and what it creates, find nothing of an earlier CR.
CleanInv == Guarded /\ (Passing \/ (Begun /\ cr.state # "none")) => Clean

\* The database of a live CR has its Secret.
SecretInv ==
    Guarded /\ Clean /\ data # 0 /\ (cr.state = "live" \/ Passing) => There(Live["password"])

\* A password is generated only when there is none.
BeliefInv == Guarded /\ pc \in {"clean", "create"} => ~There(Live["password"])

CredentialInv ==
    /\ TypeOK /\ OwnersInv /\ DataInv /\ PassInv /\ CleanInv /\ SecretInv /\ BeliefInv
    /\ NeverLockedOut

----------------------------------------------------------------------------
(* The type invariant.                                                     *)

SecretStates == [Secrets -> [owner : 0..MaxUid, pw : Nat]]

\* Whatever but the bootstrap Secret exists holds a password.
Holds(h) ==
    /\ h["bootstrap"].pw = 0
    /\ \A s \in Secrets \ {"bootstrap"} : h[s].owner = 0 <=> h[s].pw = 0

HistoryOK ==
    /\ history \in Seq(SecretStates)
    /\ Len(history) \in 1..MaxLag
    /\ \A i \in DOMAIN history : Holds(history[i])

LEMMA HistoryTyped == TypeOK => HistoryOK
BY DEF TypeOK, HistoryOK, SecretStates, Holds

\* The states the informer shows first and the API server has.
LEMMA Ends ==
    ASSUME HistoryOK
    PROVE  /\ Live \in SecretStates /\ Holds(Live)
           /\ Seen \in SecretStates /\ Holds(Seen)
           /\ Len(history) \in DOMAIN history /\ Live = history[Len(history)]
           /\ 1 \in DOMAIN history /\ Seen = history[1]
<1>1. /\ Len(history) \in Nat \ {0} /\ DOMAIN history = 1..Len(history)
      /\ Head(history) = history[1]
  BY CredentialBounds DEF HistoryOK
<1>2. /\ Len(history) \in DOMAIN history /\ 1 \in DOMAIN history
  BY <1>1
<1>3. \A i \in DOMAIN history : history[i] \in SecretStates /\ Holds(history[i])
  BY <1>1 DEF HistoryOK
<1> QED
  BY <1>1, <1>2, <1>3 DEF Live, Seen

\* A write appends a state.
LEMMA Appended ==
    ASSUME HistoryOK, NEW h \in SecretStates, Holds(h),
           Len(history) < MaxLag, history' = Append(history, h)
    PROVE  /\ HistoryOK'
           /\ Live' = h
           /\ \A i \in DOMAIN history' : history'[i] = h \/ \E j \in DOMAIN history : history'[i] = history[j]
<1>1. /\ history' \in Seq(SecretStates) /\ Len(history') = Len(history) + 1
      /\ Len(history) \in Nat \ {0}
      /\ DOMAIN history = 1..Len(history) /\ DOMAIN history' = 1..Len(history')
      /\ \A i \in 1..Len(history) : history'[i] = history[i]
      /\ history'[Len(history) + 1] = h
  BY CredentialBounds DEF HistoryOK
<1>2. Len(history') \in 1..MaxLag
  BY <1>1, CredentialBounds
<1>3. \A i \in DOMAIN history' : i \in DOMAIN history \/ i = Len(history) + 1
  BY <1>1
<1>4. \A i \in DOMAIN history' : history'[i] = h \/ \E j \in DOMAIN history : history'[i] = history[j]
  BY <1>1, <1>3
<1>5. \A i \in DOMAIN history' : Holds(history'[i])
  BY <1>4 DEF HistoryOK
<1>6. HistoryOK'
  BY <1>1, <1>2, <1>5 DEF HistoryOK, SecretStates, Holds
<1> QED
  BY <1>1, <1>4, <1>6 DEF Live

LEMMA Written ==
    ASSUME HistoryOK, NEW s \in Secrets, NEW x \in [owner : 0..MaxUid, pw : Nat],
           IF s = "bootstrap" THEN x.pw = 0 ELSE (x.owner = 0 <=> x.pw = 0),
           Write(s, x)
    PROVE  /\ HistoryOK'
           /\ Live' = [Live EXCEPT ![s] = x]
           /\ \A i \in DOMAIN history' : history'[i] = Live' \/ \E j \in DOMAIN history : history'[i] = history[j]
<1> DEFINE h == [Live EXCEPT ![s] = x]
<1>1. Live \in SecretStates /\ Holds(Live)
  BY Ends
<1>2. h \in SecretStates
  BY <1>1 DEF SecretStates
<1>3. \A t \in Secrets : h[t] = IF t = s THEN x ELSE Live[t]
  BY <1>1 DEF SecretStates
<1>4. Holds(h)
  BY <1>1, <1>3 DEF Holds, Secrets
<1>5. Len(history) < MaxLag /\ history' = Append(history, h)
  BY DEF Write
<1> HIDE DEF h
<1>6. HistoryOK' /\ Live' = h /\ \A i \in DOMAIN history' : history'[i] = h \/ \E j \in DOMAIN history : history'[i] = history[j]
  BY <1>2, <1>4, <1>5, Appended
<1> QED
  BY <1>6 DEF h

\* The informer drops the oldest state.
LEMMA Delivered ==
    ASSUME HistoryOK, Len(history) > 1, history' = Tail(history)
    PROVE  /\ HistoryOK'
           /\ Live' = Live
           /\ \A i \in DOMAIN history' : \E j \in DOMAIN history : history'[i] = history[j]
<1>1. /\ history' \in Seq(SecretStates) /\ Len(history') = Len(history) - 1
      /\ Len(history) \in Nat \ {0, 1}
      /\ DOMAIN history = 1..Len(history) /\ DOMAIN history' = 1..Len(history')
      /\ \A i \in 1..Len(history') : history'[i] = history[i + 1]
  BY CredentialBounds DEF HistoryOK
<1>2. Len(history') \in 1..MaxLag
  BY <1>1, CredentialBounds DEF HistoryOK
<1>3. \A i \in DOMAIN history' : i + 1 \in DOMAIN history /\ history'[i] = history[i + 1]
  BY <1>1
<1>4. \A i \in DOMAIN history' : Holds(history'[i])
  BY <1>3 DEF HistoryOK
<1>5. HistoryOK'
  BY <1>1, <1>2, <1>4 DEF HistoryOK, SecretStates, Holds
<1>6. history'[Len(history')] = history[Len(history)]
  BY <1>1
<1> QED
  BY <1>3, <1>5, <1>6 DEF Live

\* A new process lists the Secrets as they are.
LEMMA Relisted ==
    ASSUME HistoryOK, history' = <<Live>>
    PROVE  /\ HistoryOK'
           /\ Live' = Live
<1>1. Live \in SecretStates /\ Holds(Live)
  BY Ends
<1>2. /\ history' \in Seq(SecretStates) /\ Len(history') = 1 /\ DOMAIN history' = {1}
      /\ history'[1] = Live
  BY <1>1
<1> QED
  BY <1>1, <1>2, CredentialBounds DEF HistoryOK, Live, SecretStates, Holds

LEMMA Kept ==
    ASSUME HistoryOK, history' = history
    PROVE  HistoryOK' /\ Live' = Live /\ Seen' = Seen
BY DEF HistoryOK, Live, Seen, SecretStates, Holds

\* The values of a function on a finite set.
LEMMA FiniteImage ==
    ASSUME NEW S, IsFiniteSet(S), NEW f, DOMAIN f = S
    PROVE  IsFiniteSet({f[x] : x \in S})
<1> DEFINE T == {f[x] : x \in S}
           g == [x \in S |-> f[x]]
<1>1. g \in Surjection(S, T)
  BY DEF Surjection
<1> QED
  BY <1>1, FS_Surjection DEF ExistsSurjection

LEMMA InUseFinite == TypeOK => IsFiniteSet(InUse) /\ 0 \in InUse
<1> SUFFICES ASSUME TypeOK
             PROVE  IsFiniteSet(InUse) /\ 0 \in InUse
  OBVIOUS
<1> DEFINE Pw(s) == [i \in DOMAIN history |-> history[i][s].pw]
           Of(s) == {Pw(s)[i] : i \in DOMAIN history}
<1>1. /\ DOMAIN history = 1..Len(history) /\ Len(history) \in Nat \ {0}
      /\ \A i \in DOMAIN history : history[i] \in SecretStates /\ history[i]["bootstrap"].pw = 0
  BY CredentialBounds DEF TypeOK, SecretStates
<1>2. IsFiniteSet(DOMAIN history)
  BY <1>1, FS_Interval
<1>3. \A s \in Secrets : IsFiniteSet(Of(s))
  <2> TAKE s \in Secrets
  <2>1. DOMAIN Pw(s) = DOMAIN history
    OBVIOUS
  <2> HIDE DEF Pw
  <2> QED
    BY <1>2, <2>1, FiniteImage
<1>4. \A a, b, c : IsFiniteSet(({a} \cup {b}) \cup {c})
  <2> TAKE a, b, c
  <2>1. IsFiniteSet({a})
    BY FS_Singleton
  <2>2. IsFiniteSet({a} \cup {b})
    BY <2>1, FS_AddElement
  <2> QED
    BY <2>2, FS_AddElement
<1>5. InUse = ((Of("bootstrap") \cup Of("password")) \cup Of("dsn"))
                 \cup (({pod["postgres"].pw} \cup {pod["otel"].pw}) \cup {data})
  BY DEF InUse, Secrets, Operands
<1>6. IsFiniteSet(InUse)
  <2> HIDE DEF Of
  <2>1. IsFiniteSet(Of("bootstrap")) /\ IsFiniteSet(Of("password")) /\ IsFiniteSet(Of("dsn"))
    BY <1>3 DEF Secrets
  <2>2. IsFiniteSet(Of("bootstrap") \cup Of("password"))
    BY <2>1, FS_Union
  <2>3. IsFiniteSet((Of("bootstrap") \cup Of("password")) \cup Of("dsn"))
    BY <2>1, <2>2, FS_Union
  <2> QED
    BY <1>4, <1>5, <2>3, FS_Union
<1>7. 0 \in InUse
  BY <1>1 DEF InUse, Secrets
<1> QED
  BY <1>6, <1>7

\* A generated password is a number above 0, which no Secret, pod or database has.
LEMMA Generated == TypeOK => RandomPassword \in Nat \ {0} /\ RandomPassword \notin InUse
<1> SUFFICES ASSUME TypeOK
             PROVE  RandomPassword \in Nat \ {0} /\ RandomPassword \notin InUse
  OBVIOUS
<1> DEFINE n == Cardinality(InUse)
<1>1. IsFiniteSet(InUse) /\ 0 \in InUse
  BY InUseFinite
<1>2. n \in Nat /\ IsFiniteSet(InUse \ {0}) /\ Cardinality(InUse \ {0}) = n - 1
  BY <1>1, FS_CardinalityType, FS_RemoveElement
<1>3. IsFiniteSet(1..n) /\ Cardinality(1..n) = n
  BY <1>2, FS_Interval
<1>4. \E p \in 1..n : p \notin InUse
  <2> SUFFICES ASSUME \A p \in 1..n : p \in InUse
               PROVE  FALSE
    OBVIOUS
  <2>1. 1..n \in SUBSET (InUse \ {0})
    BY <1>2
  <2>2. Cardinality(1..n) <= Cardinality(InUse \ {0})
    BY <1>2, <2>1, FS_Subset
  <2> QED
    BY <1>2, <1>3, <2>2
<1> QED
  BY <1>2, <1>4 DEF RandomPassword

\* The part of the type invariant that is not about the Secrets.
RestOK ==
    /\ cr \in [uid : 1..MaxUid, state : {"none", "live", "deleting"}]
    /\ otel \in BOOLEAN /\ storage \in {"emptyDir", "class", "noclass"}
    /\ claim \in [owner : 0..MaxUid, terminating : BOOLEAN]
    /\ data \in Nat
    /\ dep \in [Operands -> 0..MaxUid]
    /\ pod \in [Operands -> [of : 0..MaxUid, pw : Nat]]
    /\ \A o \in Operands : pod[o].of = 0 <=> pod[o].pw = 0
    /\ queued \in BOOLEAN /\ failed \in BOOLEAN /\ upset \subseteq Upsets
    /\ pc \in {"idle", "finalize", "wait"} \cup Phase1 \cup Phase2
    /\ budget \in [Budgets -> Nat]

LEMMA TypeParts == TypeOK => HistoryOK /\ RestOK
BY DEF TypeOK, HistoryOK, RestOK, SecretStates, Holds

LEMMA TypeWhole == HistoryOK' /\ RestOK' => TypeOK'
BY DEF TypeOK, HistoryOK, RestOK, SecretStates, Holds

LEMMA Spent ==
    ASSUME RestOK, NEW b \in Budgets, Spend(b)
    PROVE  budget' \in [Budgets -> Nat]
<1>1. /\ budget \in [Budgets -> Nat]
      /\ budget[b] > 0 /\ budget' = [budget EXCEPT ![b] = @ - 1]
  BY DEF RestOK, Spend
<1>2. budget[b] - 1 \in Nat
  BY <1>1
<1> QED
  BY <1>1, <1>2

\* The two Secrets a write may leave: none, and one of the current CR.
LEMMA Values ==
    ASSUME RestOK
    PROVE  /\ NoSecret \in [owner : 0..MaxUid, pw : Nat]
           /\ NoSecret.owner = 0 /\ NoSecret.pw = 0
           /\ NoPod \in [of : 0..MaxUid, pw : Nat] /\ NoPod.of = 0 /\ NoPod.pw = 0
           /\ cr.uid \in 1..MaxUid /\ cr.uid \in Nat \ {0}
           /\ \A p \in Nat : [owner |-> cr.uid, pw |-> p] \in [owner : 0..MaxUid, pw : Nat]
BY CredentialBounds DEF RestOK, NoSecret, NoPod

\* Clearing a Secret.
LEMMA Cleared ==
    ASSUME HistoryOK, RestOK, NEW s \in Secrets, Write(s, NoSecret)
    PROVE  /\ HistoryOK'
           /\ Live' = [Live EXCEPT ![s] = NoSecret]
           /\ \A i \in DOMAIN history' : history'[i] = Live' \/ \E j \in DOMAIN history : history'[i] = history[j]
<1>1. NoSecret \in [owner : 0..MaxUid, pw : Nat] /\ NoSecret.owner = 0 /\ NoSecret.pw = 0
  BY Values
<1> HIDE DEF NoSecret
<1> QED
  BY <1>1, Written

LEMMA TypeWorker ==
    ASSUME TypeOK, Worker
    PROVE  TypeOK'
<1>0. HistoryOK /\ RestOK
  BY TypeParts
<1>v. /\ cr.uid \in 1..MaxUid
      /\ \A p \in Nat : [owner |-> cr.uid, pw |-> p] \in [owner : 0..MaxUid, pw : Nat]
  BY <1>0, Values
<1>l. /\ Live \in SecretStates /\ Holds(Live) /\ Seen \in SecretStates /\ Holds(Seen)
  BY <1>0, Ends
<1>1. CASE StartReconcile
  <2>1. HistoryOK'
    BY <1>0, <1>1, Kept DEF StartReconcile
  <2>2. RestOK'
    BY <1>0, <1>1 DEF RestOK, StartReconcile, Note, Upsets, outside, Phase1, Phase2
  <2> QED
    BY <2>1, <2>2, TypeWhole
<1>2. CASE ReconcileBootstrap
  <2>1. HistoryOK'
    <3>1. CASE history' = history
      BY <1>0, <3>1, Kept
    <3>2. CASE Write("bootstrap", [owner |-> cr.uid, pw |-> 0])
      BY <1>0, <1>v, <3>2, Written DEF Secrets
    <3> QED
      BY <1>2, <3>1, <3>2 DEF ReconcileBootstrap
  <2>2. RestOK'
    BY <1>0, <1>2 DEF RestOK, ReconcileBootstrap, cluster, outside, Phase1, Phase2
  <2> QED
    BY <2>1, <2>2, TypeWhole
<1>3. CASE ReconcilePassword
  <2>1. HistoryOK'
    BY <1>0, <1>3, Kept DEF ReconcilePassword
  <2>2. budget' \in [Budgets -> Nat]
    BY <1>0, <1>3, Spent DEF RestOK, ReconcilePassword, Budgets
  <2>3. RestOK'
    BY <1>0, <1>3, <2>2 DEF RestOK, ReconcilePassword, AfterPassword, Note, Upsets, outside,
       Phase1, Phase2
  <2> QED
    BY <2>1, <2>3, TypeWhole
<1>4. CASE DeleteOld
  <2>1. HistoryOK'
    <3>1. CASE history' = history
      BY <1>0, <3>1, Kept
    <3>2. CASE \E s \in OldSecrets : Write(s, NoSecret)
      <4>1. PICK s \in OldSecrets : Write(s, NoSecret)
        BY <3>2
      <4>2. s \in Secrets
        BY DEF OldSecrets, Secrets
      <4> QED
        BY <1>0, <4>1, <4>2, Cleared
    <3> QED
      BY <1>4, <3>1, <3>2 DEF DeleteOld
  <2>2. RestOK'
    BY <1>0, <1>4 DEF RestOK, DeleteOld, cluster, outside, Phase1, Phase2
  <2> QED
    BY <2>1, <2>2, TypeWhole
<1>5. CASE CreatePassword
  <2>1. HistoryOK'
    <3>1. RandomPassword \in Nat \ {0}
      BY Generated
    <3>2. Write("password", [owner |-> cr.uid, pw |-> RandomPassword])
      BY <1>5 DEF CreatePassword
    <3> QED
      BY <1>0, <1>v, <3>1, <3>2, Written DEF Secrets
  <2>2. RestOK'
    BY <1>0, <1>5 DEF RestOK, CreatePassword, AfterPassword, cluster, outside, Phase1, Phase2
  <2> QED
    BY <2>1, <2>2, TypeWhole
<1>6. CASE ReconcileDSN
  <2>1. HistoryOK'
    <3>1. CASE history' = history
      BY <1>0, <3>1, Kept
    <3>2. CASE history' # history
      <4> DEFINE x == [owner |-> IF There(Seen["dsn"]) THEN Seen["dsn"].owner ELSE cr.uid,
                       pw |-> Seen["password"].pw]
      <4>1. Write("dsn", x) /\ There(Seen["password"])
        BY <1>6, <3>2 DEF ReconcileDSN, PostgresConnectionString
      <4>2. Seen["password"].pw \in Nat \ {0} /\ Seen["dsn"].owner \in 0..MaxUid
        BY <1>l, <4>1 DEF SecretStates, Holds, Secrets, There
      <4>3. x \in [owner : 0..MaxUid, pw : Nat] /\ x.owner # 0 /\ x.pw # 0
        BY <1>v, <4>2, CredentialBounds DEF There
      <4> HIDE DEF x
      <4> QED
        BY <1>0, <4>1, <4>3, Written DEF Secrets
    <3> QED
      BY <3>1, <3>2
  <2>2. RestOK'
    BY <1>0, <1>6 DEF RestOK, ReconcileDSN, Note, Upsets, outside, Phase1, Phase2
  <2> QED
    BY <2>1, <2>2, TypeWhole
<1>7. CASE EndPhase1
  <2>1. HistoryOK'
    BY <1>0, <1>7, Kept DEF EndPhase1
  <2>2. RestOK'
    BY <1>0, <1>7 DEF RestOK, EndPhase1, cluster, outside, Phase1, Phase2
  <2> QED
    BY <2>1, <2>2, TypeWhole
<1>8. CASE ReconcilePVC
  <2>1. HistoryOK'
    BY <1>0, <1>8, Kept DEF ReconcilePVC
  <2>2. claim' \in [owner : 0..MaxUid, terminating : BOOLEAN]
    <3>1. claim' = claim \/ claim' = [owner |-> cr.uid, terminating |-> FALSE]
      BY <1>8 DEF ReconcilePVC
    <3>2. \A u \in 0..MaxUid :
            [owner |-> u, terminating |-> FALSE] \in [owner : 0..MaxUid, terminating : BOOLEAN]
      BY Zenon
    <3>3. cr.uid \in 0..MaxUid
      BY <1>v
    <3> QED
      BY <1>0, <3>1, <3>2, <3>3 DEF RestOK
  <2>3. pc' \in {"postgres", "idle"} /\ queued' \in BOOLEAN
    BY <1>0, <1>8 DEF RestOK, ReconcilePVC, Abort
  <2>4. RestOK'
    BY <1>0, <1>8, <2>2, <2>3 DEF RestOK, ReconcilePVC, cluster, outside, Phase2
  <2> QED
    BY <2>1, <2>4, TypeWhole
<1>9. ASSUME NEW o \in Operands, ReconcileDeployment(o)
      PROVE  TypeOK'
  <2>1. HistoryOK'
    BY <1>0, <1>9, Kept DEF ReconcileDeployment
  <2>2. dep' \in [Operands -> 0..MaxUid]
    BY <1>0, <1>9, <1>v DEF RestOK, ReconcileDeployment
  <2>3. pc' \in {"otel", "idle"} /\ queued' \in BOOLEAN
    BY <1>0, <1>9 DEF RestOK, ReconcileDeployment
  <2>4. UNCHANGED <<cr, otel, storage, data, pod, upset, claim, failed, budget>>
    BY <1>9 DEF ReconcileDeployment, cluster, outside
  <2>5. RestOK'
    BY <1>0, <2>2, <2>3, <2>4 DEF RestOK, Phase2
  <2> QED
    BY <2>1, <2>5, TypeWhole
<1>10. CASE TaskFails
  <2>1. HistoryOK'
    BY <1>0, <1>10, Kept DEF TaskFails
  <2>2. budget' \in [Budgets -> Nat]
    BY <1>0, <1>10, Spent DEF TaskFails, Budgets
  <2>3. RestOK'
    <3>1. pc' \in {"idle"} \cup Phase1 /\ queued' \in BOOLEAN /\ failed' \in BOOLEAN
      BY <1>0, <1>10 DEF RestOK, TaskFails, AfterPassword, Abort, Phase1
    <3> QED
      BY <1>0, <1>10, <2>2, <3>1 DEF RestOK, TaskFails, cluster, outside
  <2> QED
    BY <2>1, <2>3, TypeWhole
<1>11. CASE DeleteOwned
  <2>1. PICK kept :
           /\ UNCHANGED budget \/ Spend("fault")
           /\ Len(history) < MaxLag
           /\ history' = Append(history,
                 [s \in Secrets |-> IF s \in ListedSecrets \ kept THEN NoSecret ELSE Live[s]])
           /\ claim' = [claim EXCEPT !.terminating =
                           @ \/ (claim.owner = cr.uid /\ "claim" \notin kept)]
           /\ dep' = [o \in Operands |-> IF dep[o] = cr.uid /\ o \notin kept THEN 0 ELSE dep[o]]
    BY <1>11 DEF DeleteOwned
  <2>2. HistoryOK'
    <3> DEFINE h == [s \in Secrets |-> IF s \in ListedSecrets \ kept THEN NoSecret ELSE Live[s]]
    <3>1. NoSecret \in [owner : 0..MaxUid, pw : Nat] /\ NoSecret.owner = 0 /\ NoSecret.pw = 0
      BY <1>0, Values
    <3>2. h \in SecretStates
      BY <1>l, <3>1 DEF SecretStates
    <3>3. Holds(h)
      BY <1>l, <3>1 DEF Holds, Secrets
    <3>4. Len(history) < MaxLag /\ history' = Append(history, h)
      BY <2>1
    <3> HIDE DEF h
    <3> QED
      BY <1>0, <3>2, <3>3, <3>4, Appended
  <2>3. budget' \in [Budgets -> Nat]
    BY <1>0, <2>1, Spent DEF RestOK, Budgets
  <2>4. claim' \in [owner : 0..MaxUid, terminating : BOOLEAN]
    <3>1. (claim.terminating \/ (claim.owner = cr.uid /\ "claim" \notin kept)) \in BOOLEAN
      BY <1>0 DEF RestOK
    <3> QED
      BY <1>0, <2>1, <3>1 DEF RestOK
  <2>5. dep' \in [Operands -> 0..MaxUid]
    BY <1>0, <2>1, CredentialBounds DEF RestOK
  <2>6. pc' = "wait" /\ UNCHANGED <<cr, otel, storage, data, pod, upset, queued, failed>>
    BY <1>11 DEF DeleteOwned, cluster, outside
  <2>7. RestOK'
    BY <1>0, <2>3, <2>4, <2>5, <2>6 DEF RestOK
  <2> QED
    BY <2>2, <2>7, TypeWhole
<1>12. CASE EndWait
  <2>1. HistoryOK'
    BY <1>0, <1>12, Kept DEF EndWait
  <2>2. cr' \in [uid : 1..MaxUid, state : {"none", "live", "deleting"}]
    BY <1>0, <1>12 DEF RestOK, EndWait
  <2>3. RestOK'
    BY <1>0, <1>12, <2>2 DEF RestOK, EndWait
  <2> QED
    BY <2>1, <2>3, TypeWhole
<1> QED
  BY <1>1, <1>2, <1>3, <1>4, <1>5, <1>6, <1>7, <1>8, <1>9, <1>10, <1>11, <1>12 DEF Worker

LEMMA TypeStop ==
    ASSUME TypeOK, NEW o \in Operands, Stop(o),
           budget' \in [Budgets -> Nat]
    PROVE  TypeOK'
<1>0. HistoryOK /\ RestOK
  BY TypeParts
<1>1. HistoryOK'
  BY <1>0, Kept DEF Stop
<1>2. NoPod \in [of : 0..MaxUid, pw : Nat] /\ NoPod.of = 0 /\ NoPod.pw = 0
  BY <1>0, Values
<1>3. /\ pod' \in [Operands -> [of : 0..MaxUid, pw : Nat]]
      /\ \A q \in Operands : pod'[q].of = 0 <=> pod'[q].pw = 0
  BY <1>0, <1>2 DEF RestOK, Stop
<1>4. RestOK'
  BY <1>0, <1>3 DEF RestOK, Stop
<1> QED
  BY <1>1, <1>4, TypeWhole

LEMMA TypeOthers ==
    ASSUME TypeOK, Next, ~Worker
    PROVE  TypeOK'
<1>0. HistoryOK /\ RestOK
  BY TypeParts
<1>l. Live \in SecretStates /\ Holds(Live)
  BY <1>0, Ends
<1>1. CASE Deliver
  <2>1. HistoryOK'
    BY <1>0, <1>1, Delivered DEF Deliver
  <2>2. RestOK'
    BY <1>0, <1>1 DEF RestOK, Deliver, cluster, outside
  <2> QED
    BY <2>1, <2>2, TypeWhole
<1>2. ASSUME NEW s \in Secrets, CollectSecret(s)
      PROVE  TypeOK'
  <2>1. HistoryOK'
    BY <1>0, <1>2, Cleared DEF CollectSecret
  <2>2. RestOK'
    BY <1>0, <1>2 DEF RestOK, CollectSecret, cluster, outside
  <2> QED
    BY <2>1, <2>2, TypeWhole
<1>3. ASSUME NEW o \in Operands, CollectDeployment(o)
      PROVE  TypeOK'
  <2>1. HistoryOK'
    BY <1>0, <1>3, Kept DEF CollectDeployment
  <2>2. RestOK'
    BY <1>0, <1>3, CredentialBounds DEF RestOK, CollectDeployment, cluster, outside
  <2> QED
    BY <2>1, <2>2, TypeWhole
<1>4. ASSUME NEW o \in Operands, OrphanPod(o)
      PROVE  TypeOK'
  BY <1>0, <1>4, TypeStop DEF OrphanPod, RestOK
<1>5. CASE CollectClaim
  <2>1. HistoryOK'
    BY <1>0, <1>5, Kept DEF CollectClaim
  <2>2. RestOK'
    BY <1>0, <1>5 DEF RestOK, CollectClaim, cluster, outside
  <2> QED
    BY <2>1, <2>2, TypeWhole
<1>6. CASE ClaimGone
  <2>1. HistoryOK'
    BY <1>0, <1>6, Kept DEF ClaimGone
  <2>2. RestOK'
    BY <1>0, <1>6, CredentialBounds DEF RestOK, ClaimGone
  <2> QED
    BY <2>1, <2>2, TypeWhole
<1>7. CASE StartPostgres
  <2>1. HistoryOK'
    BY <1>0, <1>7, Kept DEF StartPostgres
  <2>2. Live["password"].pw \in Nat \ {0} /\ dep["postgres"] \in 0..MaxUid /\ dep["postgres"] # 0
    BY <1>0, <1>l, <1>7 DEF StartPostgres, RestOK, SecretStates, Holds, Secrets, There, Operands
  <2>3. pod' = [pod EXCEPT !["postgres"] = [of |-> dep["postgres"], pw |-> Live["password"].pw]]
    BY <1>7 DEF StartPostgres
  <2>4. /\ pod' \in [Operands -> [of : 0..MaxUid, pw : Nat]]
        /\ \A q \in Operands : pod'[q].of = 0 <=> pod'[q].pw = 0
    BY <1>0, <2>2, <2>3 DEF RestOK
  <2>5. data' \in Nat
    BY <1>0, <1>7, <2>2 DEF RestOK, StartPostgres
  <2>6. RestOK'
    BY <1>0, <1>7, <2>4, <2>5 DEF RestOK, StartPostgres
  <2> QED
    BY <2>1, <2>6, TypeWhole
<1>8. CASE StartOtel
  <2>1. HistoryOK'
    BY <1>0, <1>8, Kept DEF StartOtel
  <2>2. Live["dsn"].pw \in Nat \ {0} /\ dep["otel"] \in 0..MaxUid /\ dep["otel"] # 0
    BY <1>0, <1>l, <1>8 DEF StartOtel, RestOK, SecretStates, Holds, Secrets, There, Operands
  <2>3. pod' = [pod EXCEPT !["otel"] = [of |-> dep["otel"], pw |-> Live["dsn"].pw]]
    BY <1>8 DEF StartOtel
  <2>4. /\ pod' \in [Operands -> [of : 0..MaxUid, pw : Nat]]
        /\ \A q \in Operands : pod'[q].of = 0 <=> pod'[q].pw = 0
    BY <1>0, <2>2, <2>3 DEF RestOK
  <2>5. RestOK'
    BY <1>0, <1>8, <2>4 DEF RestOK, StartOtel
  <2> QED
    BY <2>1, <2>5, TypeWhole
<1>9. CASE CreateCR
  <2>1. HistoryOK'
    BY <1>0, <1>9, Kept DEF CreateCR
  <2>2. cr.uid + 1 \in 1..MaxUid
    BY <1>0, <1>9, CredentialBounds DEF RestOK, CreateCR
  <2>3. budget' \in [Budgets -> Nat]
    BY <1>0, <1>9, Spent DEF CreateCR, Budgets
  <2>4. RestOK'
    BY <1>0, <1>9, <2>2, <2>3 DEF RestOK, CreateCR
  <2> QED
    BY <2>1, <2>4, TypeWhole
<1>10. CASE DeleteCR
  <2>1. HistoryOK'
    BY <1>0, <1>10, Kept DEF DeleteCR
  <2>2. RestOK'
    BY <1>0, <1>10 DEF RestOK, DeleteCR
  <2> QED
    BY <2>1, <2>2, TypeWhole
<1>11. CASE SetDefaultClass
  <2>1. HistoryOK'
    BY <1>0, <1>11, Kept DEF SetDefaultClass
  <2>2. budget' \in [Budgets -> Nat]
    BY <1>0, <1>11, Spent DEF SetDefaultClass, Budgets
  <2>3. RestOK'
    BY <1>0, <1>11, <2>2 DEF RestOK, SetDefaultClass
  <2> QED
    BY <2>1, <2>3, TypeWhole
<1>12. CASE Crash
  <2>1. HistoryOK'
    BY <1>0, <1>12, Relisted DEF Crash
  <2>2. budget' \in [Budgets -> Nat]
    BY <1>0, <1>12, Spent DEF Crash, Budgets
  <2>3. RestOK'
    BY <1>0, <1>12, <2>2 DEF RestOK, Crash, cluster, outside
  <2> QED
    BY <2>1, <2>3, TypeWhole
<1>13. ASSUME NEW o \in Operands, Evict(o)
       PROVE  TypeOK'
  BY <1>0, <1>13, TypeStop, Spent DEF Evict, Budgets
<1>14. ASSUME NEW s \in Secrets, DeleteByOthers(s)
       PROVE  TypeOK'
  <2>1. HistoryOK'
    BY <1>0, <1>14, Cleared DEF DeleteByOthers
  <2>2. budget' \in [Budgets -> Nat]
    BY <1>0, <1>14, Spent DEF DeleteByOthers, Budgets
  <2>3. RestOK'
    BY <1>0, <1>14, <2>2 DEF RestOK, DeleteByOthers, Note, Upsets
  <2> QED
    BY <2>1, <2>3, TypeWhole
<1> QED
  BY <1>1, <1>2, <1>3, <1>4, <1>5, <1>6, <1>7, <1>8, <1>9, <1>10, <1>11, <1>12, <1>13, <1>14
     DEF Next, Collect

LEMMA TypeInit == Init => TypeOK
<1> SUFFICES ASSUME Init
             PROVE  TypeOK
  OBVIOUS
<1>1. /\ history = << [s \in Secrets |-> NoSecret] >>
      /\ [s \in Secrets |-> NoSecret] \in SecretStates /\ Holds([s \in Secrets |-> NoSecret])
  BY CredentialBounds DEF Init, SecretStates, Holds, NoSecret, Secrets
<1>2. HistoryOK
  BY <1>1, CredentialBounds DEF HistoryOK
<1>3. RestOK
  <2>1. 0 \in 0..MaxUid /\ 1 \in 1..MaxUid /\ 0 \in Nat
    BY CredentialBounds
  <2>2. claim \in [owner : 0..MaxUid, terminating : BOOLEAN]
    BY <2>1, Zenon DEF Init
  <2>3. cr \in [uid : 1..MaxUid, state : {"none", "live", "deleting"}]
    BY <2>1 DEF Init
  <2>4. /\ pod \in [Operands -> [of : 0..MaxUid, pw : Nat]]
        /\ \A o \in Operands : pod[o].of = 0 <=> pod[o].pw = 0
    BY <2>1 DEF Init, NoPod
  <2>5. budget \in [Budgets -> Nat]
    BY CredentialBounds DEF Init, FullBudget, Budgets
  <2>6. data \in Nat /\ dep \in [Operands -> 0..MaxUid]
    BY <2>1 DEF Init
  <2>7. /\ otel \in BOOLEAN /\ storage \in {"emptyDir", "class", "noclass"}
        /\ queued \in BOOLEAN /\ failed \in BOOLEAN /\ upset \subseteq Upsets
        /\ pc \in {"idle", "finalize", "wait"} \cup Phase1 \cup Phase2
    BY DEF Init
  <2> QED
    BY <2>2, <2>3, <2>4, <2>5, <2>6, <2>7 DEF RestOK
<1> QED
  BY <1>2, <1>3 DEF TypeOK, HistoryOK, RestOK, SecretStates, Holds

LEMMA TypeStutter == TypeOK /\ UNCHANGED vars => TypeOK'
BY DEF TypeOK, vars

LEMMA TypeStep == TypeOK /\ [Next]_vars => TypeOK'
BY TypeWorker, TypeOthers, TypeStutter

\* Whatever holds a password holds a generated one, for every number of CRs, faults,
\* crashes, evictions and deletions and every lag of the informer: in particular
\* reconcileOtelCollectorPostgresSecret never writes a string without a password.
THEOREM CredentialTypeCorrect == Spec => []TypeOK
BY TypeInit, TypeStep, PTL DEF Spec

----------------------------------------------------------------------------
(* Nobody is locked out.                                                   *)

\* What the code does not guard against stays on record.
LEMMA Remembered == [Next]_vars => (Guarded' => Guarded)
<1> SUFFICES ASSUME [Next]_vars
             PROVE  upset \subseteq upset'
  BY DEF Guarded
<1>1. CASE Worker
  BY <1>1 DEF Worker, StartReconcile, ReconcileBootstrap, ReconcilePassword, DeleteOld,
     CreatePassword, ReconcileDSN, EndPhase1, ReconcilePVC, ReconcileDeployment, TaskFails,
     DeleteOwned, EndWait, Note, cluster
<1>2. CASE Collect
  BY <1>2 DEF Collect, CollectSecret, CollectDeployment, OrphanPod, Stop, CollectClaim,
     ClaimGone, cluster
<1>3. CASE Next /\ ~Worker /\ ~Collect
  BY <1>3 DEF Next, Deliver, StartPostgres, StartOtel, CreateCR, DeleteCR, SetDefaultClass,
     Crash, Evict, Stop, DeleteByOthers, Note, cluster
<1>4. CASE UNCHANGED vars
  BY <1>4 DEF vars
<1> QED
  BY <1>1, <1>2, <1>3, <1>4

\* A step of a reconciliation: it may clear objects and create objects of the
\* current CR, and leaves the password alone unless there is no database.
LEMMA PassStep ==
    ASSUME CredentialInv, TypeOK', Passing, Passing' \/ pc' = "idle",
           Guarded' => Guarded, UNCHANGED <<cr, storage, data, pod>>,
           \A s \in Secrets : Live'[s].owner \in {0, Live[s].owner, cr.uid},
           claim'.owner \in {claim.owner, cr.uid},
           \A o \in Operands : dep'[o] \in {dep[o], cr.uid},
           Live'["password"] = Live["password"] \/ ~Guarded \/ data = 0
    PROVE  OwnersInv' /\ DataInv' /\ PassInv' /\ CleanInv' /\ SecretInv' /\ NeverLockedOut'
<1>1. /\ TypeOK /\ OwnersInv /\ DataInv /\ PassInv /\ CleanInv /\ SecretInv /\ NeverLockedOut
  BY DEF CredentialInv
<1>2. cr.uid \in Nat \ {0}
  BY <1>1, TypeParts, Values
<1>3. Guarded => Clean
  BY <1>1 DEF CleanInv
<1>4. Clean => Clean'
  BY DEF Clean, Secrets, Operands
<1>5. OwnersInv'
  BY <1>1, <1>2 DEF OwnersInv
<1>6. DataInv'
  BY <1>1, <1>2 DEF DataInv, There
<1>7. PassInv'
  BY <1>1 DEF PassInv, Passing, Phase1, Phase2
<1>8. CleanInv'
  BY <1>3, <1>4 DEF CleanInv
<1>9. SecretInv'
  BY <1>1, <1>3 DEF SecretInv
<1>10. NeverLockedOut'
  BY <1>1 DEF NeverLockedOut, Guarded
<1> QED
  BY <1>5, <1>6, <1>7, <1>8, <1>9, <1>10

\* A step that only removes objects. A database of the current CR that remains shows
\* that the CR has begun, so that nothing of an earlier CR was there to be removed.
LEMMA Removal ==
    ASSUME CredentialInv, TypeOK', UNCHANGED <<cr, storage, pc>>, Guarded' => Guarded,
           \A s \in Secrets : Live'[s].owner \in {0, Live[s].owner},
           claim'.owner \in {0, claim.owner},
           \A o \in Operands : dep'[o] \in {0, dep[o]} /\ pod'[o].of \in {0, pod[o].of},
           data' \in {0, data}, DataInv',
           \/ Live'["password"] = Live["password"]
           \/ /\ Live'["password"] = NoSecret
              /\ ~Guarded' \/ Dead(Live["password"].owner)
    PROVE  OwnersInv' /\ PassInv' /\ CleanInv' /\ SecretInv' /\ NeverLockedOut'
<1>1. /\ TypeOK /\ OwnersInv /\ DataInv /\ PassInv /\ CleanInv /\ SecretInv /\ NeverLockedOut
  BY DEF CredentialInv
<1>2. cr.uid \in Nat \ {0} /\ NoSecret.owner = 0
  BY <1>1, TypeParts, Values
<1>3. Clean => Clean'
  BY DEF Clean, Secrets, Operands
<1>4. Begun' => Begun
  BY <1>2 DEF Begun, Secrets, Operands
<1>5. OwnersInv'
  BY <1>1, <1>2 DEF OwnersInv
<1>6. PassInv'
  BY <1>1 DEF PassInv, Passing
<1>7. CleanInv'
  BY <1>1, <1>3, <1>4 DEF CleanInv, Passing
<1>8. SecretInv'
  <2> SUFFICES ASSUME Guarded', Clean', data' # 0, (cr.state = "live" \/ Passing)'
               PROVE  There(Live'["password"])
    BY DEF SecretInv
  <2>1. cr.state # "none" /\ (cr.state = "live" \/ Passing)
    BY <1>1 DEF PassInv, Passing
  <2>2. pod'["postgres"].of # 0 \/ claim'.owner # 0
    BY DEF DataInv, There
  <2>3. Begun'
    BY <2>2 DEF Begun, Clean, Operands
  <2>4. Clean
    BY <1>1, <1>4, <2>1, <2>3 DEF CleanInv
  <2>5. There(Live["password"])
    BY <1>1, <2>1, <2>4 DEF SecretInv
  <2>6. ~Dead(Live["password"].owner)
    BY <2>1, <2>4 DEF Dead, Clean, Secrets
  <2> QED
    BY <2>5, <2>6
<1>9. NeverLockedOut'
  BY <1>1, <1>2 DEF NeverLockedOut, Guarded, There
<1> QED
  BY <1>5, <1>6, <1>7, <1>8, <1>9

\* What the worker believes of the Secret stays so when only it writes one.
LEMMA BeliefKept ==
    ASSUME BeliefInv, pc' = pc, Guarded' => Guarded,
           ~There(Live["password"]) => ~There(Live'["password"])
    PROVE  BeliefInv'
BY DEF BeliefInv

LEMMA BeliefUnread == pc' \notin {"clean", "create"} => BeliefInv'
BY DEF BeliefInv

\* A Secret that is written or cleared, and the others.
LEMMA Owners ==
    ASSUME HistoryOK, NEW s \in Secrets, NEW x, Live' = [Live EXCEPT ![s] = x]
    PROVE  \A t \in Secrets : Live'[t] = IF t = s THEN x ELSE Live[t]
<1>1. Live \in SecretStates
  BY Ends
<1> QED
  BY <1>1 DEF SecretStates

LEMMA WholeInv ==
    TypeOK' /\ (OwnersInv /\ DataInv /\ PassInv /\ CleanInv /\ SecretInv /\ BeliefInv /\ NeverLockedOut)'
        => CredentialInv'
BY DEF CredentialInv

\* A reconciliation that starts although something is left over puts it on record.
LEMMA StartInv ==
    ASSUME CredentialInv, TypeOK', Guarded' => Guarded, StartReconcile
    PROVE  CredentialInv'
<1>1. /\ TypeOK /\ OwnersInv /\ DataInv /\ PassInv /\ CleanInv /\ SecretInv /\ BeliefInv
      /\ NeverLockedOut
  BY DEF CredentialInv
<1>2. UNCHANGED <<cr, storage, history, claim, data, dep, pod>>
  BY DEF StartReconcile, outside
<1>3. Live' = Live
  BY <1>1, <1>2, TypeParts, Kept
<1>4. OwnersInv' /\ DataInv' /\ NeverLockedOut'
  BY <1>1, <1>2, <1>3 DEF OwnersInv, DataInv, NeverLockedOut, Guarded
<1>5. (Clean' <=> Clean) /\ (Begun' <=> Begun)
  BY <1>2, <1>3 DEF Clean, Begun
<1>6. PassInv'
  BY <1>1, <1>2 DEF PassInv, StartReconcile, Passing, Phase1, Phase2
<1>7. Passing' => cr.state = "live" /\ pc' = "bootstrap"
  BY DEF StartReconcile, Passing, Phase1, Phase2
<1>8. Guarded' /\ cr.state = "live" => Clean
  <2>1. Guarded' /\ cr.state = "live" => ~Leftovers
    BY DEF StartReconcile, Note, Guarded
  <2>2. ASSUME cr.state = "live", NEW u, ~Dead(u)
        PROVE  u \in {0, cr.uid}
    BY <2>2 DEF Dead
  <2> QED
    BY <2>1, <2>2 DEF Leftovers, Clean
<1>9. CleanInv'
  BY <1>1, <1>2, <1>5, <1>7, <1>8 DEF CleanInv
<1>10. SecretInv'
  BY <1>1, <1>2, <1>3, <1>5, <1>7 DEF SecretInv
<1>11. BeliefInv'
  BY <1>7, BeliefUnread DEF StartReconcile
<1> QED
  BY <1>4, <1>6, <1>9, <1>10, <1>11, WholeInv

LEMMA TasksInv ==
    ASSUME CredentialInv, TypeOK', Guarded' => Guarded,
           \/ ReconcileBootstrap \/ ReconcilePassword \/ DeleteOld \/ CreatePassword
           \/ ReconcileDSN \/ EndPhase1 \/ ReconcilePVC
           \/ (\E o \in Operands : ReconcileDeployment(o)) \/ TaskFails
    PROVE  CredentialInv'
<1>1. /\ TypeOK /\ OwnersInv /\ DataInv /\ PassInv /\ CleanInv /\ SecretInv /\ BeliefInv
      /\ NeverLockedOut
  BY DEF CredentialInv
<1>2. HistoryOK /\ RestOK
  BY <1>1, TypeParts
<1>3. /\ Live \in SecretStates /\ Seen = history[1] /\ 1 \in DOMAIN history
  BY <1>2, Ends
<1>4. /\ cr.uid \in 1..MaxUid /\ NoSecret.owner = 0
      /\ \A p \in Nat : [owner |-> cr.uid, pw |-> p] \in [owner : 0..MaxUid, pw : Nat]
  BY <1>2, Values
<1>5. CASE ReconcileBootstrap
  <2>1. Passing /\ Passing' /\ pc = "bootstrap" /\ pc' = "password"
    BY <1>5 DEF ReconcileBootstrap, Passing, Phase1
  <2>2. UNCHANGED <<cr, storage, data, pod, claim, dep>>
    BY <1>5 DEF ReconcileBootstrap, cluster, outside
  <2>3. CASE history' = history
    <3>1. Live' = Live
      BY <1>2, <2>3, Kept
    <3>2. OwnersInv' /\ DataInv' /\ PassInv' /\ CleanInv' /\ SecretInv' /\ NeverLockedOut'
      BY <2>1, <2>2, <3>1, PassStep
    <3>3. BeliefInv'
      BY <2>1, BeliefUnread
    <3> QED
      BY <3>2, <3>3, WholeInv
  <2>4. CASE Write("bootstrap", [owner |-> cr.uid, pw |-> 0])
    <3> DEFINE x == [owner |-> cr.uid, pw |-> 0]
    <3>1. x.owner = cr.uid /\ x.pw = 0 /\ x \in [owner : 0..MaxUid, pw : Nat]
      BY <1>4
    <3> HIDE DEF x
    <3>2. Live' = [Live EXCEPT !["bootstrap"] = x]
      BY <1>2, <2>4, <3>1, Written DEF x, Secrets
    <3>3. \A t \in Secrets : Live'[t] = IF t = "bootstrap" THEN x ELSE Live[t]
      BY <1>2, <3>2, Owners DEF Secrets
    <3>4. /\ \A s \in Secrets : Live'[s].owner \in {0, Live[s].owner, cr.uid}
          /\ Live'["password"] = Live["password"]
      BY <3>1, <3>3 DEF Secrets
    <3>5. OwnersInv' /\ DataInv' /\ PassInv' /\ CleanInv' /\ SecretInv' /\ NeverLockedOut'
      BY <2>1, <2>2, <3>4, PassStep
    <3>6. BeliefInv'
      BY <2>1, BeliefUnread
    <3> QED
      BY <3>5, <3>6, WholeInv
  <2> QED
    BY <1>5, <2>3, <2>4 DEF ReconcileBootstrap
<1>6. CASE ReconcilePassword
  <2>1. Passing /\ Passing' /\ pc = "password" /\ pc' \in {"clean", "dsn", "end"}
    BY <1>6 DEF ReconcilePassword, AfterPassword, Passing, Phase1
  <2>2. UNCHANGED <<cr, storage, data, pod, claim, dep, history>>
    BY <1>6 DEF ReconcilePassword, cluster, outside
  <2>3. Live' = Live
    BY <1>2, <2>2, Kept
  <2>4. OwnersInv' /\ DataInv' /\ PassInv' /\ CleanInv' /\ SecretInv' /\ NeverLockedOut'
    BY <2>1, <2>2, <2>3, PassStep
  <2>5. pc' = "clean" /\ Guarded' => ~There(Live["password"])
    BY <1>6 DEF ReconcilePassword, AfterPassword, Note, Guarded
  <2>6. BeliefInv'
    BY <2>1, <2>3, <2>5 DEF BeliefInv
  <2> QED
    BY <2>4, <2>6, WholeInv
<1>7. CASE DeleteOld
  <2>1. Passing /\ Passing' /\ pc = "clean" /\ pc' \in {"clean", "create"}
    BY <1>7 DEF DeleteOld, Passing, Phase1
  <2>2. UNCHANGED <<cr, storage, data, pod, claim, dep>>
    BY <1>7 DEF DeleteOld, cluster, outside
  <2>3. CASE history' = history
    <3>1. Live' = Live
      BY <1>2, <2>3, Kept
    <3>2. OwnersInv' /\ DataInv' /\ PassInv' /\ CleanInv' /\ SecretInv' /\ NeverLockedOut'
      BY <2>1, <2>2, <3>1, PassStep
    <3>3. BeliefInv'
      BY <1>1, <2>1, <2>2, <3>1 DEF BeliefInv
    <3> QED
      BY <3>2, <3>3, WholeInv
  <2>4. ASSUME NEW s \in OldSecrets, There(Live[s]), Write(s, NoSecret)
        PROVE  CredentialInv'
    <3>1. s \in Secrets
      BY DEF OldSecrets, Secrets
    <3>2. Live' = [Live EXCEPT ![s] = NoSecret]
      BY <1>2, <2>4, <3>1, Cleared
    <3>3. \A t \in Secrets : Live'[t] = IF t = s THEN NoSecret ELSE Live[t]
      BY <1>2, <3>1, <3>2, Owners
    <3>4. Guarded => s # "password"
      BY <1>1, <2>1, <2>4 DEF BeliefInv
    <3>5. /\ \A t \in Secrets : Live'[t].owner \in {0, Live[t].owner, cr.uid}
          /\ Live'["password"] = Live["password"] \/ ~Guarded
      BY <1>4, <3>3, <3>4 DEF Secrets
    <3>6. OwnersInv' /\ DataInv' /\ PassInv' /\ CleanInv' /\ SecretInv' /\ NeverLockedOut'
      BY <2>1, <2>2, <3>5, PassStep
    <3>7. BeliefInv'
      BY <1>1, <2>1, <2>2, <3>5 DEF BeliefInv
    <3> QED
      BY <3>6, <3>7, WholeInv
  <2> QED
    BY <1>7, <2>3, <2>4 DEF DeleteOld
<1>8. CASE CreatePassword
  <2>1. Passing /\ Passing' /\ pc = "create" /\ pc' \in {"dsn", "end"}
    BY <1>8 DEF CreatePassword, AfterPassword, Passing, Phase1
  <2>2. UNCHANGED <<cr, storage, data, pod, claim, dep>>
    BY <1>8 DEF CreatePassword, cluster, outside
  <2> DEFINE x == [owner |-> cr.uid, pw |-> RandomPassword]
  <2>3. RandomPassword \in Nat \ {0}
    BY <1>1, Generated
  <2>4. x \in [owner : 0..MaxUid, pw : Nat] /\ x.owner = cr.uid /\ x.owner # 0 /\ x.pw # 0
    BY <1>4, <2>3
  <2>5. Write("password", x)
    BY <1>8 DEF CreatePassword
  <2> HIDE DEF x
  <2>6. Live' = [Live EXCEPT !["password"] = x]
    BY <1>2, <2>4, <2>5, Written DEF Secrets
  <2>7. \A t \in Secrets : Live'[t] = IF t = "password" THEN x ELSE Live[t]
    BY <1>2, <2>6, Owners DEF Secrets
  <2>8. ~Guarded \/ data = 0
    <3>1. Guarded => Clean
      BY <1>1, <2>1 DEF CleanInv
    <3>2. Guarded => ~There(Live["password"])
      BY <1>1, <2>1 DEF BeliefInv
    <3> QED
      BY <1>1, <2>1, <3>1, <3>2 DEF SecretInv
  <2>9. \A s \in Secrets : Live'[s].owner \in {0, Live[s].owner, cr.uid}
    BY <2>4, <2>7
  <2>10. OwnersInv' /\ DataInv' /\ PassInv' /\ CleanInv' /\ SecretInv' /\ NeverLockedOut'
    BY <2>1, <2>2, <2>8, <2>9, PassStep
  <2>11. BeliefInv'
    BY <2>1, BeliefUnread
  <2> QED
    BY <2>10, <2>11, WholeInv
<1>9. CASE ReconcileDSN
  <2>1. Passing /\ Passing' /\ pc' = "end"
    BY <1>9 DEF ReconcileDSN, Passing, Phase1
  <2>2. UNCHANGED <<cr, storage, data, pod, claim, dep>>
    BY <1>9 DEF ReconcileDSN, cluster, outside
  <2>3. BeliefInv'
    BY <2>1, BeliefUnread
  <2>4. /\ \A s \in Secrets : Live'[s].owner \in {0, Live[s].owner, cr.uid}
        /\ Live'["password"] = Live["password"]
    <3>1. CASE history' = history
      BY <1>2, <3>1, Kept
    <3>2. CASE history' # history
      <4> DEFINE x == [owner |-> IF There(Seen["dsn"]) THEN Seen["dsn"].owner ELSE cr.uid,
                       pw |-> Seen["password"].pw]
      <4>1. /\ Write("dsn", x) /\ There(Seen["password"])
            /\ Seen["dsn"] = Live["dsn"]
        BY <1>9, <3>2 DEF ReconcileDSN, PostgresConnectionString
      <4>2. Seen["password"].pw \in Nat \ {0} /\ Seen["dsn"].owner \in 0..MaxUid
        BY <1>2, <4>1, Ends DEF SecretStates, Holds, Secrets, There
      <4>3. /\ x \in [owner : 0..MaxUid, pw : Nat] /\ x.owner # 0 /\ x.pw # 0
            /\ x.owner \in {Live["dsn"].owner, cr.uid}
        BY <1>4, <4>1, <4>2, CredentialBounds DEF There
      <4> HIDE DEF x
      <4>4. Live' = [Live EXCEPT !["dsn"] = x]
        BY <1>2, <4>1, <4>3, Written DEF Secrets
      <4>5. \A t \in Secrets : Live'[t] = IF t = "dsn" THEN x ELSE Live[t]
        BY <1>2, <4>4, Owners DEF Secrets
      <4> QED
        BY <4>3, <4>5 DEF Secrets
    <3> QED
      BY <3>1, <3>2
  <2>5. OwnersInv' /\ DataInv' /\ PassInv' /\ CleanInv' /\ SecretInv' /\ NeverLockedOut'
    BY <2>1, <2>2, <2>4, PassStep
  <2> QED
    BY <2>3, <2>5, WholeInv
<1>10. ASSUME Passing, Passing' \/ pc' = "idle", pc' \notin {"clean", "create"},
              UNCHANGED <<cr, storage, data, pod, history>>,
              claim'.owner \in {claim.owner, cr.uid},
              \A o \in Operands : dep'[o] \in {dep[o], cr.uid}
       PROVE  CredentialInv'
  <2>1. Live' = Live
    BY <1>2, <1>10, Kept
  <2>2. OwnersInv' /\ DataInv' /\ PassInv' /\ CleanInv' /\ SecretInv' /\ NeverLockedOut'
    BY <1>10, <2>1, PassStep
  <2>3. BeliefInv'
    BY <1>10, BeliefUnread
  <2> QED
    BY <2>2, <2>3, WholeInv
<1>11. CASE EndPhase1
  BY <1>10, <1>11 DEF EndPhase1, cluster, outside, Passing, Phase1, Phase2
<1>12. CASE ReconcilePVC
  <2>1. claim'.owner \in {claim.owner, cr.uid}
    BY <1>12 DEF ReconcilePVC
  <2>2. Passing /\ pc' \in {"postgres", "idle"}
    BY <1>12 DEF ReconcilePVC, Abort, Passing, Phase2
  <2> QED
    BY <1>10, <1>12, <2>1, <2>2 DEF ReconcilePVC, cluster, outside, Passing, Phase2
<1>13. ASSUME NEW o \in Operands, ReconcileDeployment(o)
       PROVE  CredentialInv'
  <2>1. \A q \in Operands : dep'[q] \in {dep[q], cr.uid}
    BY <1>2, <1>13 DEF ReconcileDeployment, RestOK
  <2>2. Passing /\ pc' \in {"otel", "idle"}
    BY <1>13 DEF ReconcileDeployment, Passing, Phase2, Operands
  <2>3. UNCHANGED <<cr, storage, data, pod, history, claim>>
    BY <1>13 DEF ReconcileDeployment, cluster, outside
  <2> QED
    BY <1>10, <2>1, <2>2, <2>3 DEF Passing, Phase2
<1>14. CASE TaskFails
  <2>1. Passing /\ pc' \in {"password", "dsn", "end", "idle"}
    BY <1>14 DEF TaskFails, AfterPassword, Abort, Passing, Phase1, Phase2
  <2>2. UNCHANGED <<cr, storage, data, pod, history, claim, dep>>
    BY <1>14 DEF TaskFails, cluster, outside
  <2> QED
    BY <1>10, <2>1, <2>2 DEF Passing, Phase1
<1> QED
  BY <1>5, <1>6, <1>7, <1>8, <1>9, <1>11, <1>12, <1>13, <1>14

LEMMA FinalizeInv ==
    ASSUME CredentialInv, TypeOK', Guarded' => Guarded, DeleteOwned \/ EndWait
    PROVE  CredentialInv'
<1>1. /\ TypeOK /\ OwnersInv /\ DataInv /\ PassInv /\ CleanInv /\ SecretInv /\ BeliefInv
      /\ NeverLockedOut
  BY DEF CredentialInv
<1>2. HistoryOK /\ RestOK
  BY <1>1, TypeParts
<1>3. cr.uid \in Nat \ {0} /\ NoSecret.owner = 0 /\ NoSecret \in [owner : 0..MaxUid, pw : Nat] /\ NoSecret.pw = 0
  BY <1>2, Values
<1>4. Live \in SecretStates /\ Holds(Live)
  BY <1>2, Ends
<1>5. CASE DeleteOwned
  <2>1. PICK kept :
           /\ Len(history) < MaxLag
           /\ history' = Append(history,
                 [s \in Secrets |-> IF s \in ListedSecrets \ kept THEN NoSecret ELSE Live[s]])
           /\ claim' = [claim EXCEPT !.terminating =
                           @ \/ (claim.owner = cr.uid /\ "claim" \notin kept)]
           /\ dep' = [o \in Operands |-> IF dep[o] = cr.uid /\ o \notin kept THEN 0 ELSE dep[o]]
    BY <1>5 DEF DeleteOwned
  <2>2. UNCHANGED <<cr, storage, data, pod>> /\ pc = "finalize" /\ pc' = "wait"
    BY <1>5 DEF DeleteOwned, cluster, outside
  <2>3. \A s \in Secrets : Live'[s] \in {NoSecret, Live[s]}
    <3> DEFINE h == [s \in Secrets |-> IF s \in ListedSecrets \ kept THEN NoSecret ELSE Live[s]]
    <3>1. h \in SecretStates
      BY <1>3, <1>4 DEF SecretStates
    <3>2. Holds(h)
      BY <1>3, <1>4 DEF Holds, Secrets
    <3>3. \A s \in Secrets : h[s] \in {NoSecret, Live[s]}
      OBVIOUS
    <3>4. Len(history) < MaxLag /\ history' = Append(history, h)
      BY <2>1
    <3> HIDE DEF h
    <3>5. Live' = h
      BY <1>2, <3>1, <3>2, <3>4, Appended
    <3> QED
      BY <3>3, <3>5
  <2>4. claim'.owner = claim.owner /\ \A o \in Operands : dep'[o] \in {0, dep[o]}
    BY <1>2, <2>1 DEF RestOK
  <2>5. Clean => Clean'
    BY <1>3, <2>2, <2>3, <2>4 DEF Clean, Secrets, Operands
  <2>6. Begun' => Begun
    BY <1>3, <2>2, <2>3, <2>4 DEF Begun, Secrets, Operands
  <2>7. OwnersInv'
    BY <1>1, <1>3, <2>2, <2>3, <2>4 DEF OwnersInv
  <2>8. DataInv'
    BY <1>1, <2>2, <2>4 DEF DataInv, There
  <2>9. cr.state = "deleting" /\ ~Passing'
    BY <1>1, <2>2 DEF PassInv, Passing, Phase1, Phase2
  <2>10. PassInv' /\ CleanInv' /\ SecretInv'
    BY <1>1, <2>2, <2>5, <2>6, <2>9 DEF PassInv, CleanInv, SecretInv
  <2>11. BeliefInv'
    BY <2>2, BeliefUnread
  <2>12. NeverLockedOut'
    BY <1>1, <1>3, <2>2, <2>3 DEF NeverLockedOut, Guarded, There, Secrets
  <2> QED
    BY <2>7, <2>8, <2>10, <2>11, <2>12, WholeInv
<1>6. CASE EndWait
  <2>1. UNCHANGED <<storage, history, claim, data, dep, pod>> /\ pc' = "idle"
    BY <1>6 DEF EndWait
  <2>2. cr'.uid = cr.uid /\ cr'.state = "none"
    BY <1>2, <1>6 DEF EndWait, RestOK
  <2>3. Live' = Live
    BY <1>2, <2>1, Kept
  <2>4. ~Passing'
    BY <2>1 DEF Passing, Phase1, Phase2
  <2>5. OwnersInv' /\ DataInv' /\ NeverLockedOut'
    BY <1>1, <2>1, <2>2, <2>3 DEF OwnersInv, DataInv, NeverLockedOut, Guarded
  <2>6. PassInv' /\ CleanInv' /\ SecretInv'
    BY <2>1, <2>2, <2>4 DEF PassInv, CleanInv, SecretInv
  <2>7. BeliefInv'
    BY <2>1, BeliefUnread
  <2> QED
    BY <2>5, <2>6, <2>7, WholeInv
<1> QED
  BY <1>5, <1>6

\* A new CR finds no database: whatever holds one belongs to an earlier CR, so the
\* cluster is not clean.
LEMMA CRInv ==
    ASSUME CredentialInv, TypeOK', Guarded' => Guarded, CreateCR \/ DeleteCR
    PROVE  CredentialInv'
<1>1. /\ TypeOK /\ OwnersInv /\ DataInv /\ PassInv /\ CleanInv /\ SecretInv /\ BeliefInv
      /\ NeverLockedOut
  BY DEF CredentialInv
<1>2. HistoryOK /\ RestOK
  BY <1>1, TypeParts
<1>3. UNCHANGED <<storage, history, claim, data, dep, pod, pc>>
  BY DEF CreateCR, DeleteCR
<1>4. Live' = Live /\ Live \in SecretStates
  BY <1>2, <1>3, Kept, Ends
<1>5. DataInv' /\ NeverLockedOut'
  BY <1>1, <1>3, <1>4 DEF DataInv, NeverLockedOut, Guarded
<1>6. BeliefInv'
  BY <1>1, <1>3, <1>4 DEF BeliefInv
<1>7. CASE CreateCR
  <2>1. cr.state = "none" /\ cr'.uid = cr.uid + 1 /\ cr'.state = "live" /\ cr.uid \in Nat \ {0}
    BY <1>2, <1>7, Values DEF CreateCR
  <2>2. pc = "idle" /\ ~Passing'
    BY <1>1, <1>2, <1>3, <2>1 DEF PassInv, RestOK, Passing, Phase1, Phase2
  <2>3. /\ \A s \in Secrets : Live[s].owner \in Nat
        /\ claim.owner \in Nat
        /\ \A o \in Operands : dep[o] \in Nat /\ pod[o].of \in Nat
    BY <1>2, <1>4, CredentialBounds DEF SecretStates, RestOK
  <2>4. OwnersInv'
    BY <1>1, <1>3, <1>4, <2>1, <2>3 DEF OwnersInv
  <2>5. ~Begun'
    BY <1>1, <1>3, <1>4, <2>1, <2>3 DEF OwnersInv, Begun, Secrets, Operands
  <2>6. PassInv' /\ CleanInv'
    BY <1>3, <2>2, <2>5 DEF PassInv, CleanInv
  <2>7. Clean' => data' = 0
    <3>1. data # 0 => pod["postgres"].of # 0 \/ claim.owner # 0
      BY <1>1 DEF DataInv, There
    <3>2. pod["postgres"].of # cr.uid + 1 /\ claim.owner # cr.uid + 1
      BY <1>1, <2>1, <2>3 DEF OwnersInv, Operands
    <3> QED
      BY <1>3, <2>1, <3>1, <3>2 DEF Clean, Operands
  <2>8. SecretInv'
    BY <2>7 DEF SecretInv
  <2> QED
    BY <1>5, <1>6, <2>4, <2>6, <2>8, WholeInv
<1>8. CASE DeleteCR
  <2>1. cr.state = "live" /\ cr'.uid = cr.uid /\ cr'.state = "deleting"
    BY <1>2, <1>8 DEF DeleteCR, RestOK
  <2>2. (Clean' <=> Clean) /\ (Begun' <=> Begun) /\ (Passing' <=> Passing)
    BY <1>3, <1>4, <2>1 DEF Clean, Begun, Passing
  <2>3. OwnersInv'
    BY <1>1, <1>3, <1>4, <2>1 DEF OwnersInv
  <2>4. PassInv' /\ CleanInv'
    BY <1>1, <1>3, <2>1, <2>2 DEF PassInv, CleanInv
  <2>5. SecretInv'
    BY <1>1, <1>3, <1>4, <2>1, <2>2 DEF SecretInv
  <2> QED
    BY <1>5, <1>6, <2>3, <2>4, <2>5, WholeInv
<1> QED
  BY <1>7, <1>8

LEMMA RemovalInv ==
    ASSUME CredentialInv, TypeOK', Guarded' => Guarded,
           \/ Deliver \/ CollectClaim \/ ClaimGone
           \/ \E s \in Secrets : CollectSecret(s) \/ DeleteByOthers(s)
           \/ \E o \in Operands : CollectDeployment(o) \/ OrphanPod(o) \/ Evict(o)
    PROVE  CredentialInv'
<1>1. /\ TypeOK /\ OwnersInv /\ DataInv /\ PassInv /\ CleanInv /\ SecretInv /\ BeliefInv
      /\ NeverLockedOut
  BY DEF CredentialInv
<1>2. HistoryOK /\ RestOK
  BY <1>1, TypeParts
<1>3. NoSecret.owner = 0 /\ NoPod.of = 0
  BY <1>2, Values
<1>4. CASE Deliver
  <2>1. UNCHANGED <<cr, storage, claim, data, dep, pod, pc>>
    BY <1>4 DEF Deliver, cluster, outside
  <2>2. Live' = Live
    BY <1>2, <1>4, Delivered DEF Deliver
  <2>3. DataInv'
    BY <1>1, <2>1 DEF DataInv
  <2>4. OwnersInv' /\ PassInv' /\ CleanInv' /\ SecretInv' /\ NeverLockedOut'
    BY <2>1, <2>2, <2>3, Removal
  <2>5. BeliefInv'
    BY <1>1, <2>1, <2>2, BeliefKept
  <2> QED
    BY <2>3, <2>4, <2>5, WholeInv
<1>5. ASSUME UNCHANGED <<cr, storage, history, pc>>,
             claim'.owner \in {0, claim.owner},
             \A o \in Operands : dep'[o] \in {0, dep[o]} /\ pod'[o].of \in {0, pod[o].of},
             data' \in {0, data}, DataInv'
      PROVE  CredentialInv'
  <2>1. Live' = Live
    BY <1>2, <1>5, Kept
  <2>2. OwnersInv' /\ PassInv' /\ CleanInv' /\ SecretInv' /\ NeverLockedOut'
    BY <1>5, <2>1, Removal
  <2>3. BeliefInv'
    BY <1>1, <1>5, <2>1, BeliefKept
  <2> QED
    BY <1>5, <2>2, <2>3, WholeInv
<1>6. CASE CollectClaim
  <2>1. claim'.owner = claim.owner
    BY <1>2, <1>6 DEF CollectClaim, RestOK
  <2>2. UNCHANGED <<cr, storage, history, data, dep, pod, pc>>
    BY <1>6 DEF CollectClaim, cluster, outside
  <2>3. DataInv'
    BY <1>1, <2>1, <2>2 DEF DataInv, There
  <2> QED
    BY <1>5, <2>1, <2>2, <2>3
<1>7. CASE ClaimGone
  <2>1. claim'.owner = 0 /\ data' = 0
    BY <1>7 DEF ClaimGone
  <2>2. UNCHANGED <<cr, storage, history, dep, pod, pc>>
    BY <1>7 DEF ClaimGone
  <2>3. DataInv'
    BY <2>1 DEF DataInv
  <2> QED
    BY <1>5, <2>1, <2>2, <2>3
<1>8. ASSUME NEW o \in Operands, CollectDeployment(o)
      PROVE  CredentialInv'
  <2>1. \A q \in Operands : dep'[q] \in {0, dep[q]}
    BY <1>2, <1>8 DEF CollectDeployment, RestOK
  <2>2. UNCHANGED <<cr, storage, history, claim, data, pod, pc>>
    BY <1>8 DEF CollectDeployment, cluster, outside
  <2>3. DataInv'
    BY <1>1, <2>2 DEF DataInv
  <2> QED
    BY <1>5, <2>1, <2>2, <2>3
<1>9. ASSUME NEW o \in Operands, Stop(o)
      PROVE  CredentialInv'
  <2>1. \A q \in Operands : pod'[q] = IF q = o THEN NoPod ELSE pod[q]
    BY <1>2, <1>9 DEF Stop, RestOK
  <2>2. UNCHANGED <<cr, storage, history, claim, dep, pc>>
    BY <1>9 DEF Stop
  <2>3. data' = IF o = "postgres" /\ storage = "emptyDir" THEN 0 ELSE data
    BY <1>9 DEF Stop
  <2>4. DataInv'
    BY <1>1, <2>1, <2>2, <2>3 DEF DataInv, Operands
  <2> QED
    BY <1>3, <1>5, <2>1, <2>2, <2>3, <2>4
<1>10. ASSUME NEW o \in Operands, OrphanPod(o) \/ Evict(o)
       PROVE  CredentialInv'
  BY <1>9, <1>10 DEF OrphanPod, Evict
<1>11. ASSUME NEW s \in Secrets, CollectSecret(s) \/ DeleteByOthers(s)
       PROVE  CredentialInv'
  <2>1. UNCHANGED <<cr, storage, claim, data, dep, pod, pc>>
    BY <1>11 DEF CollectSecret, DeleteByOthers, cluster, outside
  <2>2. Live' = [Live EXCEPT ![s] = NoSecret]
    BY <1>2, <1>11, Cleared DEF CollectSecret, DeleteByOthers
  <2>3. \A t \in Secrets : Live'[t] = IF t = s THEN NoSecret ELSE Live[t]
    BY <1>2, <2>2, Owners
  <2>4. s = "password" => ~Guarded' \/ Dead(Live["password"].owner)
    BY <1>11 DEF CollectSecret, DeleteByOthers, Note, Guarded
  <2>5. DataInv'
    BY <1>1, <2>1 DEF DataInv
  <2>6. /\ \A t \in Secrets : Live'[t].owner \in {0, Live[t].owner}
        /\ \/ Live'["password"] = Live["password"]
           \/ Live'["password"] = NoSecret /\ (~Guarded' \/ Dead(Live["password"].owner))
    BY <1>3, <2>3, <2>4 DEF Secrets
  <2>7. OwnersInv' /\ PassInv' /\ CleanInv' /\ SecretInv' /\ NeverLockedOut'
    BY <2>1, <2>5, <2>6, Removal
  <2>8. BeliefInv'
    BY <1>1, <1>3, <2>1, <2>6, BeliefKept DEF There
  <2> QED
    BY <2>5, <2>7, <2>8, WholeInv
<1> QED
  BY <1>4, <1>6, <1>7, <1>8, <1>10, <1>11

\* The kubelet, the administrator, and a crash of the operator.
LEMMA ClusterInv ==
    ASSUME CredentialInv, TypeOK', Guarded' => Guarded,
           StartPostgres \/ StartOtel \/ SetDefaultClass \/ Crash
    PROVE  CredentialInv'
<1>1. /\ TypeOK /\ OwnersInv /\ DataInv /\ PassInv /\ CleanInv /\ SecretInv /\ BeliefInv
      /\ NeverLockedOut
  BY DEF CredentialInv
<1>2. HistoryOK /\ RestOK
  BY <1>1, TypeParts
<1>3. ASSUME UNCHANGED <<cr, storage, history, claim, dep, pc>>,
             NEW o \in Operands,
             \A q \in Operands : pod'[q].of = IF q = o THEN dep[o] ELSE pod[q].of
      PROVE  Live' = Live /\ OwnersInv' /\ PassInv' /\ CleanInv' /\ BeliefInv'
  <2>1. Live' = Live
    BY <1>2, <1>3, Kept
  <2>2. OwnersInv'
    BY <1>1, <1>3, <2>1 DEF OwnersInv
  <2>3. PassInv' /\ BeliefInv'
    BY <1>1, <1>3, <2>1 DEF PassInv, BeliefInv, Passing
  <2>4. Clean => Clean'
    BY <1>3, <2>1 DEF Clean, Operands
  <2>5. Begun' => Begun
    BY <1>3, <2>1 DEF Begun, Operands
  <2>6. CleanInv'
    BY <1>1, <1>3, <2>4, <2>5 DEF CleanInv, Passing
  <2> QED
    BY <2>1, <2>2, <2>3, <2>6
<1>4. CASE StartPostgres
  <2>1. UNCHANGED <<cr, storage, history, claim, dep, pc>>
    BY <1>4 DEF StartPostgres
  <2>2. /\ \A q \in Operands : pod'[q].of = IF q = "postgres" THEN dep["postgres"] ELSE pod[q].of
        /\ dep["postgres"] # 0 /\ There(Live["password"])
    BY <1>2, <1>4 DEF StartPostgres, RestOK, Operands
  <2>3. data' = IF data = 0 THEN Live["password"].pw ELSE data
    BY <1>4 DEF StartPostgres
  <2>4. Live' = Live /\ OwnersInv' /\ PassInv' /\ CleanInv' /\ BeliefInv'
    BY <1>3, <2>1, <2>2 DEF Operands
  <2>5. DataInv'
    BY <1>4, <2>1, <2>2 DEF StartPostgres, DataInv, Operands
  <2>6. SecretInv'
    BY <2>2, <2>4 DEF SecretInv
  <2>7. NeverLockedOut'
    BY <1>1, <2>1, <2>3, <2>4 DEF NeverLockedOut, Guarded
  <2> QED
    BY <2>4, <2>5, <2>6, <2>7, WholeInv
<1>5. CASE StartOtel
  <2>1. UNCHANGED <<cr, storage, history, claim, dep, pc, data>>
    BY <1>5 DEF StartOtel
  <2>2. \A q \in Operands : pod'[q].of = IF q = "otel" THEN dep["otel"] ELSE pod[q].of
    BY <1>2, <1>5 DEF StartOtel, RestOK
  <2>3. Live' = Live /\ OwnersInv' /\ PassInv' /\ CleanInv' /\ BeliefInv'
    BY <1>3, <2>1, <2>2 DEF Operands
  <2>4. DataInv' /\ NeverLockedOut'
    BY <1>1, <2>1, <2>2, <2>3 DEF DataInv, NeverLockedOut, Guarded, Operands
  <2>5. SecretInv'
    <3>1. Clean' => Clean
      BY <2>1, <2>2, <2>3 DEF Clean, Operands
    <3> QED
      BY <1>1, <2>1, <2>3, <3>1 DEF SecretInv, Passing
  <2> QED
    BY <2>3, <2>4, <2>5, WholeInv
<1>6. CASE SetDefaultClass
  <2>1. /\ UNCHANGED <<cr, history, claim, data, dep, pod, pc>>
        /\ storage # "emptyDir" /\ storage' # "emptyDir"
    BY <1>6 DEF SetDefaultClass
  <2>2. Live' = Live
    BY <1>2, <2>1, Kept
  <2>3. (Clean' <=> Clean) /\ (Begun' <=> Begun) /\ (Passing' <=> Passing)
    BY <2>1, <2>2 DEF Clean, Begun, Passing
  <2>4. OwnersInv' /\ DataInv' /\ NeverLockedOut'
    BY <1>1, <2>1, <2>2 DEF OwnersInv, DataInv, NeverLockedOut, Guarded
  <2>5. PassInv' /\ CleanInv' /\ SecretInv' /\ BeliefInv'
    BY <1>1, <2>1, <2>2, <2>3 DEF PassInv, CleanInv, SecretInv, BeliefInv
  <2> QED
    BY <2>4, <2>5, WholeInv
<1>7. CASE Crash
  <2>1. UNCHANGED <<cr, storage, claim, data, dep, pod>> /\ pc' = "idle"
    BY <1>7 DEF Crash, cluster, outside
  <2>2. Live' = Live
    BY <1>2, <1>7, Relisted DEF Crash
  <2>3. (Clean' <=> Clean) /\ (Begun' <=> Begun) /\ ~Passing'
    BY <2>1, <2>2 DEF Clean, Begun, Passing, Phase1, Phase2
  <2>4. OwnersInv' /\ DataInv' /\ NeverLockedOut'
    BY <1>1, <2>1, <2>2 DEF OwnersInv, DataInv, NeverLockedOut, Guarded
  <2>5. PassInv' /\ CleanInv' /\ SecretInv'
    BY <1>1, <2>1, <2>2, <2>3 DEF PassInv, CleanInv, SecretInv
  <2>6. BeliefInv'
    BY <2>1, BeliefUnread
  <2> QED
    BY <2>4, <2>5, <2>6, WholeInv
<1> QED
  BY <1>4, <1>5, <1>6, <1>7

LEMMA CredentialInit == Init => CredentialInv
<1> SUFFICES ASSUME Init
             PROVE  CredentialInv
  OBVIOUS
<1>1. TypeOK /\ HistoryOK
  BY TypeInit, TypeParts
<1>2. /\ cr.uid = 1 /\ cr.state = "live" /\ pc = "idle" /\ data = 0 /\ claim.owner = 0
      /\ \A o \in Operands : dep[o] = 0 /\ pod[o].of = 0
  BY DEF Init, NoPod
<1>3. \A s \in Secrets : Live[s].owner = 0
  BY DEF Init, Live, NoSecret
<1>4. OwnersInv /\ DataInv /\ Clean
  BY <1>2, <1>3 DEF OwnersInv, DataInv, Clean, Secrets, Operands
<1>5. PassInv /\ CleanInv /\ SecretInv /\ BeliefInv /\ NeverLockedOut
  BY <1>2, <1>4 DEF PassInv, Passing, Phase1, Phase2, CleanInv, SecretInv, BeliefInv, NeverLockedOut, Guarded
<1> QED
  BY <1>1, <1>4, <1>5 DEF CredentialInv

LEMMA CredentialStutter == CredentialInv /\ UNCHANGED vars => CredentialInv'
<1> SUFFICES ASSUME CredentialInv, UNCHANGED vars
             PROVE  CredentialInv'
  OBVIOUS
<1>1. TypeOK'
  BY TypeStutter DEF CredentialInv
<1>2. UNCHANGED <<cr, storage, history, claim, data, dep, pod, pc, upset>>
  BY DEF vars
<1>3. Live' = Live
  BY <1>2, TypeParts, Kept DEF CredentialInv
<1> QED
  BY <1>1, <1>2, <1>3 DEF CredentialInv, OwnersInv, DataInv, PassInv, CleanInv, SecretInv,
     BeliefInv, NeverLockedOut, Guarded, Clean, Begun, Passing

LEMMA CredentialStep == CredentialInv /\ [Next]_vars => CredentialInv'
<1> SUFFICES ASSUME CredentialInv, [Next]_vars
             PROVE  CredentialInv'
  OBVIOUS
<1>1. TypeOK' /\ (Guarded' => Guarded)
  BY TypeStep, Remembered DEF CredentialInv
<1>2. CASE Worker
  BY <1>1, <1>2, StartInv, TasksInv, FinalizeInv DEF Worker
<1>3. CASE Next /\ ~Worker
  BY <1>1, <1>3, RemovalInv, ClusterInv, CRInv DEF Next, Collect
<1> QED
  BY <1>2, <1>3, CredentialStutter

\* No pass, failure, crash, eviction, lag or recreation of the CR pairs a new password
\* with a database that has one, for every value of the bounds, up to the first time
\* that somebody else deletes the Secret, that the worker misses one that is there, or
\* that a reconciliation begins before the database of an earlier CR is gone:
\* reconcilePostgresSecret checks for none of the three.
THEOREM NotLockedOut == Spec => []NeverLockedOut
<1>1. CredentialInv => NeverLockedOut
  BY DEF CredentialInv
<1> QED
  BY <1>1, CredentialInit, CredentialStep, PTL DEF Spec

=============================================================================
