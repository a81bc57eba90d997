------------------------- MODULE ConsolePlugin_proofs -------------------------
(***************************************************************************)
(* The operator leaves the other entries of the shared Console alone, for  *)
(* any number of edits, conflicts, faults and crashes.                     *)
(***************************************************************************)
EXTENDS ConsolePlugin, TLAPS

LEMMA NoCopyTyped == NoCopy \in Console
BY DEF NoCopy, Console

\* A write of the Console's list.
LEMMA ListWritten ==
    ASSUME NEW c \in Console, NEW S \in SUBSET (Plugins \cup Others)
    PROVE  LET d == [c EXCEPT !.rv = @ + 1, !.plugins = S]
           IN  d \in Console /\ d.rv = c.rv + 1 /\ d.plugins = S
<1> DEFINE d == [c EXCEPT !.rv = @ + 1, !.plugins = S]
<1>1. c.rv \in Nat
  BY DEF Console
<1>2. d.rv = c.rv + 1 /\ d.plugins = S
  BY DEF Console
<1>3. d \in Console
  <2> DEFINE e == [c EXCEPT !.rv = c.rv + 1]
  <2>1. e \in Console
    BY <1>1 DEF Console
  <2>2. d = [e EXCEPT !.plugins = S]
    OBVIOUS
  <2> HIDE DEF e
  <2> QED
    BY <2>1, <2>2 DEF Console
<1> QED
  BY <1>2, <1>3

\* An edit by somebody else is such a write.
LEMMA EditIsWrite ==
    ASSUME TypeOK, NEW p \in Plugins \cup Others, EditConsole(p)
    PROVE  console' \in Console /\ console'.rv = console.rv + 1
<1>1. console \in Console /\ console.plugins \in SUBSET (Plugins \cup Others)
  BY DEF TypeOK, Console
<1> DEFINE S == IF p \in console.plugins THEN console.plugins \ {p}
                                         ELSE console.plugins \cup {p}
<1>2. S \in SUBSET (Plugins \cup Others)
  BY <1>1
<1>3. console' = [console EXCEPT !.rv = @ + 1, !.plugins = S]
  BY <1>1 DEF EditConsole, Console
<1> HIDE DEF S
<1> QED
  BY <1>1, <1>2, <1>3, ListWritten

\* Where a task leads: the worker's position stays typed.
LEMMA NextPluginTyped ==
    ASSUME TypeOK, NextPlugin
    PROVE  cur' \in Plugins /\ pc' \in {"plugin", "deactivate", "upEnd", "downEnd"}
BY PluginsAssumption DEF TypeOK, NextPlugin

LEMMA DoneTyped ==
    ASSUME TypeOK, Done \/ Fail
    PROVE  /\ cur' \in Plugins /\ failed' \in BOOLEAN
           /\ pc' \in UpTasks \cup DownTasks \cup {"idle", "upEnd", "downEnd"}
           /\ copy' = NoCopy /\ copy' \in Console
           /\ attempt' = 0 /\ attempt' \in 0..Attempts
<1>1. copy' = NoCopy /\ attempt' = 0 /\ attempt' \in 0..Attempts
  BY ConsoleBounds DEF Done, Fail
<1>2. failed' \in BOOLEAN
  BY DEF Done, Fail, TypeOK
<1>3. CASE NextPlugin
  BY <1>1, <1>2, <1>3, NextPluginTyped, NoCopyTyped DEF UpTasks, DownTasks
<1>4. CASE ~NextPlugin
  <2>1. cur' = cur /\ pc' \in {"activate", "delete"}
    BY <1>4 DEF Done, Fail
  <2> QED
    BY <1>1, <1>2, <2>1, NoCopyTyped DEF UpTasks, DownTasks, TypeOK
<1> QED
  BY <1>3, <1>4

LEMMA SpendTyped ==
    ASSUME TypeOK, NEW b \in Budgets, Spend(b)
    PROVE  budget' \in [Budgets -> Nat]
BY DEF TypeOK, Spend

LEMMA ConsoleInit == Init => ConsoleInv
<1> SUFFICES ASSUME Init PROVE ConsoleInv
  OBVIOUS
<1>1. console \in Console /\ console.rv = 1
  BY DEF Init, Console
<1>a. owner \in [Plugins -> 0..MaxCRs] /\ uid \in 0..MaxCRs /\ attempt \in 0..Attempts
  BY ConsoleBounds DEF Init
<1>b. budget \in [Budgets -> Nat]
  <2>1. budget = [edit |-> MaxEdits, fault |-> MaxFaults, crash |-> MaxCrashes]
    BY DEF Init
  <2> QED
    BY <2>1, ConsoleBounds DEF Budgets
<1>2. TypeOK
  BY <1>1, <1>a, <1>b, PluginsAssumption, NoCopyTyped
  DEF Init, TypeOK, UpTasks, DownTasks
<1>3. VersionInv
  BY <1>1 DEF Init, VersionInv, NoCopy
<1>4. RetryInv
  BY ConsoleBounds DEF Init, RetryInv
<1> QED
  BY <1>2, <1>3, <1>4 DEF ConsoleInv

\* Every step keeps the types. That a Read has an attempt left is RetryInv.
LEMMA ConsoleTypeStep == ConsoleInv /\ [Next]_vars => TypeOK'
<1> SUFFICES ASSUME ConsoleInv, [Next]_vars PROVE TypeOK'
  OBVIOUS
<1>t. TypeOK
  BY DEF ConsoleInv
<1> USE DEF crVars, clusterVars, cacheVars, taskVars
<1>1. CASE StartReconcile
  BY <1>1, <1>t DEF StartReconcile, TypeOK, UpTasks, DownTasks
<1>2. CASE TaskFails
  BY <1>2, <1>t, DoneTyped, SpendTyped DEF TaskFails, TypeOK, Budgets
<1>3. CASE ReconcileConsolePluginCR
  <2>1. owner' \in [Plugins -> 0..MaxCRs]
    BY <1>3, <1>t DEF ReconcileConsolePluginCR, TypeOK
  <2>2. Done \/ Fail
    BY <1>3 DEF ReconcileConsolePluginCR
  <2> QED
    BY <1>3, <1>t, <2>1, <2>2, DoneTyped DEF ReconcileConsolePluginCR, TypeOK
<1>4. CASE ReadConsole
  <2>1. CASE Done \/ Fail
    BY <1>4, <1>t, <2>1, DoneTyped DEF ReadConsole, TypeOK
  <2>2. CASE copy' = cachedConsole /\ attempt' = attempt + 1 /\ UNCHANGED <<pc, cur, failed>>
    <3>1. attempt < Attempts
      BY <1>4 DEF ReadConsole, ConsoleInv, RetryInv
    <3>2. attempt' \in 0..Attempts
      BY <1>t, <2>2, <3>1, ConsoleBounds DEF TypeOK
    <3> QED
      BY <1>4, <1>t, <2>2, <3>2 DEF ReadConsole, TypeOK
  <2> QED
    BY <1>4, <2>1, <2>2 DEF ReadConsole
<1>5. CASE WriteConsole
  <2>1. CASE Done \/ Fail
    <3>1. CASE Accepted
      <4>1. PICK S \in SUBSET (Plugins \cup Others) :
                console' = [console EXCEPT !.rv = @ + 1, !.plugins = S]
        <5>1. cur \in Plugins /\ copy.plugins \in SUBSET (Plugins \cup Others)
          BY <1>t DEF TypeOK, Console
        <5>2. CASE pc = "activate"
          BY <1>5, <3>1, <5>1, <5>2 DEF WriteConsole
        <5>3. CASE pc # "activate"
          BY <1>5, <3>1, <5>1, <5>3 DEF WriteConsole
        <5> QED
          BY <5>2, <5>3
      <4>2. console' \in Console
        BY <1>t, <4>1, ListWritten DEF TypeOK
      <4> QED
        BY <1>5, <1>t, <2>1, <4>2, DoneTyped DEF WriteConsole, TypeOK
    <3>2. CASE ~Accepted
      BY <1>5, <1>t, <2>1, <3>2, DoneTyped DEF WriteConsole, TypeOK
    <3> QED
      BY <3>1, <3>2
  <2>2. CASE copy' = NoCopy /\ UNCHANGED <<console, pc, cur, attempt, failed>>
    BY <1>5, <1>t, <2>2, NoCopyTyped DEF WriteConsole, TypeOK
  <2> QED
    BY <1>5, <2>1, <2>2 DEF WriteConsole
<1>6. CASE DeleteConsolePluginCR
  <2>1. owner' \in [Plugins -> 0..MaxCRs]
    BY <1>6, <1>t, ConsoleBounds DEF DeleteConsolePluginCR, TypeOK
  <2> QED
    BY <1>6, <1>t, <2>1, DoneTyped DEF DeleteConsolePluginCR, TypeOK
<1>7. CASE EndPass
  BY <1>7, <1>t, PluginsAssumption DEF EndPass, Return, TypeOK, UpTasks, DownTasks
<1>8. CASE EndFinalization
  <2>1. budget' \in [Budgets -> Nat]
    BY <1>8, <1>t, SpendTyped DEF EndFinalization, TypeOK, Budgets
  <2> QED
    BY <1>8, <1>t, <2>1, PluginsAssumption
    DEF EndFinalization, Return, TypeOK, UpTasks, DownTasks
<1>9. CASE CreateCR
  BY <1>9, <1>t, ConsoleBounds DEF CreateCR, TypeOK
<1>10. CASE DeleteCR
  BY <1>10, <1>t DEF DeleteCR, TypeOK
<1>11. CASE ReplaceConsole
  <2>1. budget' \in [Budgets -> Nat]
    BY <1>11, <1>t, SpendTyped DEF ReplaceConsole, TypeOK, Budgets
  <2>2. console' \in Console
    BY <1>11, <1>t DEF ReplaceConsole, TypeOK, Console
  <2> QED
    BY <1>11, <1>t, <2>1, <2>2 DEF ReplaceConsole, TypeOK
<1>12. CASE SyncConsole
  BY <1>12, <1>t DEF SyncConsole, TypeOK
<1>13. CASE OtherEvent
  BY <1>13, <1>t DEF OtherEvent, TypeOK
<1>14. CASE Crash
  <2>1. budget' \in [Budgets -> Nat]
    BY <1>14, <1>t, SpendTyped DEF Crash, Budgets
  <2>2. queued' \in BOOLEAN /\ failed' \in BOOLEAN /\ cur' \in Plugins /\ pc' = "idle"
    BY <1>14, PluginsAssumption DEF Crash, Return
  <2>3. copy' \in Console /\ attempt' \in 0..Attempts
    BY <1>14, ConsoleBounds, NoCopyTyped DEF Crash
  <2> QED
    BY <1>14, <1>t, <2>1, <2>2, <2>3 DEF Crash, TypeOK, UpTasks, DownTasks
<1>15. ASSUME NEW p \in Plugins \cup Others, EditConsole(p) PROVE TypeOK'
  <2>1. budget' \in [Budgets -> Nat]
    BY <1>15, <1>t, SpendTyped DEF EditConsole, Budgets
  <2>2. console' \in Console
    BY <1>15, <1>t, EditIsWrite
  <2> QED
    BY <1>15, <1>t, <2>1, <2>2 DEF EditConsole, TypeOK
<1>16. ASSUME NEW p \in Plugins, CollectGarbage(p) PROVE TypeOK'
  BY <1>16, <1>t, ConsoleBounds DEF CollectGarbage, TypeOK
<1>17. ASSUME NEW p \in Plugins, SyncPlugin(p) PROVE TypeOK'
  BY <1>17, <1>t DEF SyncPlugin, TypeOK
<1>18. CASE UNCHANGED vars
  BY <1>18, <1>t DEF vars, TypeOK
<1> QED
  BY <1>1, <1>2, <1>3, <1>4, <1>5, <1>6, <1>7, <1>8, <1>9, <1>10, <1>11, <1>12,
     <1>13, <1>14, <1>15, <1>16, <1>17, <1>18 DEF Next, Worker, Cluster

\* What a step can do to the Console and its two copies, and to the attempts.
LEMMA ConsoleMoves ==
    ASSUME TypeOK, [Next]_vars
    PROVE  /\ \/ console' = console
              \/ console'.rv = console.rv + 1
           /\ cachedConsole' \in {cachedConsole, console}
           /\ \/ copy' = copy /\ attempt' = attempt
              \/ copy' = NoCopy /\ attempt' = 0
              \/ copy' = NoCopy /\ attempt' = attempt /\ attempt < Attempts
              \/ copy' = cachedConsole
<1> USE DEF crVars, clusterVars, cacheVars, taskVars
<1>1. CASE TaskFails \/ ReconcileConsolePluginCR \/ ReadConsole \/ DeleteConsolePluginCR
  BY <1>1 DEF TaskFails, ReconcileConsolePluginCR, ReadConsole, DeleteConsolePluginCR,
    Done, Fail
<1>2. CASE WriteConsole
  BY <1>2 DEF WriteConsole, Done, Fail, AttemptsLeft, TypeOK, Console
<1>3. CASE StartReconcile \/ EndPass \/ EndFinalization \/ CreateCR \/ DeleteCR \/ OtherEvent
           \/ SyncConsole \/ Crash \/ UNCHANGED vars
  BY <1>3 DEF StartReconcile, EndPass, EndFinalization, CreateCR, DeleteCR, OtherEvent,
    SyncConsole, Crash, vars
<1>4. CASE ReplaceConsole \/ \E p \in Plugins \cup Others : EditConsole(p)
  <2>1. CASE ReplaceConsole
    BY <2>1 DEF ReplaceConsole
  <2>2. ASSUME NEW p \in Plugins \cup Others, EditConsole(p)
        PROVE  /\ console'.rv = console.rv + 1
               /\ UNCHANGED <<cachedConsole, copy, attempt>>
    BY <2>2, EditIsWrite DEF EditConsole
  <2> QED
    BY <1>4, <2>1, <2>2
<1>5. CASE \E p \in Plugins : CollectGarbage(p) \/ SyncPlugin(p)
  BY <1>5 DEF CollectGarbage, SyncPlugin
<1> QED
  BY <1>1, <1>2, <1>3, <1>4, <1>5 DEF Next, Worker, Cluster

LEMMA ConsoleStep == ConsoleInv /\ [Next]_vars => ConsoleInv'
<1> SUFFICES ASSUME ConsoleInv, [Next]_vars PROVE ConsoleInv'
  OBVIOUS
<1>1. TypeOK'
  BY ConsoleTypeStep
<1>2. /\ console.rv \in Nat /\ cachedConsole.rv \in Nat /\ copy.rv \in Nat
      /\ attempt \in Nat /\ NoCopy.rv = 0
  BY ConsoleBounds DEF ConsoleInv, TypeOK, Console, NoCopy
<1>3. VersionInv'
  <2>1. console' = console \/ console'.rv = console.rv + 1
    BY ConsoleMoves DEF ConsoleInv
  <2>2. cachedConsole' \in {cachedConsole, console}
    BY ConsoleMoves DEF ConsoleInv
  <2>3. copy' \in {copy, NoCopy, cachedConsole}
    BY ConsoleMoves DEF ConsoleInv
  <2>4. \A c \in {cachedConsole, copy, console, NoCopy} :
           c.rv \in Nat /\ c.rv <= console.rv /\ (c.rv = console.rv => c = console)
    BY <1>2 DEF ConsoleInv, VersionInv
  <2>5. \A c \in {cachedConsole', copy'} : c \in {cachedConsole, copy, console, NoCopy}
    BY <2>2, <2>3
  <2>6. \A c \in {cachedConsole', copy'} :
           c.rv <= console'.rv /\ (c.rv = console'.rv => c = console')
    BY <1>2, <2>1, <2>4, <2>5
  <2>7. console'.rv > 0 /\ cachedConsole'.rv > 0
    BY <1>2, <2>1, <2>2 DEF ConsoleInv, VersionInv
  <2> QED
    BY <2>6, <2>7 DEF VersionInv
<1>4. RetryInv'
  <2>1. cachedConsole # NoCopy
    BY <1>2 DEF ConsoleInv, VersionInv
  <2> QED
    BY <1>2, <2>1, ConsoleMoves, ConsoleBounds DEF ConsoleInv, RetryInv
<1> QED
  BY <1>1, <1>3, <1>4 DEF ConsoleInv

\* Copies of the Console are told apart by their version, whatever happens to the
\* object, the cache and the tasks that read and write it.
THEOREM ConsoleInvariant == Spec => []ConsoleInv
BY ConsoleInit, ConsoleStep, PTL DEF Spec

\* Every variable of the console plugins' tasks keeps its type; in particular no
\* task tries more often than RetryOnConflict allows.
THEOREM ConsoleTypeCorrect == Spec => []TypeOK
<1>1. ConsoleInv => TypeOK
  BY DEF ConsoleInv
<1> QED
  BY <1>1, ConsoleInvariant, PTL

\* ActivateConsolePlugin and DeactivateConsolePlugin never change an entry of the
\* list that is not the operator's own.
THEOREM OtherEntriesAreKept == Spec => OthersUntouched
<1>1. ConsoleInv /\ [Next]_vars
        => [Worker => console'.plugins \ Plugins = console.plugins \ Plugins]_vars
  <2> SUFFICES ASSUME ConsoleInv, Worker
               PROVE  console'.plugins \ Plugins = console.plugins \ Plugins
    OBVIOUS
  <2> USE DEF clusterVars
  <2>1. CASE WriteConsole /\ Accepted
    <3>1. copy = console
      BY <2>1 DEF Accepted, ConsoleInv, VersionInv
    <3>2. cur \in Plugins /\ console \in Console
      BY DEF ConsoleInv, TypeOK
    <3>3. console'.plugins \in {copy.plugins \cup {cur}, copy.plugins \ {cur}}
      BY <2>1, <3>2 DEF WriteConsole, Console
    <3> QED
      BY <3>1, <3>2, <3>3
  <2>2. CASE WriteConsole /\ ~Accepted
    BY <2>2 DEF WriteConsole
  <2>3. CASE ~WriteConsole
    BY <2>3 DEF Worker, StartReconcile, TaskFails, ReconcileConsolePluginCR, ReadConsole,
      DeleteConsolePluginCR, EndPass, EndFinalization
  <2> QED
    BY <2>1, <2>2, <2>3
<1> QED
  BY <1>1, ConsoleInvariant, PTL DEF Spec, OthersUntouched

=============================================================================
