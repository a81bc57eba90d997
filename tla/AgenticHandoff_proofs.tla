------------------------ MODULE AgenticHandoff_proofs ------------------------
(***************************************************************************)
(* RestartAppServer rolls the Deployment only over client CA Secrets that  *)
(* are as new as the CA it began with, and no announced reload is taken    *)
(* back, for any number of rotations, deletions, faults and crashes.       *)
(***************************************************************************)
EXTENDS AgenticHandoff, TLAPS

LEMMA Names ==
    /\ Secrets \subseteq Objects /\ "source" \in Objects /\ "dep" \in Objects
    /\ "handoff" \in Objects
    /\ "source" \notin Secrets /\ "dep" \notin Secrets /\ "handoff" \notin Secrets
    /\ "worker" \in Threads /\ "cmWatch" \in Threads /\ "secretWatch" \in Threads
BY FeaturesAssumption DEF Secrets, Objects, Threads, Watchers

\* A concatenation lists what its parts list.
Lists(q, s) == \E i \in DOMAIN q : q[i] = s

LEMMA Concatenated ==
    ASSUME NEW q \in Seq(Secrets), NEW r \in Seq(Secrets), NEW s,
           Lists(q, s) \/ Lists(r, s)
    PROVE  Lists(q \o r, s)
<1>1. /\ q \o r \in Seq(Secrets) /\ Len(q \o r) = Len(q) + Len(r)
      /\ Len(q) \in Nat /\ Len(r) \in Nat
      /\ \A i \in 1 .. Len(q) : (q \o r)[i] = q[i]
      /\ \A i \in 1 .. Len(r) : (q \o r)[Len(q) + i] = r[i]
  OBVIOUS
<1>2. CASE Lists(q, s)
  BY <1>1, <1>2 DEF Lists
<1>3. CASE Lists(r, s)
  <2>1. PICK i \in DOMAIN r : r[i] = s
    BY <1>3 DEF Lists
  <2>2. Len(q) + i \in DOMAIN (q \o r) /\ (q \o r)[Len(q) + i] = s
    BY <1>1, <2>1
  <2> QED
    BY <2>2 DEF Lists
<1> QED
  BY <1>2, <1>3

LEMMA Single ==
    ASSUME NEW s \in Secrets
    PROVE  <<s>> \in Seq(Secrets) /\ Lists(<<s>>, s)
<1>1. <<s>> \in Seq(Secrets) /\ 1 \in DOMAIN <<s>> /\ <<s>>[1] = s
  OBVIOUS
<1> QED
  BY <1>1 DEF Lists

\* The table lists every Secret.
LEMMA Table ==
    /\ clientCASecrets \in Seq(Secrets)
    /\ clientCASecrets # <<>>
    /\ \A s \in Secrets : Lists(clientCASecrets, s)
<1> DEFINE m == IF "mcp" \in Features THEN <<"mcp">> ELSE <<>>
           r == IF "rhokp" \in Features THEN <<"rhokp">> ELSE <<>>
<1>1. <<"otel">> \in Seq(Secrets) /\ Lists(<<"otel">>, "otel")
  BY Single DEF Secrets
<1>2. m \in Seq(Secrets) /\ ("mcp" \in Features => Lists(m, "mcp"))
  <2>1. CASE "mcp" \in Features
    BY <2>1, Single DEF Secrets
  <2>2. CASE "mcp" \notin Features
    BY <2>2
  <2> QED
    BY <2>1, <2>2
<1>3. r \in Seq(Secrets) /\ ("rhokp" \in Features => Lists(r, "rhokp"))
  <2>1. CASE "rhokp" \in Features
    BY <2>1, Single DEF Secrets
  <2>2. CASE "rhokp" \notin Features
    BY <2>2
  <2> QED
    BY <2>1, <2>2
<1>4. clientCASecrets = (<<"otel">> \o m) \o r
  BY DEF clientCASecrets
<1> HIDE DEF m, r
<1> DEFINE q == <<"otel">> \o m
<1>5. q \in Seq(Secrets) /\ Lists(q, "otel") /\ ("mcp" \in Features => Lists(q, "mcp"))
  <2>1. q \in Seq(Secrets)
    BY <1>1, <1>2
  <2>2. Lists(q, "otel")
    BY <1>1, <1>2, Concatenated
  <2>3. "mcp" \in Features => Lists(q, "mcp")
    BY <1>1, <1>2, Concatenated
  <2> QED
    BY <2>1, <2>2, <2>3
<1>6. clientCASecrets = q \o r
  BY <1>4
<1> HIDE DEF q
<1>7. clientCASecrets \in Seq(Secrets)
  BY <1>3, <1>5, <1>6
<1>8. ASSUME NEW s \in Secrets PROVE Lists(clientCASecrets, s)
  <2>1. Lists(q, s) \/ Lists(r, s)
    BY <1>3, <1>5, FeaturesAssumption DEF Secrets
  <2> QED
    BY <1>3, <1>5, <1>6, <2>1, Concatenated
<1>9. clientCASecrets # <<>>
  <2>1. Lists(clientCASecrets, "otel")
    BY <1>8 DEF Secrets
  <2> QED
    BY <2>1 DEF Lists
<1> QED
  BY <1>7, <1>8, <1>9

\* What is left of a list of Secrets.
LEMMA Rest ==
    ASSUME NEW q \in Seq(Secrets), q # <<>>
    PROVE  /\ Tail(q) \in Seq(Secrets) /\ Head(q) \in Secrets
           /\ \A i \in DOMAIN q :
                 q[i] = Head(q) \/ Lists(Tail(q), q[i])
<1>1. /\ Tail(q) \in Seq(Secrets) /\ Head(q) \in Secrets /\ Head(q) = q[1]
      /\ Len(q) \in Nat /\ Len(q) > 0 /\ Len(Tail(q)) = Len(q) - 1
      /\ \A j \in 1 .. Len(q) - 1 : Tail(q)[j] = q[j + 1]
  OBVIOUS
<1>2. ASSUME NEW i \in DOMAIN q, q[i] # Head(q)
      PROVE  Lists(Tail(q), q[i])
  <2>1. i \in 2 .. Len(q)
    BY <1>1, <1>2
  <2>2. i - 1 \in DOMAIN Tail(q) /\ Tail(q)[i - 1] = q[i]
    BY <1>1, <2>1
  <2> QED
    BY <2>2 DEF Lists
<1> QED
  BY <1>1, <1>2
----------------------------------------------------------------------------
(* What a step does to a goroutine.                                        *)

\* A copy that is not marked stale is the object.
FreshCopies == \A x \in Objects \ stale : cache[x] = api[x]

HandoffInv == TypeOK /\ CAOrder /\ FreshCopies

\* Goroutine t alone moves.
Moves(t) ==
    /\ DOMAIN thread' = Threads /\ thread'[t] \in Thread(t)
    /\ \A u \in Threads \ {t} : thread'[u] = thread[u]

\* It leaves RestartAppServer, or a list of Secrets, behind.
Stops(t) ==
    /\ Moves(t)
    /\ thread'[t].todo = <<>> /\ thread'[t].desired = 0
    /\ thread'[t].pc \notin {"refresh", "restart", "roll"}

\* It begins with the whole table, and has read no CA yet.
Starts(t) ==
    /\ Moves(t)
    /\ thread'[t].todo = clientCASecrets /\ thread'[t].desired = 0
    /\ \/ thread'[t].pc = "refresh"
       \/ thread'[t].pc = "restart" /\ thread'[t].since = cache["source"].ca

LEMMA NothingLeft == <<>> \in Seq(Secrets)
OBVIOUS

LEMMA IdleTyped == \A t \in Threads : Idle \in Thread(t)
<1> SUFFICES ASSUME NEW t \in Threads PROVE Idle \in Thread(t)
  OBVIOUS
<1>1. "idle" \in PCs(t)
  BY DEF PCs, Threads, Watchers
<1> QED
  BY <1>1, NothingLeft DEF Idle, Thread

LEMMA GoneIdle ==
    ASSUME TypeOK, NEW t \in Threads, thread' = [thread EXCEPT ![t] = Idle]
    PROVE  Stops(t)
BY IdleTyped DEF TypeOK, Stops, Moves, Idle

\* With another position and nothing left to do a goroutine stays typed.
LEMMA MovedTyped ==
    ASSUME NEW t \in Threads, NEW r \in Thread(t), NEW p \in PCs(t), NEW f \in BOOLEAN,
           NEW q \in Seq(Secrets)
    PROVE  /\ [r EXCEPT !.pc = p, !.todo = q, !.desired = 0, !.failed = f] \in Thread(t)
           /\ [r EXCEPT !.pc = p, !.todo = q, !.desired = 0] \in Thread(t)
BY DEF Thread

LEMMA GotoStops ==
    ASSUME TypeOK, NEW t \in Threads, NEW p \in PCs(t) \ {"refresh", "restart", "roll"},
           Goto(t, p)
    PROVE  Stops(t)
<1>1. thread[t] \in Thread(t)
  BY DEF TypeOK
<1>2. CASE p = "idle"
  BY <1>2, GoneIdle DEF Goto
<1>3. CASE p # "idle"
  <2> DEFINE r == [thread[t] EXCEPT !.pc = p, !.todo = <<>>, !.desired = 0]
  <2>1. thread' = [thread EXCEPT ![t] = r]
    BY <1>3 DEF Goto
  <2>2. r \in Thread(t)
    BY <1>1, NothingLeft, MovedTyped
  <2>3. r.pc = p /\ r.todo = <<>> /\ r.desired = 0
    BY <1>1 DEF Thread
  <2> HIDE DEF r
  <2> QED
    BY <2>1, <2>2, <2>3 DEF Stops, Moves, TypeOK
<1> QED
  BY <1>2, <1>3

LEMMA FailStops ==
    ASSUME TypeOK, NEW t \in Threads, Fail(t)
    PROVE  Stops(t)
<1>1. thread[t] \in Thread(t)
  BY DEF TypeOK
<1>2. CASE t = "worker"
  <2> DEFINE r == [thread[t] EXCEPT !.pc = "handoff", !.todo = <<>>, !.desired = 0, !.failed = TRUE]
  <2>1. thread' = [thread EXCEPT ![t] = r]
    BY <1>2 DEF Fail
  <2>2. "handoff" \in PCs(t)
    BY <1>2 DEF PCs
  <2>3. r \in Thread(t)
    BY <1>1, <2>2, NothingLeft, MovedTyped
  <2>4. r.pc = "handoff" /\ r.todo = <<>> /\ r.desired = 0
    BY <1>1 DEF Thread
  <2> HIDE DEF r
  <2> QED
    BY <2>1, <2>3, <2>4 DEF Stops, Moves, TypeOK
<1>3. CASE t # "worker"
  <2>1. AfterAppServer(t) \in PCs(t) \ {"refresh", "restart", "roll"}
    BY <1>3 DEF AfterAppServer, PCs, Threads, Watchers
  <2> QED
    BY <1>3, <2>1, GotoStops DEF Fail
<1> QED
  BY <1>2, <1>3

LEMMA RestartStarts ==
    ASSUME HandoffInv, NEW t \in Threads, thread[t].pc \notin {"refresh", "restart"},
           StartRestart(t)
    PROVE  Starts(t)
<1>1. thread[t] \in Thread(t) /\ spec \subseteq Features /\ cache["source"].ca \in Nat
  BY Names DEF HandoffInv, TypeOK, Object
<1>6. thread[t].desired = 0
  BY DEF HandoffInv, CAOrder, RefreshedSoFar
<1> DEFINE r == [thread[t] EXCEPT !.pc = "restart", !.cr = spec,
                                  !.since = cache["source"].ca, !.todo = clientCASecrets]
<1>2. thread' = [thread EXCEPT ![t] = r]
  BY DEF StartRestart
<1>3. "restart" \in PCs(t)
  BY DEF PCs, Threads, Watchers
<1>4. r \in Thread(t)
  BY <1>1, <1>3, Table DEF Thread
<1>5. /\ r.pc = "restart" /\ r.since = cache["source"].ca /\ r.todo = clientCASecrets
      /\ r.desired = 0
  BY <1>1, <1>6 DEF Thread
<1> HIDE DEF r
<1> QED
  BY <1>2, <1>4, <1>5 DEF Starts, Moves, HandoffInv, TypeOK

\* One Secret is done.
LEMMA RefreshedMoves ==
    ASSUME TypeOK, NEW t \in Threads, thread[t].pc \in {"refresh", "restart"},
           thread[t].todo # <<>>, Refreshed(t)
    PROVE  /\ Moves(t)
           /\ thread'[t].todo = Tail(thread[t].todo) /\ thread'[t].desired = 0
           /\ thread'[t].since = thread[t].since /\ thread'[t].cr = thread[t].cr
           /\ thread'[t].pc \in {"refresh", "restart"} <=> thread'[t].todo # <<>>
           /\ thread'[t].pc \in {"restart", "roll"} => thread[t].pc = "restart"
<1>1. thread[t] \in Thread(t) /\ thread[t].todo \in Seq(Secrets)
  BY DEF TypeOK, Thread
<1> DEFINE rest == Tail(thread[t].todo)
           p == IF rest # <<>> THEN thread[t].pc
                ELSE IF thread[t].pc = "restart" THEN "roll" ELSE "deploy"
           r == [thread[t] EXCEPT !.todo = rest, !.desired = 0, !.pc = p]
<1>2. thread' = [thread EXCEPT ![t] = r]
  BY DEF Refreshed
<1>3. rest \in Seq(Secrets)
  BY <1>1, Rest
<1>4. p \in PCs(t)
  <2>1. thread[t].pc \in PCs(t)
    BY <1>1 DEF Thread
  <2>2. thread[t].pc # "restart" => t = "worker"
    BY <2>1 DEF PCs, Threads, Watchers
  <2> HIDE DEF rest
  <2> QED
    BY <2>1, <2>2 DEF PCs, Threads, Watchers
<1>5. /\ r.todo = rest /\ r.desired = 0 /\ r.pc = p
      /\ r.since = thread[t].since /\ r.cr = thread[t].cr
  BY <1>1 DEF Thread
<1>6. p \in {"refresh", "restart"} <=> rest # <<>>
  OBVIOUS
<1>7. p \in {"restart", "roll"} => thread[t].pc = "restart"
  OBVIOUS
<1> HIDE DEF rest, p
<1>8. r \in Thread(t)
  BY <1>1, <1>3, <1>4 DEF Thread
<1> HIDE DEF r
<1> QED
  BY <1>2, <1>5, <1>6, <1>7, <1>8 DEF Moves, TypeOK, rest
----------------------------------------------------------------------------
(* What a step does to the objects.                                        *)

NotSetBack(s) ==
    \/ api[s].there /\ api'[s].ca = api[s].ca /\ (s \in late => s \in late')
    \/ api'[s].ca = cache["source"].ca
    \/ s \in late'

\* The objects stay typed and in order, and a Secret that exists after the step is as
\* old as it was or as new as the cached CA, unless it was just set back.
Advances ==
    /\ api' \in [Objects -> Object] /\ cache' \in [Objects -> Object]
    /\ stale' \subseteq Objects /\ late' \subseteq Secrets
    /\ FreshCopies' /\ CopiesOrdered'
    /\ cache["source"].ca <= cache'["source"].ca
    /\ \A s \in Secrets : api'[s].there => NotSetBack(s)

LEMMA AbsentTyped == Absent \in Object
BY DEF Absent, Object

LEMMA CAsTyped ==
    ASSUME TypeOK, NEW x \in Objects
    PROVE  /\ api[x] \in Object /\ cache[x] \in Object
           /\ api[x].ca \in Nat /\ cache[x].ca \in Nat
BY DEF TypeOK, Object

LEMMA KeptAdvances ==
    ASSUME HandoffInv, UNCHANGED <<api, cache, late>>,
           stale \subseteq stale', stale' \subseteq Objects
    PROVE  Advances
<1>1. /\ api \in [Objects -> Object] /\ cache \in [Objects -> Object]
      /\ stale \subseteq Objects /\ late \subseteq Secrets /\ FreshCopies /\ CopiesOrdered
  BY DEF HandoffInv, TypeOK, CAOrder
<1>2. FreshCopies' /\ CopiesOrdered'
  BY <1>1 DEF FreshCopies, CopiesOrdered
<1>3. cache["source"].ca \in Nat
  BY CAsTyped, Names DEF HandoffInv
<1> QED
  BY <1>1, <1>2, <1>3 DEF Advances, NotSetBack

\* How a Secret is written, and whether that sets it back.
SecretWritten(x, new) ==
    \/ new = Absent /\ late' = late \ {x}
    \/ /\ new.ca <= cache["source"].ca
       /\ late' = IF new.ca = cache["source"].ca THEN late \ {x} ELSE late \cup {x}

\* A write: no Secret runs ahead of the cached CA, the service CA never gets older.
LEMMA WriteAdvances ==
    ASSUME HandoffInv, NEW x \in Objects, NEW new \in Object, Write(x, new),
           UNCHANGED cache,
           x \in Secrets => SecretWritten(x, new), x \notin Secrets => late' = late,
           x = "source" => new.ca >= api["source"].ca
    PROVE  Advances
<1>1. /\ api \in [Objects -> Object] /\ cache \in [Objects -> Object]
      /\ stale \subseteq Objects /\ FreshCopies /\ CopiesOrdered /\ TypeOK
      /\ late \subseteq Secrets
  BY DEF HandoffInv, TypeOK, CAOrder
<1>2. /\ api' = [api EXCEPT ![x] = new] /\ stale' = stale \cup {x}
      /\ api'[x] = new /\ \A y \in Objects \ {x} : api'[y] = api[y]
  BY <1>1 DEF Write
<1>3. api' \in [Objects -> Object] /\ stale' \subseteq Objects
  BY <1>1, <1>2
<1>4. FreshCopies'
  BY <1>1, <1>2 DEF FreshCopies
<1>5. cache["source"].ca <= api'["source"].ca
  BY <1>1, <1>2, Names, CAsTyped DEF CopiesOrdered, Object
<1>6. Absent.ca = 0 /\ Absent.there = FALSE
  BY DEF Absent
<1>7. ASSUME NEW s \in Secrets
      PROVE  /\ api'[s].ca <= cache["source"].ca /\ cache[s].ca <= cache["source"].ca
             /\ cache[s].there /\ api'[s].there => cache[s].ca <= api'[s].ca \/ s \in late'
             /\ api'[s].there => NotSetBack(s)
  <2>1. /\ cache["source"].ca \in Nat /\ cache[s].ca \in Nat /\ api[s].ca \in Nat
        /\ cache[s].ca <= cache["source"].ca /\ api[s].ca <= cache["source"].ca
        /\ cache[s].there /\ api[s].there => cache[s].ca <= api[s].ca \/ s \in late
    BY <1>1, Names, CAsTyped DEF CopiesOrdered
  <2>2. CASE s = x
    <3>1. api'[s] = new /\ SecretWritten(s, new)
      BY <1>2, <2>2
    <3>2. CASE new = Absent
      BY <1>6, <2>1, <3>1, <3>2 DEF NotSetBack
    <3>3. CASE new.ca = cache["source"].ca
      BY <2>1, <3>1, <3>3 DEF NotSetBack
    <3>4. CASE new.ca <= cache["source"].ca /\ late' = late \cup {s}
      BY <2>1, <3>1, <3>4 DEF NotSetBack
    <3> QED
      BY <3>1, <3>2, <3>3, <3>4 DEF SecretWritten
  <2>3. CASE s # x
    <3>1. api'[s] = api[s] /\ (s \in late' <=> s \in late)
      BY <1>2, <2>3, Names DEF SecretWritten
    <3> QED
      BY <2>1, <3>1 DEF NotSetBack
  <2> QED
    BY <2>2, <2>3
<1>8. CopiesOrdered'
  BY <1>5, <1>7 DEF CopiesOrdered
<1>9. cache["source"].ca <= cache'["source"].ca
  BY <1>1, Names, CAsTyped
<1>10. late' \subseteq Secrets
  BY <1>1 DEF SecretWritten
<1> QED
  BY <1>1, <1>3, <1>4, <1>7, <1>8, <1>9, <1>10 DEF Advances

----------------------------------------------------------------------------
(* The invariant.                                                          *)

\* A goroutine that does not move is not set back by the others.
LEMMA OthersNotSetBack ==
    ASSUME HandoffInv, Advances, NEW u \in Threads, thread'[u] = thread[u]
    PROVE  RefreshedSoFar(u)'
<1>1. RefreshedSoFar(u) /\ TypeOK
  BY DEF HandoffInv, CAOrder
<1>2. Pending(u)' = Pending(u)
  BY DEF Pending
<1>3. /\ cache["source"].ca \in Nat /\ cache'["source"].ca \in Nat
      /\ cache["source"].ca <= cache'["source"].ca /\ thread[u].since \in Nat
  BY <1>1, Names, CAsTyped DEF Advances, Object, TypeOK, Thread
<1>4. ASSUME thread[u].pc \in {"restart", "roll"},
             NEW s \in Secrets \ Pending(u), Enabled(s, thread[u].cr), api'[s].there
      PROVE  api'[s].ca >= thread[u].since \/ s \in late'
  <2>1. thread[u].since <= cache["source"].ca
    BY <1>1, <1>4 DEF RefreshedSoFar
  <2>2. api[s].there => api[s].ca >= thread[u].since \/ s \in late
    BY <1>1, <1>4 DEF RefreshedSoFar
  <2>3. NotSetBack(s)
    BY <1>4 DEF Advances
  <2> QED
    BY <1>3, <2>1, <2>2, <2>3 DEF NotSetBack
<1>5. thread[u].pc \in {"restart", "roll"} => thread[u].since <= cache'["source"].ca
  BY <1>1, <1>3 DEF RefreshedSoFar
<1>6. thread[u].pc \in {"refresh", "restart"} <=> thread[u].todo # <<>>
  BY <1>1 DEF RefreshedSoFar
<1>7. /\ thread[u].desired # 0 =>
            /\ thread[u].pc \in {"refresh", "restart"}
            /\ thread[u].pc = "restart" => thread[u].desired >= thread[u].since
      /\ thread[u].desired <= cache'["source"].ca
  <2>1. thread[u].desired \in Nat
    BY <1>1 DEF TypeOK, Thread
  <2> QED
    BY <1>1, <1>3, <2>1 DEF RefreshedSoFar
<1> QED
  BY <1>2, <1>4, <1>5, <1>6, <1>7 DEF RefreshedSoFar

LEMMA StoppedOwesNothing ==
    ASSUME Advances, NEW t \in Threads, Stops(t)
    PROVE  RefreshedSoFar(t)'
<1>1. cache'["source"].ca \in Nat
  BY Names DEF Advances, Object
<1> QED
  BY <1>1 DEF Stops, RefreshedSoFar

LEMMA StartedOwesAll ==
    ASSUME HandoffInv, Advances, NEW t \in Threads, Starts(t)
    PROVE  RefreshedSoFar(t)'
<1>1. thread'[t].todo = clientCASecrets /\ thread'[t].todo # <<>>
  BY Table DEF Starts
<1>2. \A s \in Secrets : s \in Pending(t)'
  BY <1>1, Table DEF Pending, Lists
<1>3. thread'[t].pc \in {"restart", "roll"} => thread'[t].since <= cache'["source"].ca
  BY DEF Starts, Advances
<1>4. thread'[t].pc \in {"refresh", "restart"} /\ thread'[t].desired = 0
  BY DEF Starts
<1>5. cache'["source"].ca \in Nat
  BY Names DEF Advances, Object
<1> QED
  BY <1>1, <1>2, <1>3, <1>4, <1>5 DEF RefreshedSoFar

\* A step of one goroutine keeps the invariant when it leaves that goroutine right.
LEMMA Combine ==
    ASSUME HandoffInv, Advances,
           DOMAIN thread' = Threads,
           \A u \in Threads : \/ thread'[u] = thread[u]
                              \/ thread'[u] \in Thread(u) /\ RefreshedSoFar(u)',
           spec' \subseteq Features,
           queued' \in BOOLEAN, svc' \in BOOLEAN, rolling' \in BOOLEAN,
           events' \in [Watchers -> Nat], budget' \in [Budgets -> Nat]
    PROVE  HandoffInv'
<1>1. TypeOK'
  BY DEF HandoffInv, TypeOK, Advances
<1>2. \A u \in Threads : RefreshedSoFar(u)'
  BY OthersNotSetBack
<1> QED
  BY <1>1, <1>2 DEF HandoffInv, CAOrder, Advances

LEMMA OneMoves ==
    ASSUME HandoffInv, Advances, NEW t \in Threads,
           Stops(t) \/ Starts(t) \/ (Moves(t) /\ RefreshedSoFar(t)')
    PROVE  /\ DOMAIN thread' = Threads
           /\ \A u \in Threads : \/ thread'[u] = thread[u]
                                 \/ thread'[u] \in Thread(u) /\ RefreshedSoFar(u)'
<1>1. Moves(t)
  BY DEF Stops, Starts
<1>2. RefreshedSoFar(t)'
  BY StoppedOwesNothing, StartedOwesAll
<1> QED
  BY <1>1, <1>2 DEF Moves

LEMMA SpendTyped ==
    ASSUME TypeOK, NEW b \in Budgets, Spend(b)
    PROVE  budget' \in [Budgets -> Nat]
<1>1. budget \in [Budgets -> Nat] /\ "any" \in Budgets
  BY DEF TypeOK, Budgets
<1>2. budget[b] - 1 \in Nat /\ budget["any"] - 1 \in Nat
  BY <1>1 DEF Spend
<1> QED
  BY <1>1, <1>2 DEF Spend

LEMMA HandoffInit == Init => HandoffInv
<1> SUFFICES ASSUME Init PROVE HandoffInv
  OBVIOUS
<1> DEFINE src == [Absent EXCEPT !.there = TRUE, !.ca = 1]
<1>1. src \in Object /\ src.ca = 1 /\ src.there = TRUE
  BY DEF Absent, Object
<1>2. api = [x \in Objects |-> IF x = "source" THEN src ELSE Absent] /\ cache = api
  BY DEF Init
<1> HIDE DEF src
<1>3. api \in [Objects -> Object]
  BY <1>1, <1>2, AbsentTyped
<1>4. budget \in [Budgets -> Nat]
  <2>1. budget = [edit |-> MaxEdits, ca |-> MaxCAs - 1, cert |-> MaxCerts,
                  delete |-> MaxDeletes, fault |-> MaxFaults, crash |-> MaxCrashes,
                  any |-> MaxEvents]
    BY DEF Init, FullBudget
  <2>2. MaxCAs - 1 \in Nat
    BY HandoffBounds
  <2> QED
    BY <2>1, <2>2, HandoffBounds DEF Budgets
<1>5. DOMAIN thread = Threads /\ \A t \in Threads : thread[t] = Idle /\ thread[t] \in Thread(t)
  BY IdleTyped DEF Init
<1>6. TypeOK
  BY <1>2, <1>3, <1>4, <1>5 DEF Init, TypeOK
<1>7. CopiesOrdered
  <2>1. api["source"].ca = 1 /\ \A s \in Secrets : api[s] = Absent
    BY <1>1, <1>2, Names
  <2>2. Absent.ca = 0 /\ Absent.there = FALSE
    BY DEF Absent
  <2> QED
    BY <1>2, <2>1, <2>2 DEF CopiesOrdered
<1>8. \A t \in Threads : RefreshedSoFar(t)
  <2>1. cache["source"].ca = 1
    BY <1>1, <1>2, Names
  <2> QED
    BY <1>5, <2>1 DEF RefreshedSoFar, Idle
<1>9. FreshCopies
  BY <1>2 DEF FreshCopies
<1> QED
  BY <1>6, <1>7, <1>8, <1>9 DEF HandoffInv, CAOrder

\* The Secret that is written has the CA that was read.
LEMMA DesiredTyped ==
    ASSUME TypeOK, NEW t \in Threads
    PROVE  LET desired == [Absent EXCEPT !.there = TRUE, !.ca = thread[t].desired]
           IN  desired \in Object /\ desired.ca = thread[t].desired /\ desired.there
<1>1. thread[t].desired \in Nat
  BY DEF TypeOK, Thread
<1> QED
  BY <1>1 DEF Absent, Object

\* The Secret that thread t works on.
LEMMA HeadIsSecret ==
    ASSUME HandoffInv, NEW t \in Threads, thread[t].pc \in {"refresh", "restart"}
    PROVE  /\ thread[t].todo # <<>> /\ thread[t].todo \in Seq(Secrets)
           /\ Head(thread[t].todo) \in Secrets
<1>1. RefreshedSoFar(t) /\ thread[t] \in Thread(t)
  BY DEF HandoffInv, CAOrder, TypeOK
<1>2. thread[t].todo # <<>> /\ thread[t].todo \in Seq(Secrets)
  BY <1>1 DEF RefreshedSoFar, Thread
<1> QED
  BY <1>2, Rest

\* The two steps of the refresh write nothing but Secrets.
LEMMA OnlySecrets ==
    ASSUME HandoffInv, NEW t \in Threads,
           RefreshClientCASecrets(t) \/ reconcileClientCASecret(t)
    PROVE  Keep \/ \E s \in Secrets : \E new : Write(s, new)
<1>1. Head(thread[t].todo) \in Secrets
  BY HeadIsSecret DEF RefreshClientCASecrets, reconcileClientCASecret
<1>2. Keep \/ \E new : Write(Head(thread[t].todo), new)
  BY DEF RefreshClientCASecrets, generateClientCA, deleteClientCA,
         reconcileClientCASecret, WriteClientCA
<1> QED
  BY <1>1, <1>2

\* After a Secret was dealt with, thread t owes one less.
LEMMA OneSecretDone ==
    ASSUME HandoffInv, Advances, NEW t \in Threads,
           thread[t].pc \in {"refresh", "restart"}, Refreshed(t),
           LET s == Head(thread[t].todo)
           IN  thread[t].pc = "restart" /\ Enabled(s, thread[t].cr) /\ api'[s].there
                  => api'[s].ca >= thread[t].since \/ s \in late'
    PROVE  Moves(t) /\ RefreshedSoFar(t)'
<1>1. TypeOK /\ RefreshedSoFar(t) /\ thread[t] \in Thread(t)
  BY DEF HandoffInv, CAOrder, TypeOK
<1>2. thread[t].todo # <<>> /\ thread[t].todo \in Seq(Secrets) /\ thread[t].since \in Nat
  BY <1>1 DEF RefreshedSoFar, Thread
<1>3. /\ Moves(t)
      /\ thread'[t].todo = Tail(thread[t].todo) /\ thread'[t].desired = 0
      /\ thread'[t].since = thread[t].since /\ thread'[t].cr = thread[t].cr
      /\ thread'[t].pc \in {"refresh", "restart"} <=> thread'[t].todo # <<>>
      /\ thread'[t].pc \in {"restart", "roll"} => thread[t].pc = "restart"
  BY <1>1, <1>2, RefreshedMoves
<1>4. /\ cache["source"].ca \in Nat /\ cache'["source"].ca \in Nat
      /\ cache["source"].ca <= cache'["source"].ca
  BY <1>1, Names, CAsTyped DEF Advances, Object
<1>5. ASSUME thread[t].pc = "restart", NEW s \in Secrets, s \notin Pending(t)',
             Enabled(s, thread[t].cr), api'[s].there
      PROVE  api'[s].ca >= thread[t].since \/ s \in late'
  <2>1. thread[t].since <= cache["source"].ca
    BY <1>1, <1>5 DEF RefreshedSoFar
  <2>2. api'[s].ca \in Nat
    BY Names DEF Advances, Object
  <2>3. CASE s = Head(thread[t].todo)
    BY <1>5, <2>3
  <2>4. CASE s # Head(thread[t].todo)
    <3>1. s \notin Pending(t)
      <4>1. ~Lists(Tail(thread[t].todo), s)
        BY <1>3, <1>5 DEF Pending, Lists
      <4> QED
        BY <1>2, <2>4, <4>1, Rest DEF Pending
    <3>2. api[s].there => api[s].ca >= thread[t].since \/ s \in late
      BY <1>1, <1>5, <3>1 DEF RefreshedSoFar
    <3>3. NotSetBack(s)
      BY <1>5 DEF Advances
    <3> QED
      BY <1>2, <1>4, <2>1, <3>2, <3>3 DEF NotSetBack
  <2> QED
    BY <2>3, <2>4
<1>6. thread[t].pc = "restart" => thread[t].since <= cache'["source"].ca
  BY <1>1, <1>2, <1>4 DEF RefreshedSoFar
<1> QED
  BY <1>3, <1>4, <1>5, <1>6 DEF RefreshedSoFar

\* The CA for the next Secret is read: it is as new as the one the restart began with.
LEMMA CAIsRead ==
    ASSUME HandoffInv, Advances, NEW t \in Threads, UNCHANGED <<api, late>>,
           thread[t].pc \in {"refresh", "restart"},
           thread' = [thread EXCEPT ![t].desired = cache["source"].ca]
    PROVE  Moves(t) /\ RefreshedSoFar(t)'
<1>1. TypeOK /\ RefreshedSoFar(t) /\ thread[t] \in Thread(t)
  BY DEF HandoffInv, CAOrder, TypeOK
<1>2. /\ cache["source"].ca \in Nat /\ cache'["source"].ca \in Nat
      /\ cache["source"].ca <= cache'["source"].ca /\ thread[t].since \in Nat
  BY <1>1, Names, CAsTyped DEF Advances, Object, Thread
<1> DEFINE r == [thread[t] EXCEPT !.desired = cache["source"].ca]
<1>3. thread' = [thread EXCEPT ![t] = r]
  OBVIOUS
<1>4. /\ r \in Thread(t) /\ r.desired = cache["source"].ca
      /\ r.pc = thread[t].pc /\ r.todo = thread[t].todo
      /\ r.since = thread[t].since /\ r.cr = thread[t].cr
  BY <1>1, <1>2 DEF Thread
<1> HIDE DEF r
<1>5. Moves(t) /\ thread'[t] = r
  BY <1>1, <1>3, <1>4 DEF Moves, TypeOK
<1>6. Pending(t)' = Pending(t)
  BY <1>4, <1>5 DEF Pending
<1>7. thread[t].pc = "restart" => thread[t].since <= cache["source"].ca
  BY <1>1 DEF RefreshedSoFar
<1> QED
  BY <1>1, <1>2, <1>4, <1>5, <1>6, <1>7 DEF RefreshedSoFar

LEMMA RefreshStep ==
    ASSUME HandoffInv, NEW t \in Threads, RefreshClientCASecrets(t)
    PROVE  HandoffInv'
<1> DEFINE s == Head(thread[t].todo)
<1>1. TypeOK /\ thread[t].pc \in {"refresh", "restart"}
  BY DEF HandoffInv, RefreshClientCASecrets
<1>2. s \in Secrets /\ s \in Objects
  BY <1>1, HeadIsSecret, Names
<1>3. UNCHANGED <<spec, svc, rolling, cache, queued, events, budget>>
  BY DEF RefreshClientCASecrets, clusterVars
<1> HIDE DEF s
<1>4. \/ /\ Keep /\ late' = late
         /\ thread' = [thread EXCEPT ![t].desired = cache["source"].ca]
      \/ Keep /\ late' = late /\ Fail(t)
      \/ /\ ~Enabled(s, thread[t].cr) /\ Refreshed(t)
         /\ (Write(s, Absent) /\ late' = late \ {s}) \/ (Keep /\ late' = late)
  BY DEF RefreshClientCASecrets, generateClientCA, deleteClientCA, RefreshFails, s
<1>5. Advances
  <2>1. CASE Keep /\ late' = late
    BY <1>1, <1>3, <2>1, KeptAdvances DEF Keep, TypeOK
  <2>2. CASE Write(s, Absent) /\ late' = late \ {s}
    BY <1>2, <1>3, <2>2, Names, AbsentTyped, WriteAdvances DEF SecretWritten
  <2> QED
    BY <1>4, <2>1, <2>2
<1>6. Stops(t) \/ (Moves(t) /\ RefreshedSoFar(t)')
  <2>1. CASE Fail(t)
    BY <1>1, <2>1, FailStops
  <2>2. CASE ~Enabled(s, thread[t].cr) /\ Refreshed(t)
    BY <1>1, <1>5, <2>2, OneSecretDone DEF s
  <2>3. CASE /\ Keep /\ late' = late
             /\ thread' = [thread EXCEPT ![t].desired = cache["source"].ca]
    BY <1>1, <1>5, <2>3, CAIsRead DEF Keep
  <2> QED
    BY <1>4, <2>1, <2>2, <2>3
<1>7. /\ DOMAIN thread' = Threads
      /\ \A u \in Threads : \/ thread'[u] = thread[u]
                            \/ thread'[u] \in Thread(u) /\ RefreshedSoFar(u)'
  BY <1>5, <1>6, OneMoves
<1> QED
  BY <1>1, <1>3, <1>5, <1>7, Combine DEF TypeOK

\* The Secret is written with the CA that was read, which may be older by now.
LEMMA WriteStep ==
    ASSUME HandoffInv, NEW t \in Threads, reconcileClientCASecret(t)
    PROVE  HandoffInv'
<1> DEFINE s == Head(thread[t].todo)
           desired == [Absent EXCEPT !.there = TRUE, !.ca = thread[t].desired]
<1>1. TypeOK /\ CopiesOrdered /\ RefreshedSoFar(t) /\ thread[t] \in Thread(t)
  BY DEF HandoffInv, CAOrder, TypeOK
<1>2. thread[t].pc \in {"refresh", "restart"} /\ thread[t].desired # 0
  BY DEF reconcileClientCASecret
<1>3. s \in Secrets /\ s \in Objects
  BY <1>2, HeadIsSecret, Names
<1>4. desired \in Object /\ desired.ca = thread[t].desired /\ desired.there
  BY <1>1, DesiredTyped
<1>5. /\ api[s].ca \in Nat /\ thread[t].desired \in Nat /\ thread[t].since \in Nat
      /\ cache[s].there /\ api[s].there => cache[s].ca <= api[s].ca \/ s \in late
      /\ thread[t].desired <= cache["source"].ca
      /\ thread[t].pc = "restart" => thread[t].desired >= thread[t].since
  BY <1>1, <1>2, <1>3, CAsTyped DEF CopiesOrdered, RefreshedSoFar, Thread
<1>6. UNCHANGED <<spec, svc, rolling, cache, queued, events, budget>>
  BY DEF reconcileClientCASecret, clusterVars
<1> HIDE DEF s, desired
<1>7. \/ WriteClientCA(t, s, desired)
      \/ cache[s] = desired /\ Keep /\ late' = late /\ Refreshed(t)
      \/ Keep /\ late' = late /\ Fail(t)
  BY DEF reconcileClientCASecret, RefreshFails, s, desired
<1>8. Advances
  <2>1. CASE Keep /\ late' = late
    BY <1>1, <1>6, <2>1, KeptAdvances DEF Keep, TypeOK
  <2>2. CASE WriteClientCA(t, s, desired)
    <3>1. SecretWritten(s, desired)
      BY <1>4, <1>5, <2>2 DEF WriteClientCA, SecretWritten
    <3> QED
      BY <1>3, <1>4, <1>6, <2>2, <3>1, Names, WriteAdvances DEF WriteClientCA
  <2> QED
    BY <1>7, <2>1, <2>2
<1>9. Stops(t) \/ (Moves(t) /\ RefreshedSoFar(t)')
  <2>1. CASE Fail(t)
    BY <1>1, <2>1, FailStops
  <2>2. CASE WriteClientCA(t, s, desired)
    <3>1. api'[s].ca = thread[t].desired
      BY <1>1, <1>3, <1>4, <2>2 DEF WriteClientCA, Write, TypeOK
    <3> QED
      BY <1>2, <1>5, <1>8, <2>2, <3>1, OneSecretDone DEF s, WriteClientCA
  <2>3. CASE cache[s] = desired /\ Keep /\ late' = late /\ Refreshed(t)
    <3>1. thread[t].pc = "restart" /\ api'[s].there
             => api'[s].ca >= thread[t].since \/ s \in late'
      BY <1>4, <1>5, <2>3 DEF Keep
    <3> QED
      BY <1>2, <1>8, <2>3, <3>1, OneSecretDone DEF s
  <2> QED
    BY <1>7, <2>1, <2>2, <2>3
<1>10. /\ DOMAIN thread' = Threads
       /\ \A u \in Threads : \/ thread'[u] = thread[u]
                             \/ thread'[u] \in Thread(u) /\ RefreshedSoFar(u)'
  BY <1>8, <1>9, OneMoves
<1> QED
  BY <1>1, <1>6, <1>8, <1>10, Combine DEF TypeOK

LEMMA RollStep ==
    ASSUME HandoffInv, NEW t \in Threads, RollAppServer(t)
    PROVE  HandoffInv'
<1> DEFINE new == IF t = "worker" THEN [cache["dep"] EXCEPT !.names = thread[t].olsconfig]
                  ELSE cache["dep"]
<1>1. TypeOK /\ thread[t] \in Thread(t) /\ cache["dep"] \in Object
  BY Names, CAsTyped DEF HandoffInv, TypeOK
<1>2. new \in Object
  BY <1>1 DEF Object, Thread
<1>3. UNCHANGED <<spec, svc, cache, queued, events, budget, late>>
  BY DEF RollAppServer
<1> HIDE DEF new
<1>4. \/ Write("dep", new) /\ Goto(t, AfterAppServer(t)) /\ rolling' = TRUE
      \/ Keep /\ Fail(t) /\ rolling' = rolling
  BY DEF RollAppServer, new
<1>5. Advances
  <2>1. CASE Write("dep", new)
    BY <1>2, <1>3, <2>1, Names, WriteAdvances
  <2>2. CASE Keep
    BY <1>1, <1>3, <2>2, KeptAdvances DEF Keep, TypeOK
  <2> QED
    BY <1>4, <2>1, <2>2
<1>6. Stops(t)
  <2>1. AfterAppServer(t) \in PCs(t) \ {"refresh", "restart", "roll"}
    BY DEF AfterAppServer, PCs, Threads, Watchers
  <2> QED
    BY <1>1, <1>4, <2>1, GotoStops, FailStops
<1>7. /\ DOMAIN thread' = Threads
      /\ \A u \in Threads : \/ thread'[u] = thread[u]
                            \/ thread'[u] \in Thread(u) /\ RefreshedSoFar(u)'
  BY <1>5, <1>6, OneMoves
<1> QED
  BY <1>1, <1>3, <1>4, <1>5, <1>7, Combine DEF TypeOK

LEMMA StartReconcileStep ==
    ASSUME HandoffInv, StartReconcile
    PROVE  HandoffInv'
<1>1. TypeOK
  BY DEF HandoffInv
<1>2. PICK failed \in BOOLEAN :
        /\ \/ Spend("fault") /\ svc' = svc
           \/ svc' \in {TRUE, svc, FALSE} /\ budget' = budget
        /\ thread' = [thread EXCEPT !["worker"] =
              [Idle EXCEPT !.pc = "refresh", !.olsconfig = spec, !.cr = spec,
                           !.todo = clientCASecrets, !.failed = failed]]
  BY DEF StartReconcile
<1> DEFINE r == [Idle EXCEPT !.pc = "refresh", !.olsconfig = spec, !.cr = spec,
                             !.todo = clientCASecrets, !.failed = failed]
<1>3. /\ r \in Thread("worker") /\ r.pc = "refresh" /\ r.todo = clientCASecrets
      /\ r.desired = 0
  BY <1>1, Table DEF Idle, Thread, PCs, TypeOK
<1>4. Starts("worker")
  <2> HIDE DEF r
  <2> QED
    BY <1>1, <1>2, <1>3, Names DEF Starts, Moves, TypeOK, r
<1>5. UNCHANGED <<spec, api, cache, stale, events, rolling, late>> /\ queued' = FALSE
  BY DEF StartReconcile
<1>6. Advances
  BY <1>1, <1>5, KeptAdvances DEF TypeOK
<1>7. /\ DOMAIN thread' = Threads
      /\ \A u \in Threads : \/ thread'[u] = thread[u]
                            \/ thread'[u] \in Thread(u) /\ RefreshedSoFar(u)'
  BY <1>4, <1>6, Names, OneMoves
<1>8. budget' \in [Budgets -> Nat] /\ svc' \in BOOLEAN
  <2>1. "fault" \in Budgets
    BY DEF Budgets
  <2> QED
    BY <1>1, <1>2, <2>1, SpendTyped DEF TypeOK
<1> QED
  BY <1>1, <1>5, <1>6, <1>7, <1>8, Combine DEF TypeOK

LEMMA ReconcileDeploymentStep ==
    ASSUME HandoffInv, ReconcileDeployment
    PROVE  HandoffInv'
<1> DEFINE new == [Absent EXCEPT !.there = TRUE, !.names = thread["worker"].olsconfig]
<1>1. TypeOK /\ thread["worker"] \in Thread("worker")
  BY Names DEF HandoffInv, TypeOK
<1>2. new \in Object
  BY <1>1 DEF Absent, Object, Thread
<1>3. UNCHANGED <<spec, svc, cache, queued, events, budget, late>>
  BY DEF ReconcileDeployment
<1> HIDE DEF new
<1>4. /\ Write("dep", new) \/ Keep
      /\ Goto("worker", "handoff") \/ Fail("worker") \/ StartRestart("worker")
      /\ rolling' \in {TRUE, rolling}
  BY DEF ReconcileDeployment, new
<1>5. Advances
  <2>1. CASE Write("dep", new)
    BY <1>2, <1>3, <2>1, Names, WriteAdvances
  <2>2. CASE Keep
    BY <1>1, <1>3, <2>2, KeptAdvances DEF Keep, TypeOK
  <2> QED
    BY <1>4, <2>1, <2>2
<1>6. Stops("worker") \/ Starts("worker")
  <2>1. "handoff" \in PCs("worker") \ {"refresh", "restart", "roll"}
    BY DEF PCs
  <2>2. thread["worker"].pc = "deploy"
    BY DEF ReconcileDeployment
  <2> QED
    BY <1>1, <1>4, <2>1, <2>2, Names, GotoStops, FailStops, RestartStarts
<1>7. /\ DOMAIN thread' = Threads
      /\ \A u \in Threads : \/ thread'[u] = thread[u]
                            \/ thread'[u] \in Thread(u) /\ RefreshedSoFar(u)'
  BY <1>5, <1>6, Names, OneMoves
<1> QED
  BY <1>1, <1>3, <1>4, <1>5, <1>7, Combine DEF TypeOK

LEMMA HandoffStep ==
    ASSUME HandoffInv, reconcileConfigurationConfigMap
    PROVE  HandoffInv'
<1> DEFINE names == thread["worker"].olsconfig
           first == [Absent EXCEPT !.there = TRUE, !.names = names]
           updated == [cache["handoff"] EXCEPT !.names = names]
<1>1. /\ TypeOK /\ thread["worker"] \in Thread("worker") /\ cache["handoff"] \in Object
  BY Names, CAsTyped DEF HandoffInv, TypeOK
<1>2. first \in Object /\ updated \in Object /\ thread["worker"].failed \in BOOLEAN
  BY <1>1 DEF Absent, Object, Thread
<1>3. UNCHANGED <<spec, svc, rolling, cache, events, budget, late>>
  BY DEF reconcileConfigurationConfigMap, clusterVars
<1> HIDE DEF first, updated
<1>4. /\ Write("handoff", first) \/ Write("handoff", updated) \/ Keep
      /\ EndPass(TRUE) \/ EndPass(thread["worker"].failed)
  BY DEF reconcileConfigurationConfigMap, GenerateAgenticConfigurationConfigMap,
         HandoffUpdated, first, updated
<1>5. Advances
  <2>1. CASE Write("handoff", first)
    BY <1>2, <1>3, <2>1, Names, WriteAdvances
  <2>2. CASE Write("handoff", updated)
    BY <1>2, <1>3, <2>2, Names, WriteAdvances
  <2>3. CASE Keep
    BY <1>1, <1>3, <2>3, KeptAdvances DEF Keep, TypeOK
  <2> QED
    BY <1>4, <2>1, <2>2, <2>3
<1>6. Stops("worker") /\ queued' \in BOOLEAN
  <2>1. thread' = [thread EXCEPT !["worker"] = Idle]
    BY <1>4 DEF EndPass
  <2>2. queued' \in BOOLEAN
    BY <1>1, <1>2, <1>4, Zenon DEF EndPass, TypeOK
  <2> QED
    BY <1>1, <2>1, <2>2, Names, GoneIdle
<1>7. /\ DOMAIN thread' = Threads
      /\ \A u \in Threads : \/ thread'[u] = thread[u]
                            \/ thread'[u] \in Thread(u) /\ RefreshedSoFar(u)'
  BY <1>5, <1>6, Names, OneMoves
<1> QED
  BY <1>1, <1>3, <1>5, <1>6, <1>7, Combine DEF TypeOK

LEMMA HandleEventStep ==
    ASSUME HandoffInv, NEW w \in Watchers, HandleEvent(w)
    PROVE  HandoffInv'
<1>1. TypeOK /\ w \in Threads
  BY DEF HandoffInv, Threads
<1>2. UNCHANGED <<spec, svc, rolling, api, cache, stale, queued, budget, late>>
  BY DEF HandleEvent, clusterVars
<1>3. Advances
  BY <1>1, <1>2, KeptAdvances DEF TypeOK
<1>4. Starts(w)
  BY <1>1, RestartStarts DEF HandleEvent
<1>5. events' \in [Watchers -> Nat]
  BY <1>1 DEF HandleEvent, TypeOK
<1>6. /\ DOMAIN thread' = Threads
      /\ \A u \in Threads : \/ thread'[u] = thread[u]
                            \/ thread'[u] \in Thread(u) /\ RefreshedSoFar(u)'
  BY <1>1, <1>3, <1>4, OneMoves
<1> QED
  BY <1>1, <1>2, <1>3, <1>5, <1>6, Combine DEF TypeOK

LEMMA TouchStep ==
    ASSUME HandoffInv, TouchAgenticConfiguration
    PROVE  HandoffInv'
<1> DEFINE new == [cache["handoff"] EXCEPT !.reload = @ + 1]
<1>1. TypeOK /\ cache["handoff"] \in Object
  BY Names, CAsTyped DEF HandoffInv
<1>2. new \in Object
  <2>1. cache["handoff"].reload + 1 \in Nat
    BY <1>1 DEF Object
  <2> QED
    BY <1>1, <2>1 DEF Object
<1>3. UNCHANGED <<spec, svc, rolling, cache, queued, events, budget, late>>
  BY DEF TouchAgenticConfiguration, clusterVars
<1> HIDE DEF new
<1>4. Write("handoff", new) \/ Keep
  BY DEF TouchAgenticConfiguration, new
<1>5. Advances
  <2>1. CASE Write("handoff", new)
    BY <1>2, <1>3, <2>1, Names, WriteAdvances
  <2>2. CASE Keep
    BY <1>1, <1>3, <2>2, KeptAdvances DEF Keep, TypeOK
  <2> QED
    BY <1>4, <2>1, <2>2
<1>6. Stops("secretWatch")
  BY <1>1, Names, GoneIdle DEF TouchAgenticConfiguration
<1>7. /\ DOMAIN thread' = Threads
      /\ \A u \in Threads : \/ thread'[u] = thread[u]
                            \/ thread'[u] \in Thread(u) /\ RefreshedSoFar(u)'
  BY <1>5, <1>6, Names, OneMoves
<1> QED
  BY <1>1, <1>3, <1>5, <1>7, Combine DEF TypeOK

LEMMA CallFailsStep ==
    ASSUME HandoffInv, NEW t \in Threads, CallFails(t)
    PROVE  HandoffInv'
<1>1. TypeOK /\ "fault" \in Budgets /\ thread[t] \in Thread(t)
  BY DEF HandoffInv, Budgets, TypeOK
<1>2. UNCHANGED <<spec, svc, rolling, api, cache, stale, events, late>>
  BY DEF CallFails, clusterVars
<1>3. Advances
  BY <1>1, <1>2, KeptAdvances DEF TypeOK
<1>4. budget' \in [Budgets -> Nat]
  BY <1>1, SpendTyped DEF CallFails
<1>5. Stops(t) /\ queued' \in BOOLEAN
  <2>1. CASE thread[t].pc = "handoff"
    <3>1. t = "worker"
      BY <1>1, <2>1 DEF Thread, PCs, Threads, Watchers
    <3>2. EndPass(TRUE)
      BY <2>1 DEF CallFails
    <3>3. queued' \in BOOLEAN
      BY <1>1, <3>2, Zenon DEF EndPass, TypeOK
    <3> QED
      BY <1>1, <3>1, <3>2, <3>3, GoneIdle DEF EndPass
  <2>2. CASE thread[t].pc = "touch"
    BY <1>1, <2>2, GoneIdle DEF CallFails, TypeOK
  <2>3. CASE thread[t].pc \notin {"handoff", "touch"}
    BY <1>1, <2>3, FailStops DEF CallFails, TypeOK
  <2> QED
    BY <2>1, <2>2, <2>3
<1>6. /\ DOMAIN thread' = Threads
      /\ \A u \in Threads : \/ thread'[u] = thread[u]
                            \/ thread'[u] \in Thread(u) /\ RefreshedSoFar(u)'
  BY <1>3, <1>5, OneMoves
<1> QED
  BY <1>1, <1>2, <1>3, <1>4, <1>5, <1>6, Combine DEF TypeOK

\* A step of the environment that leaves the goroutines alone.
LEMMA EnvironmentKeeps ==
    ASSUME HandoffInv, Advances, thread' = thread,
           spec' \subseteq Features,
           queued' \in BOOLEAN, svc' \in BOOLEAN, rolling' \in BOOLEAN,
           events' \in [Watchers -> Nat], budget' \in [Budgets -> Nat]
    PROVE  HandoffInv'
<1>1. DOMAIN thread' = Threads
  BY DEF HandoffInv, TypeOK
<1> QED
  BY <1>1, Combine

LEMMA SourceStep ==
    ASSUME HandoffInv, RotateCA \/ DropCA \/ RestoreCA
    PROVE  HandoffInv'
<1> DEFINE old == api["source"]
           newer == [old EXCEPT !.ca = @ + 1]
           gone == [old EXCEPT !.there = FALSE]
           back == [old EXCEPT !.there = TRUE]
           newBack == [old EXCEPT !.there = TRUE, !.ca = @ + 1]
<1>1. TypeOK /\ old \in Object /\ old.ca \in Nat
  BY Names, CAsTyped DEF HandoffInv
<1>2. old.ca + 1 \in Nat
  BY <1>1
<1>3. \A new \in {newer, gone, back, newBack} : new \in Object /\ new.ca >= old.ca
  <2> HIDE DEF old
  <2>1. newer \in Object /\ newer.ca = old.ca + 1
    BY <1>1, <1>2 DEF Object
  <2>2. gone \in Object /\ gone.ca = old.ca
    BY <1>1 DEF Object
  <2>3. back \in Object /\ back.ca = old.ca
    BY <1>1 DEF Object
  <2>4. newBack \in Object /\ newBack.ca = old.ca + 1
    <3>1. newBack = [back EXCEPT !.ca = old.ca + 1]
      BY <1>1 DEF Object
    <3> HIDE DEF back
    <3>2. [back EXCEPT !.ca = old.ca + 1] \in Object
      BY <1>2, <2>3 DEF Object
    <3>3. [back EXCEPT !.ca = old.ca + 1].ca = old.ca + 1
      BY <2>3 DEF Object
    <3> QED
      BY <3>1, <3>2, <3>3
  <2> HIDE DEF newer, gone, back, newBack
  <2> QED
    BY <1>1, <2>1, <2>2, <2>3, <2>4
<1>4. UNCHANGED <<spec, svc, rolling, cache, queued, events, thread, late>>
  BY DEF RotateCA, DropCA, RestoreCA, clusterVars
<1>5. PICK new \in {newer, gone, back, newBack} : Write("source", new)
  BY DEF RotateCA, DropCA, RestoreCA
<1>6. new \in Object /\ new.ca >= old.ca
  BY <1>3
<1> HIDE DEF newer, gone, back, newBack
<1>7. Advances
  BY <1>4, <1>5, <1>6, Names, WriteAdvances
<1>8. budget' \in [Budgets -> Nat]
  <2>1. "ca" \in Budgets /\ "delete" \in Budgets
    BY DEF Budgets
  <2>2. Spend("ca") \/ Spend("delete") \/ budget' = budget
    BY DEF RotateCA, DropCA, RestoreCA
  <2> QED
    BY <1>1, <2>1, <2>2, SpendTyped DEF TypeOK
<1> QED
  BY <1>1, <1>4, <1>7, <1>8, EnvironmentKeeps DEF TypeOK

LEMMA DeleteStep ==
    ASSUME HandoffInv, NEW x \in Secrets \cup {"handoff"}, DeleteObject(x)
    PROVE  HandoffInv'
<1>1. TypeOK /\ x \in Objects /\ x # "source" /\ "delete" \in Budgets
  BY Names DEF HandoffInv, Budgets
<1>2. UNCHANGED <<spec, svc, rolling, cache, queued, events, thread>>
  BY DEF DeleteObject, clusterVars
<1>3. Advances
  <2>1. Write(x, Absent) /\ late' = late \ {x}
    BY DEF DeleteObject
  <2>2. x \notin Secrets => late' = late
    BY <1>1, <2>1 DEF TypeOK
  <2>3. x \in Secrets => SecretWritten(x, Absent)
    BY <2>1 DEF SecretWritten
  <2> QED
    BY <1>1, <1>2, <2>1, <2>2, <2>3, AbsentTyped, WriteAdvances
<1>4. budget' \in [Budgets -> Nat]
  BY <1>1, SpendTyped DEF DeleteObject
<1> QED
  BY <1>1, <1>2, <1>3, <1>4, EnvironmentKeeps DEF TypeOK

\* An informer catches up: the copy becomes the object.
LEMMA SyncStep ==
    ASSUME HandoffInv, NEW x \in Objects, Sync(x)
    PROVE  HandoffInv'
<1>1. TypeOK /\ CopiesOrdered /\ FreshCopies
  BY DEF HandoffInv, CAOrder
<1>2. UNCHANGED <<spec, svc, rolling, api, thread, budget, late>>
  BY DEF Sync, clusterVars
<1>3. /\ cache' \in [Objects -> Object] /\ cache'[x] = api[x]
      /\ \A y \in Objects \ {x} : cache'[y] = cache[y]
      /\ stale' = stale \ {x}
  BY <1>1 DEF Sync, TypeOK
<1>4. FreshCopies'
  BY <1>1, <1>2, <1>3 DEF FreshCopies
<1>5. /\ cache["source"].ca \in Nat /\ cache'["source"].ca \in Nat
      /\ cache["source"].ca <= cache'["source"].ca
      /\ cache'["source"].ca <= api["source"].ca
  BY <1>1, <1>3, Names, CAsTyped DEF CopiesOrdered
<1>6. ASSUME NEW s \in Secrets
      PROVE  /\ api[s].ca <= cache'["source"].ca /\ cache'[s].ca <= cache'["source"].ca
             /\ cache'[s].there /\ api[s].there => cache'[s].ca <= api[s].ca \/ s \in late
  <2>1. /\ api[s].ca \in Nat /\ cache[s].ca \in Nat
        /\ api[s].ca <= cache["source"].ca /\ cache[s].ca <= cache["source"].ca
        /\ cache[s].there /\ api[s].there => cache[s].ca <= api[s].ca \/ s \in late
    BY <1>1, Names, CAsTyped DEF CopiesOrdered
  <2>2. cache'[s] = cache[s] \/ cache'[s] = api[s]
    BY <1>3, Names
  <2> QED
    BY <1>5, <2>1, <2>2
<1>7. CopiesOrdered'
  BY <1>2, <1>5, <1>6 DEF CopiesOrdered
<1>8. Advances
  BY <1>1, <1>2, <1>3, <1>4, <1>5, <1>7 DEF Advances, NotSetBack, TypeOK
<1>9. events' \in [Watchers -> Nat]
  BY <1>1 DEF Sync, TypeOK, Watchers
<1>10. queued' \in BOOLEAN
  BY <1>1 DEF Sync, TypeOK
<1> QED
  BY <1>1, <1>2, <1>8, <1>9, <1>10, EnvironmentKeeps DEF TypeOK

LEMMA CrashStep ==
    ASSUME HandoffInv, Crash
    PROVE  HandoffInv'
<1>1. TypeOK /\ CopiesOrdered
  BY DEF HandoffInv, CAOrder
<1>2. /\ UNCHANGED <<spec, svc, rolling, api, late>>
      /\ cache' = api /\ stale' = {} /\ queued' = TRUE
      /\ events' = [w \in Watchers |-> 0]
      /\ thread' = [t \in Threads |-> Idle]
  BY DEF Crash, clusterVars
<1>3. FreshCopies'
  BY <1>2 DEF FreshCopies
<1>4. cache["source"].ca \in Nat /\ api["source"].ca \in Nat
      /\ cache["source"].ca <= api["source"].ca
  BY <1>1, Names, CAsTyped DEF CopiesOrdered
<1>5. \A s \in Secrets : api[s].ca \in Nat /\ api[s].ca <= api["source"].ca
  BY <1>1, <1>4, Names, CAsTyped DEF CopiesOrdered
<1>6. CopiesOrdered'
  BY <1>2, <1>4, <1>5 DEF CopiesOrdered
<1>7. Advances
  BY <1>1, <1>2, <1>3, <1>4, <1>6 DEF Advances, NotSetBack, TypeOK
<1>8. \A u \in Threads : thread'[u] \in Thread(u) /\ RefreshedSoFar(u)'
  BY <1>2, <1>4, IdleTyped DEF RefreshedSoFar, Idle
<1>9. budget' \in [Budgets -> Nat]
  BY <1>1, SpendTyped DEF Crash, Budgets
<1> QED
  BY <1>1, <1>2, <1>7, <1>8, <1>9, Combine DEF TypeOK

LEMMA OtherStep ==
    ASSUME HandoffInv, EditCR \/ RotateCert \/ RollPods \/ OtherEvent
    PROVE  HandoffInv'
<1>1. TypeOK
  BY DEF HandoffInv
<1>2. UNCHANGED <<api, cache, svc, thread, late>> /\ (stale' = stale \/ stale' = stale \cup {"dep"})
  BY DEF EditCR, RotateCert, RollPods, OtherEvent, clusterVars
<1>3. Advances
  BY <1>1, <1>2, Names, KeptAdvances DEF TypeOK
<1>4. CASE EditCR
  <2>1. spec' \subseteq Features
    BY <1>1, <1>4 DEF EditCR, TypeOK
  <2>2. budget' \in [Budgets -> Nat]
    BY <1>1, <1>4, SpendTyped DEF EditCR, Budgets
  <2> QED
    BY <1>1, <1>2, <1>3, <1>4, <2>1, <2>2, EnvironmentKeeps DEF EditCR, TypeOK
<1>5. CASE RotateCert
  <2>1. events' \in [Watchers -> Nat]
    BY <1>1, <1>5 DEF RotateCert, TypeOK, Watchers
  <2>2. budget' \in [Budgets -> Nat]
    BY <1>1, <1>5, SpendTyped DEF RotateCert, Budgets
  <2> QED
    BY <1>1, <1>2, <1>3, <1>5, <2>1, <2>2, EnvironmentKeeps
    DEF RotateCert, TypeOK, clusterVars
<1>6. CASE RollPods
  BY <1>1, <1>2, <1>3, <1>6, EnvironmentKeeps DEF RollPods, TypeOK
<1>7. CASE OtherEvent
  BY <1>1, <1>2, <1>3, <1>7, EnvironmentKeeps DEF OtherEvent, TypeOK, clusterVars
<1> QED
  BY <1>4, <1>5, <1>6, <1>7

LEMMA StutterStep ==
    ASSUME HandoffInv, UNCHANGED vars
    PROVE  HandoffInv'
<1>1. TypeOK
  BY DEF HandoffInv
<1>2. Advances
  BY <1>1, KeptAdvances DEF vars, TypeOK
<1> QED
  BY <1>1, <1>2, EnvironmentKeeps DEF vars, TypeOK

LEMMA HandoffNext == HandoffInv /\ [Next]_vars => HandoffInv'
<1> SUFFICES ASSUME HandoffInv, [Next]_vars PROVE HandoffInv'
  OBVIOUS
<1>1. CASE Worker
  BY <1>1, Names, StartReconcileStep, ReconcileDeploymentStep, HandoffStep, RefreshStep,
     WriteStep, RollStep
  DEF Worker, AppServer
<1>2. ASSUME NEW w \in Watchers, Handler(w) PROVE HandoffInv'
  BY <1>2, HandleEventStep, TouchStep, RefreshStep, WriteStep, RollStep
  DEF Handler, AppServer, Threads
<1>3. CASE \E t \in Threads : CallFails(t)
  BY <1>3, CallFailsStep
<1>4. CASE RotateCA \/ DropCA \/ RestoreCA
  BY <1>4, SourceStep
<1>5. CASE EditCR \/ RotateCert \/ RollPods \/ OtherEvent
  BY <1>5, OtherStep
<1>6. CASE Crash
  BY <1>6, CrashStep
<1>7. CASE \E x \in Secrets \cup {"handoff"} : DeleteObject(x)
  BY <1>7, DeleteStep
<1>8. CASE \E x \in Objects : Sync(x)
  BY <1>8, SyncStep
<1>9. CASE UNCHANGED vars
  BY <1>9, StutterStep
<1> QED
  BY <1>1, <1>2, <1>3, <1>4, <1>5, <1>6, <1>7, <1>8, <1>9 DEF Next

\* The inductive invariant: types, the order of the CAs in all copies, and what each
\* goroutine has refreshed.
THEOREM HandoffInvariant == Spec => []HandoffInv
<1> QED
  BY HandoffInit, HandoffNext, PTL DEF Spec

\* Every variable keeps its type, and the handler of the service CA keeps to
\* RestartAppServer, for every set of features and every bound.
THEOREM HandoffTypeCorrect == Spec => []TypeOK
<1>1. HandoffInv => TypeOK
  BY DEF HandoffInv
<1> QED
  BY <1>1, HandoffInvariant, PTL

\* No copy holds a CA ahead of the cached service CA, and what a goroutine has refreshed
\* is set back only by another one whose read of the service CA was already out of date
\* when it wrote.
THEOREM CAsStayInOrder == Spec => []CAOrder
<1>1. HandoffInv => CAOrder
  BY DEF HandoffInv
<1> QED
  BY <1>1, HandoffInvariant, PTL

\* RestartAppServer is fail-closed: a goroutine about to roll the Deployment does so over
\* Secrets at least as new as the CA it began with, whatever failed and however the three
\* goroutines interleave, but for Secrets that a write with an older CA has set back.
THEOREM RestartIsFailClosed == Spec => []RollsWithFreshCA
<1>1. HandoffInv => RollsWithFreshCA
  <2> SUFFICES ASSUME HandoffInv, NEW t \in Threads, NEW s \in Secrets,
                      thread[t].pc = "roll", Enabled(s, thread[t].cr), api[s].there
               PROVE  api[s].ca >= thread[t].since \/ s \in late
    BY DEF RollsWithFreshCA
  <2>1. RefreshedSoFar(t)
    BY DEF HandoffInv, CAOrder
  <2>2. thread[t].todo = <<>>
    BY <2>1 DEF RefreshedSoFar
  <2>3. s \notin Pending(t)
    BY <2>2 DEF Pending
  <2> QED
    BY <2>1, <2>3 DEF RefreshedSoFar
<1> QED
  BY <1>1, HandoffInvariant, PTL

\* What the steps can do to the handoff.
HandoffKept == api'["handoff"] = api["handoff"]

LEMMA WriteElsewhere ==
    ASSUME TypeOK, NEW x, NEW new, Write(x, new), x # "handoff"
    PROVE  HandoffKept
BY Names DEF TypeOK, Write, HandoffKept

LEMMA ReloadStep ==
    ASSUME HandoffInv, [Next]_vars, api["handoff"].there, api'["handoff"].there
    PROVE  api'["handoff"].reload >= api["handoff"].reload
<1>1. TypeOK /\ FreshCopies
  BY DEF HandoffInv
<1>2. api["handoff"] \in Object /\ api["handoff"].reload \in Nat
  BY <1>1, Names, CAsTyped DEF Object
<1>3. ASSUME HandoffKept PROVE api'["handoff"].reload >= api["handoff"].reload
  BY <1>2, <1>3 DEF HandoffKept
<1>4. ASSUME NEW t \in Threads, RefreshClientCASecrets(t) \/ reconcileClientCASecret(t)
      PROVE  HandoffKept
  <2>1. Keep \/ \E s \in Secrets : \E new : Write(s, new)
    BY <1>4, OnlySecrets
  <2> QED
    BY <1>1, <2>1, Names, WriteElsewhere DEF Keep, HandoffKept
<1>5. ASSUME NEW t \in Threads, RollAppServer(t) PROVE HandoffKept
  <2>1. Keep \/ \E new : Write("dep", new)
    BY <1>5 DEF RollAppServer
  <2> QED
    BY <1>1, <2>1, WriteElsewhere DEF Keep, HandoffKept
<1>6. CASE StartReconcile
  BY <1>3, <1>6 DEF StartReconcile, HandoffKept
<1>7. CASE ReconcileDeployment
  <2>1. Keep \/ \E new : Write("dep", new)
    BY <1>7 DEF ReconcileDeployment
  <2> QED
    BY <1>1, <1>3, <2>1, WriteElsewhere DEF Keep, HandoffKept
<1>8. CASE reconcileConfigurationConfigMap
  <2> DEFINE updated == HandoffUpdated(thread["worker"].olsconfig)
  <2>1. Keep \/ (Write("handoff", updated) /\ "handoff" \notin stale)
    BY <1>8 DEF reconcileConfigurationConfigMap
  <2>2. CASE Keep
    BY <1>3, <2>2 DEF Keep, HandoffKept
  <2>3. CASE Write("handoff", updated) /\ "handoff" \notin stale
    <3>1. cache["handoff"] = api["handoff"]
      BY <1>1, <2>3, Names DEF FreshCopies
    <3>2. api'["handoff"] = updated
      BY <1>1, <2>3, Names DEF Write, TypeOK
    <3>3. updated.reload = api["handoff"].reload
      BY <1>2, <3>1 DEF HandoffUpdated, Object
    <3> QED
      BY <1>2, <3>2, <3>3
  <2> QED
    BY <2>1, <2>2, <2>3
<1>9. CASE TouchAgenticConfiguration
  <2> DEFINE new == [cache["handoff"] EXCEPT !.reload = @ + 1]
  <2>1. Keep \/ (Write("handoff", new) /\ "handoff" \notin stale)
    BY <1>9 DEF TouchAgenticConfiguration
  <2>2. CASE Keep
    BY <1>3, <2>2 DEF Keep, HandoffKept
  <2>3. CASE Write("handoff", new) /\ "handoff" \notin stale
    <3>1. cache["handoff"] = api["handoff"]
      BY <1>1, <2>3, Names DEF FreshCopies
    <3>2. api'["handoff"] = new
      BY <1>1, <2>3, Names DEF Write, TypeOK
    <3>3. new.reload = api["handoff"].reload + 1
      BY <1>2, <3>1 DEF Object
    <3> QED
      BY <1>2, <3>2, <3>3
  <2> QED
    BY <2>1, <2>2, <2>3
<1>10. CASE \E x \in Secrets \cup {"handoff"} : DeleteObject(x)
  <2>1. PICK x \in Secrets \cup {"handoff"} : DeleteObject(x)
    BY <1>10
  <2>2. x # "handoff"
    <3>1. x = "handoff" => api'["handoff"] = Absent
      BY <1>1, <2>1, Names DEF DeleteObject, Write, TypeOK
    <3> QED
      BY <3>1 DEF Absent
  <2> QED
    BY <1>1, <1>3, <2>1, <2>2, WriteElsewhere DEF DeleteObject
<1>11. CASE RotateCA \/ DropCA \/ RestoreCA
  <2>1. \E new : Write("source", new)
    BY <1>11 DEF RotateCA, DropCA, RestoreCA
  <2> QED
    BY <1>1, <1>3, <2>1, WriteElsewhere
<1>12. CASE \/ EditCR \/ RotateCert \/ RollPods \/ OtherEvent \/ Crash \/ UNCHANGED vars
            \/ \E w \in Watchers : HandleEvent(w)
            \/ \E t \in Threads : CallFails(t)
            \/ \E x \in Objects : Sync(x)
  BY <1>3, <1>12 DEF EditCR, RotateCert, RollPods, OtherEvent, Crash, HandleEvent,
     CallFails, Sync, vars, HandoffKept
<1>13. CASE Worker
  BY <1>3, <1>4, <1>5, <1>6, <1>7, <1>8, <1>13, Names DEF Worker, AppServer
<1>14. CASE \E w \in Watchers : Handler(w)
  BY <1>3, <1>4, <1>5, <1>9, <1>12, <1>14 DEF Handler, AppServer, Threads
<1> QED
  BY <1>10, <1>11, <1>12, <1>13, <1>14 DEF Next

\* No announced reload is taken back: the worker updates the handoff from its copy only
\* when that copy is the object.
THEOREM ReloadsAreKept == Spec => ReloadKept
<1>1. HandoffInv /\ [Next]_vars
        => [api["handoff"].there /\ api'["handoff"].there
              => api'["handoff"].reload >= api["handoff"].reload]_vars
  BY ReloadStep
<1> QED
  BY <1>1, HandoffInvariant, PTL DEF Spec, ReloadKept

----------------------------------------------------------------------------
(* The gate of the first publication.                                      *)

\* Nobody has edited the CR or deleted an object.
Undisturbed == budget["edit"] = MaxEdits /\ budget["delete"] = MaxDeletes

\* A goroutine works for the CR as it is: a refresh goes by it, and so does the pass.
ForSpec(t) ==
    /\ thread[t].pc \in {"refresh", "restart"} => thread[t].cr = spec
    /\ t = "worker" /\ thread[t].pc # "idle" => thread[t].olsconfig = spec

\* The Service and the CA Secret of the MCP server are there.
Trust == "mcp" \in spec /\ svc /\ api["mcp"].there

\* A handoff, or a copy of it, is the one of the CR; it names the MCP server only over
\* what its clients need. The first part is what makes the update path, which has no
\* gate, harmless: there is never another handoff to update.
Trusted(h) == (h.there => h.names = spec) /\ ("mcp" \in h.names => Trust)

TrustParts ==
    /\ \A t \in Threads : ForSpec(t)
    /\ "mcp" \in spec /\ cache["mcp"].there => api["mcp"].there
    /\ Trusted(api["handoff"]) /\ Trusted(cache["handoff"])

BudgetBounds == budget["edit"] <= MaxEdits /\ budget["delete"] <= MaxDeletes

TrustInv == BudgetBounds /\ (Undisturbed => TrustParts)

\* What spending a part of the budget does to the two that matter here.
LEMMA SpendBounds ==
    ASSUME TypeOK, BudgetBounds, NEW b \in Budgets, Spend(b)
    PROVE  /\ BudgetBounds'
           /\ Undisturbed' => Undisturbed /\ b \notin {"edit", "delete"}
<1>1. budget \in [Budgets -> Nat] /\ {"edit", "delete", "any"} \subseteq Budgets
  BY DEF TypeOK, Budgets
<1>2. budget' = [budget EXCEPT ![b] = @ - 1, !["any"] = @ - 1]
  BY DEF Spend
<1>3. \A c \in {"edit", "delete"} : budget'[c] = IF c = b THEN budget[c] - 1 ELSE budget[c]
  BY <1>1, <1>2
<1>4. budget["edit"] \in Nat /\ budget["delete"] \in Nat
  BY <1>1
<1> QED
  BY <1>3, <1>4, HandoffBounds DEF BudgetBounds, Undisturbed

\* An undisturbed cluster was so before, and the step was neither an edit nor a deletion.
LEMMA BudgetStep ==
    ASSUME TypeOK, BudgetBounds, [Next]_vars
    PROVE  /\ BudgetBounds'
           /\ Undisturbed' =>
                 /\ Undisturbed /\ ~EditCR /\ ~DropCA
                 /\ ~ \E x \in Secrets \cup {"handoff"} : DeleteObject(x)
<1> DEFINE Other == UNCHANGED budget \/ \E b \in {"ca", "cert", "fault", "crash"} : Spend(b)
<1>1. \/ Other \/ EditCR \/ DropCA
      \/ \E x \in Secrets \cup {"handoff"} : DeleteObject(x)
  <2>1. ASSUME NEW t \in Threads, AppServer(t) PROVE Other
    BY <2>1 DEF AppServer, RefreshClientCASecrets, reconcileClientCASecret, RollAppServer
  <2>2. CASE Worker
    BY <2>1, <2>2, Names, Zenon DEF Worker, StartReconcile, ReconcileDeployment,
       reconcileConfigurationConfigMap
  <2>3. ASSUME NEW w \in Watchers, Handler(w) PROVE Other
    BY <2>1, <2>3 DEF Handler, HandleEvent, TouchAgenticConfiguration, Threads
  <2>4. CASE \E t \in Threads : CallFails(t)
    BY <2>4 DEF CallFails
  <2>5. CASE RotateCA \/ RestoreCA \/ RotateCert \/ RollPods \/ OtherEvent \/ Crash
    BY <2>5 DEF RotateCA, RestoreCA, RotateCert, RollPods, OtherEvent, Crash
  <2>6. CASE (\E x \in Objects : Sync(x)) \/ UNCHANGED vars
    BY <2>6 DEF Sync, vars
  <2> HIDE DEF Other
  <2> QED
    BY <2>2, <2>3, <2>4, <2>5, <2>6, Zenon DEF Next
<1>2. ASSUME EditCR \/ DropCA \/ \E x \in Secrets \cup {"handoff"} : DeleteObject(x)
      PROVE  Spend("edit") \/ Spend("delete")
  BY <1>2 DEF EditCR, DropCA, DeleteObject
<1>3. {"edit", "delete", "ca", "cert", "fault", "crash"} \subseteq Budgets
  BY DEF Budgets
<1>4. CASE EditCR \/ DropCA \/ \E x \in Secrets \cup {"handoff"} : DeleteObject(x)
  BY <1>2, <1>3, <1>4, SpendBounds
<1>5. CASE ~(EditCR \/ DropCA \/ \E x \in Secrets \cup {"handoff"} : DeleteObject(x))
  <2>1. CASE UNCHANGED budget
    BY <1>5, <2>1 DEF BudgetBounds, Undisturbed
  <2>2. CASE \E b \in {"ca", "cert", "fault", "crash"} : Spend(b)
    BY <1>3, <1>5, <2>2, SpendBounds
  <2> QED
    BY <1>1, <1>5, <2>1, <2>2
<1> QED
  BY <1>4, <1>5

\* Steps of one goroutine that keep it working for the CR.
OthersWait(t) == \A u \in Threads \ {t} : thread'[u] = thread[u]

LEMMA GotoForSpec ==
    ASSUME TypeOK, NEW t \in Threads, ForSpec(t), thread[t].pc # "idle",
           NEW q \in PCs(t) \ {"refresh", "restart"}, Goto(t, q), spec' = spec
    PROVE  ForSpec(t)' /\ OthersWait(t)
<1>1. thread[t] \in Thread(t) /\ DOMAIN thread = Threads
  BY DEF TypeOK
<1>2. CASE q = "idle"
  BY <1>1, <1>2 DEF Goto, Idle, ForSpec, OthersWait
<1>3. CASE q # "idle"
  <2> DEFINE r == [thread[t] EXCEPT !.pc = q, !.todo = <<>>, !.desired = 0]
  <2>1. thread' = [thread EXCEPT ![t] = r]
    BY <1>3 DEF Goto
  <2>2. r.pc = q /\ r.olsconfig = thread[t].olsconfig
    BY <1>1 DEF Thread
  <2> HIDE DEF r
  <2> QED
    BY <1>1, <2>1, <2>2 DEF ForSpec, OthersWait
<1> QED
  BY <1>2, <1>3

LEMMA FailForSpec ==
    ASSUME TypeOK, NEW t \in Threads, ForSpec(t), thread[t].pc # "idle", Fail(t),
           spec' = spec
    PROVE  ForSpec(t)' /\ OthersWait(t)
<1>1. thread[t] \in Thread(t) /\ DOMAIN thread = Threads
  BY DEF TypeOK
<1>2. CASE t = "worker"
  <2> DEFINE r == [thread[t] EXCEPT !.pc = "handoff", !.todo = <<>>, !.desired = 0, !.failed = TRUE]
  <2>1. thread' = [thread EXCEPT ![t] = r]
    BY <1>2 DEF Fail
  <2>2. r.pc = "handoff" /\ r.olsconfig = thread[t].olsconfig
    BY <1>1 DEF Thread
  <2> HIDE DEF r
  <2> QED
    BY <1>1, <2>1, <2>2 DEF ForSpec, OthersWait
<1>3. CASE t # "worker"
  <2>1. AfterAppServer(t) \in PCs(t) \ {"refresh", "restart"}
    BY <1>3 DEF AfterAppServer, PCs, Threads, Watchers
  <2> QED
    BY <1>3, <2>1, GotoForSpec DEF Fail
<1> QED
  BY <1>2, <1>3

LEMMA RestartForSpec ==
    ASSUME TypeOK, NEW t \in Threads, t = "worker" => thread[t].olsconfig = spec,
           StartRestart(t), spec' = spec
    PROVE  ForSpec(t)' /\ OthersWait(t)
<1>1. thread[t] \in Thread(t) /\ DOMAIN thread = Threads
  BY DEF TypeOK
<1> DEFINE r == [thread[t] EXCEPT !.pc = "restart", !.cr = spec,
                                  !.since = cache["source"].ca, !.todo = clientCASecrets]
<1>2. thread' = [thread EXCEPT ![t] = r]
  BY DEF StartRestart
<1>3. r.pc = "restart" /\ r.cr = spec /\ r.olsconfig = thread[t].olsconfig
  BY <1>1 DEF Thread
<1> HIDE DEF r
<1> QED
  BY <1>1, <1>2, <1>3 DEF ForSpec, OthersWait

LEMMA RefreshedForSpec ==
    ASSUME TypeOK, NEW t \in Threads, ForSpec(t), thread[t].pc \in {"refresh", "restart"},
           Refreshed(t), spec' = spec
    PROVE  ForSpec(t)' /\ OthersWait(t)
<1>1. thread[t] \in Thread(t) /\ DOMAIN thread = Threads
  BY DEF TypeOK
<1> DEFINE rest == Tail(thread[t].todo)
           p == IF rest # <<>> THEN thread[t].pc
                ELSE IF thread[t].pc = "restart" THEN "roll" ELSE "deploy"
           r == [thread[t] EXCEPT !.todo = rest, !.desired = 0, !.pc = p]
<1>2. thread' = [thread EXCEPT ![t] = r]
  BY DEF Refreshed
<1>3. r.cr = thread[t].cr /\ r.olsconfig = thread[t].olsconfig
  BY <1>1 DEF Thread
<1> HIDE DEF r
<1> QED
  BY <1>1, <1>2, <1>3 DEF ForSpec, OthersWait

\* What a step leaves alone, or puts right, for the invariant to hold after it.
TrustKept ==
    /\ spec' = spec
    /\ \A t \in Threads : thread'[t] = thread[t] \/ ForSpec(t)'
    /\ "mcp" \in spec =>
          /\ svc => svc'
          /\ api["mcp"].there => api'["mcp"].there
          /\ cache'["mcp"] \in {cache["mcp"], api'["mcp"]}
    /\ api'["handoff"] = api["handoff"] \/ Trusted(api["handoff"])'
    /\ cache'["handoff"] \in {cache["handoff"], api["handoff"]}

LEMMA TrustCarried ==
    ASSUME TrustInv, BudgetBounds', Undisturbed' => Undisturbed /\ TrustKept
    PROVE  TrustInv'
<1> SUFFICES ASSUME Undisturbed, TrustKept PROVE TrustParts'
  BY Zenon DEF TrustInv
<1>1. TrustParts
  BY DEF TrustInv
<1>2. \A t \in Threads : ForSpec(t)'
  BY <1>1 DEF TrustParts, ForSpec, TrustKept
<1>3. Trust => Trust'
  BY DEF Trust, TrustKept
<1>4. ("mcp" \in spec /\ cache["mcp"].there => api["mcp"].there)'
  BY <1>1 DEF TrustParts, TrustKept
<1>5. \A h : Trusted(h) => /\ h.there => h.names = spec'
                           /\ "mcp" \in h.names => Trust'
  BY <1>3 DEF Trusted, TrustKept
<1>6. Trusted(api["handoff"]) /\ Trusted(cache["handoff"])
  BY <1>1 DEF TrustParts
<1>7. Trusted(api["handoff"])'
  BY <1>5, <1>6 DEF Trusted, TrustKept
<1>8. Trusted(cache["handoff"])'
  BY <1>5, <1>6 DEF Trusted, TrustKept
<1> QED
  BY <1>2, <1>4, <1>7, <1>8 DEF TrustParts

\* A write of an object other than the handoff and the Secret of the MCP server, or none.
LEMMA WrittenElsewhere ==
    ASSUME TypeOK, Keep \/ \E x, new : x \notin {"mcp", "handoff"} /\ Write(x, new)
    PROVE  /\ api'["handoff"] = api["handoff"]
           /\ "mcp" \in spec => api'["mcp"] = api["mcp"]
<1>1. "handoff" \in Objects /\ ("mcp" \in spec => "mcp" \in Objects)
  BY DEF TypeOK, Objects, Secrets
<1> QED
  BY <1>1 DEF TypeOK, Keep, Write

LEMMA TrustRefresh ==
    ASSUME HandoffInv, TrustParts, NEW t \in Threads, RefreshClientCASecrets(t)
    PROVE  TrustKept
<1>1. TypeOK /\ ForSpec(t) /\ thread[t].pc \in {"refresh", "restart"}
  BY DEF HandoffInv, TrustParts, RefreshClientCASecrets
<1>2. UNCHANGED <<spec, svc, cache>>
  BY DEF RefreshClientCASecrets, clusterVars
<1> DEFINE s == Head(thread[t].todo)
<1>3. s # "handoff"
  BY <1>1, HeadIsSecret, Names
<1> HIDE DEF s
<1>4. /\ \/ Refreshed(t) \/ Fail(t)
         \/ thread' = [thread EXCEPT ![t].desired = cache["source"].ca]
      /\ Keep \/ (Write(s, Absent) /\ ~Enabled(s, thread[t].cr))
  BY DEF RefreshClientCASecrets, generateClientCA, deleteClientCA, RefreshFails, s
<1>5. ForSpec(t)' /\ OthersWait(t)
  <2>1. CASE Refreshed(t) \/ Fail(t)
    BY <1>1, <1>2, <2>1, RefreshedForSpec, FailForSpec
  <2>2. CASE thread' = [thread EXCEPT ![t].desired = cache["source"].ca]
    <3> DEFINE r == [thread[t] EXCEPT !.desired = cache["source"].ca]
    <3>1. thread' = [thread EXCEPT ![t] = r] /\ DOMAIN thread = Threads
      BY <1>1, <2>2 DEF TypeOK
    <3>2. r.pc = thread[t].pc /\ r.cr = thread[t].cr /\ r.olsconfig = thread[t].olsconfig
      BY <1>1 DEF TypeOK, Thread
    <3> HIDE DEF r
    <3> QED
      BY <1>1, <1>2, <3>1, <3>2 DEF ForSpec, OthersWait
  <2> QED
    BY <1>4, <2>1, <2>2
<1>6. api'["handoff"] = api["handoff"]
  BY <1>1, <1>3, <1>4, WriteElsewhere DEF Keep, HandoffKept
<1>7. "mcp" \in spec /\ api["mcp"].there => api'["mcp"].there
  <2>1. "mcp" \in spec => "mcp" \in Objects
    BY <1>1 DEF TypeOK, Objects, Secrets
  <2>2. CASE Keep
    BY <2>2 DEF Keep
  <2>3. CASE Write(s, Absent) /\ ~Enabled(s, thread[t].cr)
    <3>1. "mcp" \in spec => s # "mcp"
      BY <1>1, <2>3 DEF ForSpec, Enabled
    <3> QED
      BY <1>1, <2>1, <2>3, <3>1 DEF Write, TypeOK
  <2> QED
    BY <1>4, <2>2, <2>3
<1> QED
  BY <1>2, <1>5, <1>6, <1>7 DEF TrustKept, OthersWait

LEMMA TrustWrite ==
    ASSUME HandoffInv, TrustParts, NEW t \in Threads, reconcileClientCASecret(t)
    PROVE  TrustKept
<1>1. TypeOK /\ ForSpec(t) /\ thread[t].pc \in {"refresh", "restart"}
  BY DEF HandoffInv, TrustParts, reconcileClientCASecret
<1>2. UNCHANGED <<spec, svc, cache>>
  BY DEF reconcileClientCASecret, clusterVars
<1> DEFINE s == Head(thread[t].todo)
           desired == [Absent EXCEPT !.there = TRUE, !.ca = thread[t].desired]
<1>3. s # "handoff" /\ desired.there = TRUE
  BY <1>1, HeadIsSecret, Names, DesiredTyped
<1> HIDE DEF s, desired
<1>4. (Refreshed(t) \/ Fail(t)) /\ (Keep \/ Write(s, desired))
  BY DEF reconcileClientCASecret, WriteClientCA, RefreshFails, s, desired
<1>5. ForSpec(t)' /\ OthersWait(t)
  BY <1>1, <1>2, <1>4, RefreshedForSpec, FailForSpec
<1>6. api'["handoff"] = api["handoff"]
  BY <1>1, <1>3, <1>4, WriteElsewhere DEF Keep, HandoffKept
<1>7. "mcp" \in spec /\ api["mcp"].there => api'["mcp"].there
  <2>1. "mcp" \in spec => "mcp" \in Objects
    BY <1>1 DEF TypeOK, Objects, Secrets
  <2> QED
    BY <1>1, <1>3, <1>4, <2>1 DEF Keep, Write, TypeOK
<1> QED
  BY <1>2, <1>5, <1>6, <1>7 DEF TrustKept, OthersWait

LEMMA TrustRoll ==
    ASSUME HandoffInv, TrustParts, NEW t \in Threads, RollAppServer(t)
    PROVE  TrustKept
<1>1. TypeOK /\ ForSpec(t) /\ thread[t].pc = "roll"
  BY DEF HandoffInv, TrustParts, RollAppServer
<1>2. UNCHANGED <<spec, svc, cache>>
  BY DEF RollAppServer
<1>3. /\ Goto(t, AfterAppServer(t)) \/ Fail(t)
      /\ Keep \/ \E new : Write("dep", new)
  BY Zenon DEF RollAppServer
<1>4. AfterAppServer(t) \in PCs(t) \ {"refresh", "restart"}
  BY DEF AfterAppServer, PCs, Threads, Watchers
<1>5. ForSpec(t)' /\ OthersWait(t)
  BY <1>1, <1>2, <1>3, <1>4, GotoForSpec, FailForSpec
<1>6. api'["handoff"] = api["handoff"] /\ ("mcp" \in spec => api'["mcp"] = api["mcp"])
  BY <1>1, <1>3, WrittenElsewhere
<1> QED
  BY <1>2, <1>5, <1>6 DEF TrustKept, OthersWait

LEMMA TrustStart ==
    ASSUME HandoffInv, TrustParts, StartReconcile
    PROVE  TrustKept
<1>1. TypeOK
  BY DEF HandoffInv
<1>2. UNCHANGED <<spec, api, cache>>
  BY DEF StartReconcile
<1>3. "mcp" \in spec /\ svc => svc'
  BY DEF StartReconcile
<1>4. PICK f \in BOOLEAN : thread' = [thread EXCEPT !["worker"] =
          [Idle EXCEPT !.pc = "refresh", !.olsconfig = spec, !.cr = spec,
                       !.todo = clientCASecrets, !.failed = f]]
  BY DEF StartReconcile
<1>5. ForSpec("worker")' /\ OthersWait("worker")
  BY <1>1, <1>2, <1>4, Names DEF ForSpec, OthersWait, TypeOK, Idle
<1> QED
  BY <1>2, <1>3, <1>5 DEF TrustKept, OthersWait

LEMMA TrustDeploy ==
    ASSUME HandoffInv, TrustParts, ReconcileDeployment
    PROVE  TrustKept
<1>1. TypeOK /\ ForSpec("worker") /\ thread["worker"].pc = "deploy"
  BY Names DEF HandoffInv, TrustParts, ReconcileDeployment
<1>2. UNCHANGED <<spec, svc, cache>>
  BY DEF ReconcileDeployment
<1>3. /\ Goto("worker", "handoff") \/ Fail("worker") \/ StartRestart("worker")
      /\ Keep \/ \E new : Write("dep", new)
  BY Zenon DEF ReconcileDeployment
<1>4. "handoff" \in PCs("worker") \ {"refresh", "restart"}
  BY DEF PCs
<1>5. thread["worker"].olsconfig = spec
  BY <1>1 DEF ForSpec
<1>6. ForSpec("worker")' /\ OthersWait("worker")
  BY <1>1, <1>2, <1>3, <1>4, <1>5, Names, GotoForSpec, FailForSpec, RestartForSpec
<1>7. api'["handoff"] = api["handoff"] /\ ("mcp" \in spec => api'["mcp"] = api["mcp"])
  BY <1>1, <1>3, WrittenElsewhere
<1> QED
  BY <1>2, <1>6, <1>7 DEF TrustKept, OthersWait

\* The worker ends its pass, or a handler its work.
LEMMA IdleForSpec ==
    ASSUME TypeOK, NEW t \in Threads, thread' = [thread EXCEPT ![t] = Idle]
    PROVE  ForSpec(t)' /\ OthersWait(t)
BY DEF TypeOK, ForSpec, OthersWait, Idle

\* The publication: the gate lets through what is trusted, and the update path finds
\* nothing to update.
LEMMA TrustPublish ==
    ASSUME HandoffInv, TrustParts, reconcileConfigurationConfigMap
    PROVE  TrustKept
<1>1. TypeOK /\ thread["worker"].olsconfig = spec
  BY Names DEF HandoffInv, TrustParts, ForSpec, reconcileConfigurationConfigMap
<1>2. UNCHANGED <<spec, svc, cache>>
  BY DEF reconcileConfigurationConfigMap, clusterVars
<1>3. thread' = [thread EXCEPT !["worker"] = Idle]
  BY DEF reconcileConfigurationConfigMap, EndPass
<1>4. ForSpec("worker")' /\ OthersWait("worker")
  BY <1>1, <1>3, Names, IdleForSpec
<1>5. \/ Keep
      \/ handoffCreatePrerequisites /\ Write("handoff", GenerateAgenticConfigurationConfigMap(spec))
  <2>1. cache["handoff"].there => cache["handoff"].names = spec
    BY DEF TrustParts, Trusted
  <2> QED
    BY <1>1, <2>1 DEF reconcileConfigurationConfigMap
<1>6. CASE Keep
  BY <1>2, <1>4, <1>6 DEF TrustKept, OthersWait, Keep
<1>7. CASE handoffCreatePrerequisites /\ Write("handoff", GenerateAgenticConfigurationConfigMap(spec))
  <2> DEFINE h == GenerateAgenticConfigurationConfigMap(spec)
  <2>1. h.names = spec
    BY DEF GenerateAgenticConfigurationConfigMap, Absent
  <2>2. "mcp" \in spec => Trust
    BY <1>1, <1>7 DEF handoffCreatePrerequisites, TrustParts, Trust
  <2>3. "mcp" \in spec => api'["mcp"] = api["mcp"]
    BY <1>1, <1>7, Names DEF Write, TypeOK, Secrets
  <2>4. Trust => Trust'
    BY <1>2, <2>3 DEF Trust
  <2>5. api'["handoff"] = h
    BY <1>1, <1>7, Names DEF Write, TypeOK
  <2> HIDE DEF h
  <2>6. Trusted(api["handoff"])'
    BY <1>2, <2>1, <2>2, <2>4, <2>5 DEF Trusted
  <2> QED
    BY <1>2, <1>4, <2>3, <2>6 DEF TrustKept, OthersWait
<1> QED
  BY <1>5, <1>6, <1>7

LEMMA TrustTouch ==
    ASSUME HandoffInv, TrustParts, TouchAgenticConfiguration
    PROVE  TrustKept
<1>1. TypeOK /\ FreshCopies
  BY DEF HandoffInv
<1>2. UNCHANGED <<spec, svc, cache>>
  BY DEF TouchAgenticConfiguration, clusterVars
<1>3. ForSpec("secretWatch")' /\ OthersWait("secretWatch")
  BY <1>1, Names, IdleForSpec DEF TouchAgenticConfiguration
<1> DEFINE new == [cache["handoff"] EXCEPT !.reload = @ + 1]
<1>4. Keep \/ Write("handoff", new)
  BY DEF TouchAgenticConfiguration
<1>5. CASE Keep
  BY <1>2, <1>3, <1>5 DEF TrustKept, OthersWait, Keep
<1>6. CASE Write("handoff", new)
  <2>1. new.names = cache["handoff"].names /\ new.there = cache["handoff"].there
    BY <1>1, Names DEF TypeOK, Object
  <2>2. api'["handoff"] = new
    BY <1>1, <1>6, Names DEF Write, TypeOK
  <2>3. "mcp" \in spec => api'["mcp"] = api["mcp"]
    BY <1>1, <1>6, Names DEF Write, TypeOK, Secrets
  <2>4. Trusted(cache["handoff"])
    BY DEF TrustParts
  <2> HIDE DEF new
  <2>5. Trusted(api["handoff"])'
    BY <1>2, <2>1, <2>2, <2>3, <2>4 DEF Trusted, Trust
  <2> QED
    BY <1>2, <1>3, <2>3, <2>5 DEF TrustKept, OthersWait
<1> QED
  BY <1>4, <1>5, <1>6

LEMMA TrustFails ==
    ASSUME HandoffInv, TrustParts, NEW t \in Threads, CallFails(t)
    PROVE  TrustKept
<1>1. TypeOK /\ ForSpec(t) /\ thread[t].pc # "idle"
  BY DEF HandoffInv, TrustParts, CallFails
<1>2. UNCHANGED <<spec, svc, api, cache>>
  BY DEF CallFails, clusterVars
<1>3. \/ thread' = [thread EXCEPT ![t] = Idle]
      \/ Fail(t)
  <2>1. thread[t].pc = "handoff" => t = "worker"
    BY <1>1 DEF TypeOK, Thread, PCs, Threads, Watchers
  <2> QED
    BY <2>1 DEF CallFails, EndPass
<1>4. ForSpec(t)' /\ OthersWait(t)
  BY <1>1, <1>2, <1>3, IdleForSpec, FailForSpec
<1> QED
  BY <1>2, <1>4 DEF TrustKept, OthersWait

LEMMA TrustNext == HandoffInv /\ TrustInv /\ [Next]_vars => TrustInv'
<1> SUFFICES ASSUME HandoffInv, TrustInv, [Next]_vars PROVE TrustInv'
  OBVIOUS
<1>1. TypeOK /\ BudgetBounds
  BY DEF HandoffInv, TrustInv
<1>2. /\ BudgetBounds'
      /\ Undisturbed' =>
            /\ Undisturbed /\ ~EditCR /\ ~DropCA
            /\ ~ \E x \in Secrets \cup {"handoff"} : DeleteObject(x)
  BY <1>1, BudgetStep
<1> SUFFICES ASSUME Undisturbed' PROVE TrustKept
  BY <1>2, TrustCarried
<1>3. TrustParts
  BY <1>2 DEF TrustInv
<1>4. ASSUME NEW t \in Threads, AppServer(t) PROVE TrustKept
  BY <1>3, <1>4, TrustRefresh, TrustWrite, TrustRoll DEF AppServer
<1>5. CASE Worker
  BY <1>3, <1>4, <1>5, Names, TrustStart, TrustDeploy, TrustPublish DEF Worker
<1>6. ASSUME NEW w \in Watchers, Handler(w) PROVE TrustKept
  <2>1. w \in Threads /\ w # "worker"
    BY DEF Threads, Watchers
  <2>2. CASE HandleEvent(w)
    <3>1. UNCHANGED <<spec, svc, api, cache>> /\ StartRestart(w)
      BY <2>2 DEF HandleEvent, clusterVars
    <3>2. ForSpec(w)' /\ OthersWait(w)
      BY <1>1, <2>1, <3>1, RestartForSpec
    <3> QED
      BY <3>1, <3>2 DEF TrustKept, OthersWait
  <2> QED
    BY <1>3, <1>4, <1>6, <2>1, <2>2, TrustTouch DEF Handler
<1>7. CASE \E t \in Threads : CallFails(t)
  BY <1>3, <1>7, TrustFails
<1>8. CASE RotateCA \/ RestoreCA
  <2>1. UNCHANGED <<spec, svc, cache, thread>> /\ \E new : Write("source", new)
    BY <1>8 DEF RotateCA, RestoreCA, clusterVars
  <2>2. api'["handoff"] = api["handoff"] /\ ("mcp" \in spec => api'["mcp"] = api["mcp"])
    BY <1>1, <2>1, WrittenElsewhere
  <2> QED
    BY <2>1, <2>2 DEF TrustKept
<1>9. CASE RotateCert \/ RollPods \/ OtherEvent \/ UNCHANGED vars
  <2>1. UNCHANGED <<spec, svc, api, cache, thread>>
    BY <1>9 DEF RotateCert, RollPods, OtherEvent, vars, clusterVars
  <2> QED
    BY <2>1 DEF TrustKept
<1>10. CASE Crash
  <2>1. UNCHANGED <<spec, svc, api>> /\ cache' = api /\ thread' = [t \in Threads |-> Idle]
    BY <1>10 DEF Crash, clusterVars
  <2>2. \A t \in Threads : ForSpec(t)'
    BY <2>1 DEF ForSpec, Idle
  <2> QED
    BY <2>1, <2>2 DEF TrustKept
<1>11. CASE \E x \in Objects : Sync(x)
  <2>1. PICK x \in Objects : Sync(x)
    BY <1>11
  <2>2. UNCHANGED <<spec, svc, api, thread>> /\ cache' = [cache EXCEPT ![x] = api[x]]
    BY <2>1 DEF Sync, clusterVars
  <2>3. \A y \in Objects : cache'[y] \in {cache[y], api[y]}
    BY <1>1, <2>2 DEF TypeOK
  <2>4. "mcp" \in spec => "mcp" \in Objects
    BY <1>1 DEF TypeOK, Objects, Secrets
  <2> QED
    BY <2>2, <2>3, <2>4, Names DEF TrustKept
<1> QED
  BY <1>2, <1>5, <1>6, <1>7, <1>8, <1>9, <1>10, <1>11 DEF Next

LEMMA TrustInit == Init => TrustInv
<1> SUFFICES ASSUME Init PROVE TrustInv
  OBVIOUS
<1>1. BudgetBounds
  BY HandoffBounds DEF Init, FullBudget, BudgetBounds
<1>2. api["handoff"] = Absent /\ cache["handoff"] = Absent
  BY Names DEF Init
<1>3. Trusted(api["handoff"]) /\ Trusted(cache["handoff"])
  BY <1>2 DEF Trusted, Absent
<1>4. \A t \in Threads : ForSpec(t)
  BY DEF Init, ForSpec, Idle
<1> QED
  BY <1>1, <1>3, <1>4 DEF TrustInv, TrustParts, Init

\* As long as nobody edits the CR or deletes objects, a handoff that names the MCP server
\* stands over its Service and its CA Secret, whatever failed, crashed or was rotated
\* before, and for every lag of the caches: what the gate of the first publication saw in
\* its copy is so in the API server.
THEOREM HandoffIsTrusted == Spec => []PublishedAfterTrust
<1>1. TrustInv => PublishedAfterTrust
  BY DEF TrustInv, Undisturbed, TrustParts, Trusted, Trust, PublishedAfterTrust
<1> QED
  BY <1>1, HandoffInvariant, TrustInit, TrustNext, PTL DEF Spec

=============================================================================
