-------------------------- MODULE OLSConfigLifecycle --------------------------
(***************************************************************************)
(* What the operator promises about the life of the OLSConfig CR, without  *)
(* the worker, the queue, the CR's cache, faults or crashes: a CR is       *)
(* created bare, is guarded by the finalizer, collects objects only from   *)
(* then on, and goes, once it is terminating, only when each of its listed *)
(* objects is gone or was hidden from the operator when it looked, or      *)
(* waiting for them was given up. OLSConfigReconciler implements it.       *)
(***************************************************************************)
CONSTANTS
    Objects,     \* everything the operator may create
    Listed       \* the objects that finalization lists and waits for

VARIABLES
    stage,       \* of the current CR: absent, bare, guarded, terminating
    live,        \* objects of the current CR
    stale,       \* objects of CRs that are gone
    hidden,      \* listed objects of the current CR that the operator cannot see yet
    missed,      \* objects of the current CR that were hidden at the last look
    abandoned    \* the operator gave up waiting for the current CR's objects

vars == <<stage, live, stale, hidden, missed, abandoned>>

Init ==
    /\ stage = "absent"
    /\ live = {} /\ stale = {} /\ hidden = {} /\ missed = {}
    /\ abandoned = FALSE

Create ==
    /\ stage = "absent"
    /\ stage' = "bare"
    /\ UNCHANGED <<live, stale, hidden, missed, abandoned>>

Guard ==
    /\ stage = "bare"
    /\ stage' = "guarded"
    /\ UNCHANGED <<live, stale, hidden, missed, abandoned>>

\* A bare CR goes at once, a guarded one is terminating until Finish.
Delete ==
    /\ \/ stage = "bare" /\ stage' = "absent"
       \/ stage = "guarded" /\ stage' = "terminating"
    /\ UNCHANGED <<live, stale, hidden, missed, abandoned>>

\* A reconciliation that began before the deletion may still create objects; the
\* listed ones are hidden at first.
Populate(new) ==
    /\ stage \in {"guarded", "terminating"}
    /\ new \cap (live \cup stale) = {}
    /\ live' = live \cup new
    /\ hidden' = hidden \cup (new \cap Listed)
    /\ UNCHANGED <<stage, stale, missed, abandoned>>

\* The operator comes to see objects of the current CR.
See(shown) ==
    /\ hidden' = hidden \ shown
    /\ UNCHANGED <<stage, live, stale, missed, abandoned>>

\* Objects go.
Drain(gone) ==
    /\ live' = live \ gone
    /\ stale' = stale \ gone
    /\ hidden' = hidden \ gone
    /\ missed' = missed \ gone
    /\ UNCHANGED <<stage, abandoned>>

\* The operator looks for the last time and sees none of the listed objects.
LastLook ==
    /\ stage = "terminating"
    /\ live \cap Listed \subseteq hidden
    /\ missed' = missed \cup (live \cap Listed)
    /\ UNCHANGED <<stage, live, stale, hidden, abandoned>>

Abandon ==
    /\ stage = "terminating"
    /\ abandoned' = TRUE
    /\ UNCHANGED <<stage, live, stale, hidden, missed>>

Finish ==
    /\ stage = "terminating"
    /\ live \cap Listed \subseteq missed \/ abandoned
    /\ stage' = "absent"
    /\ live' = {} /\ hidden' = {} /\ missed' = {}
    /\ stale' = stale \cup live
    /\ abandoned' = FALSE

Next ==
    \/ Create \/ Guard \/ Delete \/ LastLook \/ Abandon \/ Finish
    \/ \E S \in SUBSET Objects : Populate(S) \/ See(S) \/ Drain(S)

Spec == Init /\ [][Next]_vars

=============================================================================
