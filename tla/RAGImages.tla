------------------------------- MODULE RAGImages -------------------------------
(***************************************************************************)
(* The user's RAG images (internal/controller/appserver: rag.go,           *)
(* reconcileImageStreams, GenerateOLSDeployment, updateOLSDeployment).     *)
(*                                                                         *)
(* Each image of spec.ols.rag gets an ImageStream, which imports it again  *)
(* and again, and an init container, rag-<index>, that copies its content  *)
(* into the application server's pod. An annotation of the Deployment      *)
(* tells OpenShift's image trigger controller which init container follows *)
(* which ImageStream; that controller writes the same image fields as the  *)
(* operator.                                                               *)
(*                                                                         *)
(* The ImageStreams come through a cache that lags; the Deployment's cache *)
(* is taken to be current (its lag is in OperandRollout).                  *)
(***************************************************************************)
EXTENDS Naturals, Sequences, SequencesExt

CONSTANTS
    Images,      \* the images to choose from
    Lists,       \* bound: the values of spec.ols.rag, the images of its entries
    MaxEvents    \* bound: edits of the CR, new contents of images in the registry,
                 \* ImageStreams edited or deleted by others, API errors

ASSUME RAGBounds == Lists \subseteq Seq(Images) /\ MaxEvents \in Nat

VARIABLES
    rag,       \* spec.ols.rag, the images of its entries
    edited,    \* it has changed since the Deployment was created
    registry,  \* the content of each image
    stream,    \* the ImageStreams: there, as generated, imported content (0: none)
    cached,    \* the same in the informer's cache
    unseen,    \* ImageStreams with writes that the cache has not seen
    dep,       \* the Deployment: init containers, RAG hash, triggers, rest of the spec;
               \* an image is by tag (content 0) or by the digest of a content
    rolled,    \* pods of the Deployment's present template run
    pods,      \* what their init containers copied
    other,     \* the version of the rest of the CR
    queued,    \* the CR's key is in the work queue
    pc,        \* of the worker: idle, apply, prune, deploy
    read,      \* spec.ols.rag as the worker read it
    listed,    \* the ImageStreams it listed
    todo,      \* ImageStreams left to apply or to delete
    budget     \* events to come

vars == <<rag, edited, registry, stream, cached, unseen, dep, pods, rolled, other, queued,
          pc, read, listed, todo, budget>>
streams == <<stream, unseen>>
worker == <<pc, read, listed, todo>>
deployed == <<dep, pods, rolled>>

NoStream == [there |-> FALSE, good |-> FALSE, latest |-> 0]
NewStream == [there |-> TRUE, good |-> TRUE, latest |-> 0]

Init ==
    /\ rag \in Lists /\ edited = FALSE
    /\ registry = [m \in Images |-> 1]
    /\ stream = [m \in Images |-> NoStream] /\ cached = stream /\ unseen = {}
    /\ dep = [there |-> FALSE, init |-> <<>>, hash |-> <<>>, triggers |-> <<>>, other |-> 0]
    /\ pods = <<>> /\ rolled = TRUE
    /\ other = 0
    /\ queued = TRUE
    /\ pc = "idle" /\ read = <<>> /\ listed = {} /\ todo = {}
    /\ budget = MaxEvents

Spend == budget > 0 /\ budget' = budget - 1

WriteStream(m, new) ==
    /\ stream' = [stream EXCEPT ![m] = new]
    /\ unseen' = unseen \cup {m}

----------------------------------------------------------------------------
(* The worker: reconcileImageStreams.                                      *)

\* uniqueStrings: an image named by two entries has one ImageStream.
UniqueImages(list) == ToSet(list)

\* The ImageStreams are named after their image, each by its own name.
StartReconcile ==
    /\ pc = "idle" /\ queued
    /\ queued' = FALSE
    /\ pc' = "apply"
    /\ read' = rag
    /\ listed' = {m \in Images : cached[m].there}
    /\ todo' = UniqueImages(rag)
    /\ UNCHANGED <<rag, edited, registry, streams, cached, deployed, other, budget>>

Leave == pc' = "idle" /\ read' = <<>> /\ listed' = {} /\ todo' = {}

\* The task fails: Phase 2 does not start, the key is queued again.
Fail ==
    /\ Leave /\ queued' = TRUE
    /\ UNCHANGED streams

Done(m) == todo' = todo \ {m} /\ UNCHANGED <<pc, queued, read, listed>>

\* Get, then Create, or Update when it differs; a stale copy is refused.
ApplyStream(m) ==
    /\ pc = "apply" /\ m \in todo
    /\ \/ /\ ~cached[m].there /\ ~stream[m].there
          /\ WriteStream(m, NewStream)
          /\ Done(m)
       \/ /\ cached[m].there /\ cached[m].good
          /\ Done(m) /\ UNCHANGED streams
       \/ /\ cached[m].there /\ ~cached[m].good /\ m \notin unseen
          /\ WriteStream(m, [stream[m] EXCEPT !.good = TRUE])
          /\ Done(m)
       \/ /\ \/ ~cached[m].there /\ stream[m].there
             \/ cached[m].there /\ ~cached[m].good /\ m \in unseen
          /\ Fail
    /\ UNCHANGED <<rag, edited, registry, cached, deployed, other, budget>>

\* Mutant: the ImageStreams that are no longer wanted stay.
EndApplyKeeping ==
    /\ pc = "apply" /\ todo = {}
    /\ pc' = "deploy"
    /\ UNCHANGED <<rag, edited, registry, streams, cached, deployed, other, queued,
                   read, listed, todo, budget>>

EndApply ==
    /\ pc = "apply" /\ todo = {}
    /\ pc' = "prune"
    /\ todo' = listed \ UniqueImages(read)
    /\ UNCHANGED <<rag, edited, registry, streams, cached, deployed, other, queued,
                   read, listed, budget>>

\* One that is gone already is no error.
PruneStream(m) ==
    /\ pc = "prune" /\ m \in todo
    /\ IF stream[m].there THEN WriteStream(m, NoStream) ELSE UNCHANGED streams
    /\ Done(m)
    /\ UNCHANGED <<rag, edited, registry, cached, deployed, other, budget>>

EndPrune ==
    /\ pc = "prune" /\ todo = {}
    /\ pc' = "deploy"
    /\ UNCHANGED <<rag, edited, registry, streams, cached, deployed, other, queued,
                   read, listed, todo, budget>>

TaskFails ==
    /\ pc # "idle"
    /\ Spend
    /\ Fail
    /\ UNCHANGED <<rag, edited, registry, cached, deployed, other>>

----------------------------------------------------------------------------
(* The worker: the Deployment.                                             *)

\* GenerateRAGInitContainers: one per entry, with the image as the CR writes it.
GenerateRAGInitContainers(list) ==
    [i \in DOMAIN list |-> [image |-> list[i], content |-> 0]]

\* generateImageStreamTriggers: the container of entry i follows the ImageStream of
\* its image.
GenerateImageStreamTriggers(list) == list

\* Mutant: the init containers are compared as well.
ChangedInit(d) ==
    d.hash # read \/ d.other # other \/ d.init # GenerateRAGInitContainers(read)

\* updateOLSDeployment: the comparison leaves the init containers out, the hash of
\* spec.ols.rag stands for them.
Changed(d) == d.hash # read \/ d.other # other

\* Mutant: the triggers are left out.
CreatedUntriggered ==
    [there |-> TRUE, init |-> GenerateRAGInitContainers(read), hash |-> read,
     triggers |-> <<>>, other |-> other]

Created ==
    [there |-> TRUE, init |-> GenerateRAGInitContainers(read), hash |-> read,
     triggers |-> GenerateImageStreamTriggers(read), other |-> other]

\* The spec and three annotations are replaced; the triggers are not among them.
Updated(d) ==
    [d EXCEPT !.init = GenerateRAGInitContainers(read), !.hash = read, !.other = other]

NewTemplate == rolled' = FALSE /\ pods' = <<>>

ReconcileDeployment ==
    /\ pc = "deploy"
    /\ \/ /\ ~dep.there
          /\ dep' = Created
          /\ edited' = (rag # read) /\ NewTemplate
       \/ /\ dep.there /\ Changed(dep)
          /\ dep' = Updated(dep)
          /\ NewTemplate /\ UNCHANGED edited
       \/ /\ dep.there /\ ~Changed(dep)
          /\ UNCHANGED <<deployed, edited>>
    /\ Leave
    /\ UNCHANGED <<rag, registry, streams, cached, other, queued, budget>>

----------------------------------------------------------------------------
(* The cluster.                                                            *)

\* An event of an ImageStream queues the key, Owns() registers the kind.
Sync(m) ==
    /\ m \in unseen
    /\ unseen' = unseen \ {m}
    /\ cached' = [cached EXCEPT ![m] = stream[m]]
    /\ queued' = TRUE
    /\ UNCHANGED <<rag, edited, registry, stream, deployed, other, worker, budget>>

\* The scheduled import of an ImageStream.
Import(m) ==
    /\ stream[m].there /\ stream[m].good /\ stream[m].latest # registry[m]
    /\ WriteStream(m, [stream[m] EXCEPT !.latest = registry[m]])
    /\ UNCHANGED <<rag, edited, registry, cached, deployed, other, queued, worker, budget>>

\* The image trigger controller: the init container a trigger names gets the content
\* its ImageStream has imported.
Trigger(i) ==
    /\ i \in DOMAIN dep.triggers
    /\ LET m == dep.triggers[i]
           resolved == [image |-> m, content |-> stream[m].latest]
       IN  /\ stream[m].there /\ stream[m].latest # 0
           /\ dep.init[i] # resolved
           /\ dep' = [dep EXCEPT !.init[i] = resolved]
    /\ NewTemplate
    /\ queued' = TRUE
    /\ UNCHANGED <<rag, edited, registry, streams, cached, other, worker, budget>>

\* New pods pull their images always, a tag as the registry has it.
RollPods ==
    /\ dep.there /\ ~rolled
    /\ pods' = [i \in DOMAIN dep.init |->
                  IF dep.init[i].content # 0 THEN dep.init[i]
                  ELSE [dep.init[i] EXCEPT !.content = registry[dep.init[i].image]]]
    /\ rolled' = TRUE
    /\ UNCHANGED <<rag, edited, registry, streams, cached, dep, other, queued, worker, budget>>

EditRAG ==
    /\ Spend
    /\ rag' \in Lists \ {rag}
    /\ edited' = (edited \/ dep.there)
    /\ queued' = TRUE
    /\ UNCHANGED <<registry, streams, cached, deployed, other, worker>>

\* Another part of the CR changes the pod spec.
EditOther ==
    /\ Spend
    /\ other' = other + 1
    /\ queued' = TRUE
    /\ UNCHANGED <<rag, edited, registry, streams, cached, deployed, worker>>

Push(m) ==
    /\ Spend
    /\ registry' = [registry EXCEPT ![m] = @ + 1]
    /\ UNCHANGED <<rag, edited, streams, cached, deployed, other, queued, worker>>

Tamper(m) ==
    /\ stream[m].there
    /\ Spend
    /\ \E new \in {NoStream, [stream[m] EXCEPT !.good = FALSE]} : WriteStream(m, new)
    /\ UNCHANGED <<rag, edited, registry, cached, deployed, other, queued, worker>>

Worker ==
    \/ StartReconcile \/ EndApply \/ EndPrune \/ ReconcileDeployment \/ TaskFails
    \/ \E m \in Images : ApplyStream(m) \/ PruneStream(m)

Triggers == \E i \in DOMAIN dep.init : Trigger(i)

Next ==
    \/ Worker \/ Triggers \/ RollPods \/ EditRAG \/ EditOther
    \/ \E m \in Images : Sync(m) \/ Import(m) \/ Push(m) \/ Tamper(m)

Spec == Init /\ [][Next]_vars

\* The worker, the informer, the imports, the trigger controller and the Deployment
\* controller go on.
Fairness ==
    /\ WF_vars(Worker) /\ WF_vars(Triggers) /\ WF_vars(RollPods)
    /\ \A m \in Images : WF_vars(Sync(m)) /\ WF_vars(Import(m))

FairSpec == Spec /\ Fairness

----------------------------------------------------------------------------
(* Properties.                                                             *)

\* In the end there is an ImageStream, as the operator generates it, for exactly the
\* images the CR names, whatever was edited, deleted or refused meanwhile.
StreamsFollowRAG ==
    <>[](\A m \in Images :
            /\ stream[m].there <=> m \in UniqueImages(rag)
            /\ stream[m].there => stream[m].good)

\* The operator and the image trigger controller, which write the same fields, do
\* not undo each other's writes for ever.
NoImageFight == <>[][dep' = dep]_vars

\* The pods have the content that the entries of the CR stand for.
Loaded ==
    /\ rolled /\ dep.there
    /\ pods = [i \in DOMAIN rag |-> [image |-> rag[i], content |-> registry[rag[i]]]]

\* The content of the images reaches the pods without the operator, as long as
\* spec.ols.rag is the one the Deployment was created with.
ContentReachesPods == <>[](edited \/ Loaded)

=============================================================================
