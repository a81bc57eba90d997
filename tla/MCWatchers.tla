------------------------------ MODULE MCWatchers ------------------------------
(* Instances of Watchers for model checking: a resource is named after its   *)
(* source, so that a configuration only lists the resources.                 *)
EXTENDS Watchers
SourceIsName(r) == r
=============================================================================
