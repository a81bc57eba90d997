---------------------------- MODULE MCLifecycle ----------------------------
(* Constants for model-checking OLSConfigReconciler. *)
EXTENDS OLSConfigReconciler
============================================================================
