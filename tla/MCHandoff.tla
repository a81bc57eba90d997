------------------------------ MODULE MCHandoff ------------------------------
(* Instances of AgenticHandoff for model checking.                           *)
EXTENDS AgenticHandoff
=============================================================================
