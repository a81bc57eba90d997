------------------------------ MODULE MCRollout ------------------------------
(* Instances of OperandRollout for model checking.                           *)
EXTENDS OperandRollout
=============================================================================
