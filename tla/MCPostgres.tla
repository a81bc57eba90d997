------------------------------ MODULE MCPostgres ------------------------------
(* Instances of PostgresCredentials for model checking.                      *)
EXTENDS PostgresCredentials
=============================================================================
