-------------------------------- MODULE MCRAG --------------------------------
(* Instances of RAGImages for model checking.                                *)
EXTENDS RAGImages

\* One entry, two entries, an image that moves to another entry or is named twice.
MCLists == {<<"a">>, <<"b", "a">>, <<"b", "b">>}
=============================================================================
