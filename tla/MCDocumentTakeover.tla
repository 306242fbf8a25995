------------------------- MODULE MCDocumentTakeover -------------------------
(* One document fought over by two workers. *)
EXTENDS DocumentQueue

MCNameOf == [d \in Doc |-> CHOOSE n \in Name : TRUE]
=============================================================================
