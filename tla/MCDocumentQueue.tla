--------------------------- MODULE MCDocumentQueue ---------------------------
EXTENDS DocumentQueue, TLC

CONSTANTS d1, d2, n1, n2
MCNameOf == (d1 :> n1) @@ (d2 :> n2)

(* NameOf matters only for which documents share a name, which a permutation
   of the documents preserves when all names differ. *)
Symmetry == Permutations(Token) \cup Permutations(Instance) \cup Permutations(Doc)
=============================================================================
