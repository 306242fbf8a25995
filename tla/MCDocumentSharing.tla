-------------------------- MODULE MCDocumentSharing --------------------------
EXTENDS DocumentSharing, TLC

Symmetry == Permutations(Request)

(* Super administrators are left out of the liveness run; supers never grows. *)
NoSupers == supers = {}
=============================================================================
