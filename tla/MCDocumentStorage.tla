-------------------------- MODULE MCDocumentStorage --------------------------
(* Two uploads, one after the other, of the same resource name. *)
EXTENDS DocumentStorage, TLC

CONSTANTS d1, d2, n1

MCNameOf == d1 :> n1 @@ d2 :> n1

MCNameOfOne == d1 :> n1

Symmetry == Permutations(Doc) \cup Permutations(Token)

(* Left to the runs of DocumentQueue: stopped workers, claims with nothing to
   claim, and attempts that already know that they lost their row, which are
   harmless here.  One retry cools down and one sweep is late at a time. *)
Bound ==
  /\ \A i \in Instance : tick[i] # "stopped" /\ (tick[i] = "claim" => Claimable # {})
  /\ \A t \in Token : ~lost[t]
  /\ Cardinality({d \in Doc : cooling[d]}) <= 1
  /\ Cardinality(sweeps) <= 1

(* Nothing here depends on the history of DocumentQueue. *)
View == <<docVars, upload, attemptVars, workerVars, storeVars>>
=============================================================================
