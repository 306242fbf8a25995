----------------------------- MODULE MCWidgetKeys -----------------------------
EXTENDS WidgetKeys, TLC

CONSTANTS owner, kim

(* The identity provider writes Kim's address with a capital letter. *)
MCEmailOf == [a \in Admin |-> IF a = kim THEN "Kim" ELSE "owner"]
MCNormal == [e \in Email |-> IF e = "Kim" THEN "kim" ELSE e]

MCPattern == {<<"*", "widget", "kr">>}
MCHost == {<<"www", "widget", "kr">>, <<"widget", "kr">>}

Symmetry == Permutations(Request) \cup Permutations(AppId)
=============================================================================
