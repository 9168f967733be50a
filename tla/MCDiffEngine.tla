---------------------------- MODULE MCDiffEngine ----------------------------
(***************************************************************************)
(* Three handlers that depend on each other in every way there is, cycles  *)
(* included; two attributes of the definition, which the handlers share in *)
(* a few ways, and a reserved one.                                         *)
(***************************************************************************)
EXTENDS DiffEngine

CONSTANTS k1, k2, name

MCSetups ==
  [keys : {<<{k1}, {k1}, {k2}>>, <<{k2}, {k1}, {k1}>>, <<{k1}, {k1, k2}, {k2}>>},
   deps : {d \in [1 .. 3 -> SUBSET (1 .. 3)] : \A h \in 1 .. 3 : h \notin d[h]},
   definition : {[k \in Key |-> CASE k = name -> "none" [] k = k1 -> "v1" [] k = k2 -> "ref"]},
   state : {[k \in Key |-> IF k = name THEN "v1" ELSE "none"]},
   other : {"up"}]
=============================================================================
