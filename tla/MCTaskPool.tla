---------------------------- MODULE MCTaskPool ----------------------------
(* Three tasks, two of which share a name, as the machines of two           *)
(* deployments do in `nixops check --all'.                                  *)
EXTENDS TaskPool, TLC

CONSTANTS t1, t2, t3

MCNameOf == t1 :> "web" @@ t2 :> "web" @@ t3 :> "db"
=============================================================================
