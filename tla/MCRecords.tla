----------------------------- MODULE MCRecords -----------------------------
(***************************************************************************)
(* Three commands one after the other on a network with a lock, and three  *)
(* of those that take the flock at a time on one without.                  *)
(***************************************************************************)
EXTENDS Records, TLC

CONSTANTS a, b, x

Cmd(op, names, bad, from, to) ==
  [op |-> op, names |-> names, bad |-> bad, from |-> from, to |-> to]

Deploys == {Cmd("deploy", names, {}, a, b) : names \in {{}, {a}, {a, b}}}
Destroys == {Cmd("destroy", {}, {}, a, b)}

Others ==
  {Cmd("backup", {b}, {}, a, b), Cmd("delete", {}, {}, a, b),
   Cmd("delete-resources", {}, {}, a, b),
   Cmd("rename", {}, {}, a, b), Cmd("clone", {}, {}, a, b),
   Cmd("import", {a, b}, {}, a, b), Cmd("import", {a, b}, {b}, a, b),
   Cmd("set-args", {x}, {}, a, b)}

RowOf(n, index) == [depl |-> "first", name |-> n, obsolete |-> FALSE, index |-> index]

Before == {<<>>, <<RowOf(a, 0)>>, <<RowOf(b, 1), RowOf(a, 0)>>}

MCSetups ==
  [locked : {TRUE}, kind : [Process -> Deploys \cup Destroys \cup Others], rows : Before]
    \cup [locked : {FALSE}, kind : [Process -> Deploys \cup Destroys], rows : Before]

Alike == Permutations(Process)
=============================================================================
