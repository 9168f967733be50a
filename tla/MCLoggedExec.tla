---------------------------- MODULE MCLoggedExec ----------------------------
(***************************************************************************)
(* Two machines: children that fill a pipe, cut a character, write before  *)
(* they read, or leave a process behind, against one that logs by halves   *)
(* of lines.                                                               *)
(***************************************************************************)
EXTENDS LoggedExec

CONSTANTS c1, c2

Kind(asks, capture, quiet, check, n, program) ==
  [asks |-> asks, capture |-> capture, quiet |-> quiet, check |-> check, input |-> n,
   steps |-> program]

Out(x) == <<"out", x>>
Err(x) == <<"err", x>>
In == <<"in">>
Fork == <<"fork">>

Leaves == Kind(FALSE, TRUE, FALSE, TRUE, 0, <<Out("x"), Fork, Err("x"), Out("y")>>)
Talks == Kind(FALSE, FALSE, FALSE, TRUE, 0, <<Out("x"), Fork, Err("newline"), Out("y")>>)
Cuts == Kind(FALSE, TRUE, FALSE, FALSE, 0, <<Out("half"), Out("half end"), Err("y")>>)
Reads == Kind(FALSE, FALSE, TRUE, TRUE, 2, <<Out("x"), Err("x"), In, Out("newline"), In>>)
Blocks == Kind(FALSE, TRUE, FALSE, TRUE, 3, <<Out("x"), Out("x"), Out("y"), In, In, In>>)

Lines == Kind(FALSE, FALSE, FALSE, TRUE, 0, <<Out("x"), Out("newline")>>)
Asks == Kind(TRUE, FALSE, TRUE, FALSE, 0, <<>>)
Refused == Kind(TRUE, TRUE, TRUE, TRUE, 0, <<Out("x")>>)
Silent == Kind(FALSE, FALSE, TRUE, FALSE, 0, <<>>)

Both(k, l) == [c \in Call |-> IF c = c1 THEN k ELSE l]

MCSetups ==
  {Both(Talks, Lines), Both(Talks, Asks), Both(Cuts, Lines), Both(Leaves, Silent),
   Both(Reads, Silent), Both(Cuts, Refused), Both(Blocks, Silent)}
=============================================================================
