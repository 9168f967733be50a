----------------------------- MODULE MCMachine -----------------------------
(***************************************************************************)
(* One machine, two ping threads, every command by itself and the pairs in *)
(* which what the first one leaves behind matters to the second.           *)
(***************************************************************************)
EXTENDS Machine

\* The networks and machines: an answer in time or not, a reboot that is
\* noticed or not.
Worlds == {<<TRUE, TRUE>>, <<TRUE, FALSE>>, <<FALSE, FALSE>>}

Setup(world, h, s, pinged, commands) ==
  [prompt |-> world[1], patient |-> world[2], host |-> h, state |-> s,
   pinged |-> pinged, todo |-> commands]

MCSetups ==
  {Setup(w, "up", "UP", TRUE, c) :
     w \in Worlds,
     c \in {<<"reboot --wait">>, <<"reboot", "deploy">>, <<"reboot", "reboot --wait">>}}
  \cup {Setup(<<FALSE, FALSE>>, h, s, FALSE, c) :
          h \in {"up", "down"}, s \in {"UP", "RESCUE"},
          c \in {<<"check">>, <<"deploy --check">>, <<"send-keys">>}}
=============================================================================
