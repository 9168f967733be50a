--------------------------- MODULE MCNetworkState ---------------------------
(* Three commands: what one does between two others.                       *)
EXTENDS NetworkState, TLC

CONSTANTS c1, c2, c3

Run(s, d, k1, k2, k3) ==
  [storage |-> s, driver |-> d, kind |-> c1 :> k1 @@ c2 :> k2 @@ c3 :> k3]

\* `nixops ssh' without --now unlocks twice, and the second time whoever has the
\* lock then: with copies and a real lock it is kept out.
SafeSetups ==
  { Run("remote", "real", "write", "write", "read"),
    Run("remote", "real", "read", "read", "write"),
    Run("legacy", "real", "write", "ssh", "ssh --now"),
    Run("legacy", "noop", "write", "ssh", "ssh --now") }
=============================================================================
