---------------------------- MODULE MCActivation ----------------------------
(***************************************************************************)
(* Two machines, one that may be in its rescue system; each option that    *)
(* changes what happens to a machine on its own, and the pairs that reboot *)
(* into a boot loader set without activation and set one that --test alone *)
(* would leave.                                                            *)
(***************************************************************************)
EXTENDS Activation, TLC

CONSTANTS m1, m2

Options ==
  {{}, {"dry-run"}, {"build-only"}, {"copy-only"}, {"dry-activate"}, {"test"},
   {"boot"}, {"allow-reboot"}, {"force-reboot"}, {"test", "allow-reboot"}, {"test", "boot"}}

PlainOptions == {{}, {"build-only"}}

AllAtOnce == -1

AllOrOne == {{m1, m2}, {m2}}
=============================================================================
