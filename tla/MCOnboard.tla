------------------------------ MODULE MCOnboard ------------------------------
(* One host, two slots for runs: one wizard renders a good configuration,  *)
(* with and without leave to overwrite, or a bad one; an operator writes   *)
(* another good one.  A text that was cut off may be valid or not.         *)
EXTENDS Onboard

CONSTANTS ours, theirs, bad, torn

TwoForms ==
  {[text |-> ours, overwrite |-> TRUE], [text |-> ours, overwrite |-> FALSE],
   [text |-> bad, overwrite |-> TRUE]}
=============================================================================
