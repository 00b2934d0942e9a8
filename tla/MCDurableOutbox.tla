-------------------------- MODULE MCDurableOutbox --------------------------
(***************************************************************************)
(* Small instances of DurableOutbox for TLC.                               *)
(***************************************************************************)
EXTENDS DurableOutbox, TLC

CONSTANTS k1, k2, e1, e2, w1, w2

\* One envelope may be tried once, the other twice.
Tries == e1 :> 1 @@ e2 :> 2
=============================================================================
