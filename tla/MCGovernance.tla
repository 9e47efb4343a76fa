---------------------------- MODULE MCGovernance ----------------------------
(***************************************************************************)
(* Governance on three keys.  The delays keep the order of the code's      *)
(* (6 h, 12 h, 24 h and 48 h) on a clock with few ticks.                   *)
(***************************************************************************)
EXTENDS Governance, TLC

CONSTANTS k1, k2, k3, m1, m2

ScaledDelay ==
  [UpdateAdmin |-> 2, UpdateManager |-> 1, UpdateGuardian |-> 3, Unpause |-> 1]

\* The same order on a scale on which a pause can be lifted before, at and after the
\* delay of a request that was made while it lasted.
PauseDelay ==
  [UpdateAdmin |-> 4, UpdateManager |-> 3, UpdateGuardian |-> 5, Unpause |-> 2]

\* Three separate keys, and an admin that is also the guardian.
StartingRoles ==
  {[manager |-> k1, admin |-> k2, guardian |-> k3],
   [manager |-> k1, admin |-> k2, guardian |-> k2]}
=============================================================================
