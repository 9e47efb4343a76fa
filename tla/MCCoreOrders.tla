---------------------------- MODULE MCCoreOrders ----------------------------
(***************************************************************************)
(* CoreOrders on small instances: each run says which vaults, wallets,     *)
(* lenders and mints there are and what the two kinds of vaults hold.      *)
(***************************************************************************)
EXTENDS CoreOrders, TLC

CONSTANTS k1, k2, k3, p1, z1, w1, l1, l2, m1, m2, o1,  \* model values
          pdvFunds, zovFunds    \* initial balance of every PDV and every ZOV

\* One assignment of the roles to three different keys.
FixedRoles == {[manager |-> k1, admin |-> k2, guardian |-> k3]}

\* Admin and guardian are one key, or change places with the manager.
ShiftingRoles == FixedRoles \cup {[manager |-> k2, admin |-> k1, guardian |-> k1]}

VaultsFunded ==
  [owner \in Accounts |-> [mint \in Mints |->
     IF owner \in Partners THEN pdvFunds
     ELSE IF owner \in Zovs THEN zovFunds ELSE 0]]

\* Only vaults in the fee-bearing mints hold anything, so every token that moves
\* pays a fee.
FeesFunded ==
  [owner \in Accounts |-> [mint \in Mints |->
     IF mint \notin FeeBearing THEN 0
     ELSE IF owner \in Partners THEN pdvFunds
     ELSE IF owner \in Zovs THEN zovFunds ELSE 0]]

\* Lenders are interchangeable: no definition names one of them.
LenderSymmetry == Permutations(Lenders)
=============================================================================
