---------------------------- MODULE MCOrbitUsers ----------------------------
(***************************************************************************)
(* OrbitUsers on small instances.                                          *)
(***************************************************************************)
EXTENDS OrbitUsers, TLC

CONSTANTS k1, k2, u1, a1, m1, n1, r1, r2,  \* model values
          walletFunds    \* what every wallet holds initially

Roles == {[manager |-> k1, admin |-> k2, guardian |-> k2]}

WalletsFunded ==
  [owner \in Owners |-> [mint \in Mints |->
     IF owner \in UserWallets THEN walletFunds ELSE 0]]

ProfileOf(type, wallets) ==
  [wallets |-> wallets, user_type |-> type, allowed_mint |-> m1,
   cliff_period |-> None, max_principal |-> 1, whitelisted_partners |-> {},
   cctp_recipients |-> {}]

\* A user of each type; the NCW user has no wallet yet, the LP comes with a cliff and
\* without a cap.
TypeProfiles ==
  {ProfileOf("ICV", {a1}), ProfileOf("NCW", {}),
   [ProfileOf("LP", {a1}) EXCEPT !.max_principal = None, !.cliff_period = 1]}

\* Recipients are interchangeable: no definition names one of them.
RecipientSymmetry == Permutations(Recipients)
=============================================================================
