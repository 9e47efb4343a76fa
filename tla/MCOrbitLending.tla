--------------------------- MODULE MCOrbitLending ---------------------------
(***************************************************************************)
(* OrbitLending on small instances.  Every run has one partner, one        *)
(* beneficiary and one ZOV, which is the canonical one, in one mint.       *)
(***************************************************************************)
EXTENDS OrbitLending, TLC

CONSTANTS k1, k2, p1, o1, z1, w1, u1, u2, a1, m1, n1, r1,  \* model values
          walletFunds,   \* what every user's wallet holds initially
          pdvFunds,      \* what every partner's vault holds initially
          zovFunds       \* what every ZOV holds initially

Roles == {[manager |-> k1, admin |-> k2, guardian |-> k2]}

Funded ==
  [owner \in Users \cup UserWallets \cup {OrbitVault} \cup Partners \cup Zovs
             \cup Wallets |->
     [mint \in Mints |-> IF owner \in UserWallets THEN walletFunds
                         ELSE IF owner \in Partners THEN pdvFunds
                         ELSE IF owner \in Zovs THEN zovFunds ELSE 0]]

Number == [partner \in Partners |-> n1]

ProfileOf(type, wallets) ==
  [wallets |-> wallets, user_type |-> type, allowed_mint |-> m1,
   cliff_period |-> 1, max_principal |-> None, whitelisted_partners |-> {},
   cctp_recipients |-> Recipients]

CustodyProfiles == {ProfileOf("ICV", {a1})}

(***************************************************************************)
(* Loans among users who are registered already: every ICV user has put    *)
(* walletFunds into custody, NCW users' wallets hold as much, and the      *)
(* cliff of all has come.  The steps are those of LendingNext about loans; *)
(* wallets approve the Orbit vault's PDA alone, for all that they hold.    *)
(***************************************************************************)
CONSTANTS TypeOf,   \* [Users -> UserType]
          WalletOf  \* [Users -> UserWallets]

Registration(u) ==
  [wallets |-> {WalletOf[u]}, user_type |-> TypeOf[u], allowed_mint |-> m1,
   cliff_period |-> 1,
   principal_in |-> IF TypeOf[u] = "ICV" THEN walletFunds ELSE 0,
   principal_out |-> 0, max_principal |-> MaxU64,
   whitelisted_partners |-> {}, cctp_recipients |-> Recipients]

Deposited ==
  [owner \in Holders |-> [mint \in Mints |->
     IF owner \in Users
       THEN IF TypeOf[owner] = "ICV" THEN walletFunds ELSE 0
     ELSE IF owner \in UserWallets /\ \A u \in Users :
               WalletOf[u] = owner => TypeOf[u] = "ICV"
       THEN 0 ELSE InitialBalance[owner][mint]]]

LoansInit ==
  /\ \E roles \in RoleSets :
       config = [manager |-> roles.manager, admin |-> roles.admin,
                 guardian |-> roles.guardian, paused |-> FALSE, mints |-> Mints]
  /\ users = [u \in Users |-> Registration(u)]
  /\ bal = Deposited
  /\ withdraws = [u \in Users |-> None] /\ cliffs = [u \in Users |-> None]
  /\ ovault = None /\ now = 1 /\ carried = {}
  /\ beneficiaries = [pw \in Partners \X Wallets |->
                        [is_active |-> TRUE, allow_transient |-> TRUE]]
  /\ orders = [key \in OrderKeys |-> None]
  /\ audit = [key \in OrderKeys |-> Core!FreshHistory]
  /\ positions = [p \in OrderIds \X Users |-> None]
  /\ approved = [w \in UserWallets |-> NoApproval]
  /\ touched = {} /\ struck = {}

LoansNext ==
  \/ LendNext \/ CollectNext \/ SettleNext
  \/ \E wallet \in UserWallets : Approve(wallet, OrbitVault, walletFunds)
  \/ \E closing \in (SUBSET (OrderIds \X Users)) \ {{}} :
       RevokeAny(config.admin, {}, {}, {}, FALSE, closing)

LoansSpec == LoansInit /\ [][LoansNext]_allVars

\* The same without approvals: all loans come from custody.
CustodyNext ==
  \/ LendNext \/ CollectNext \/ SettleNext
  \/ \E closing \in (SUBSET (OrderIds \X Users)) \ {{}} :
       RevokeAny(config.admin, {}, {}, {}, FALSE, closing)

DiligentSpec == LoansInit /\ [][CustodyNext]_allVars /\ Diligence

\* TLC takes two states for one when they differ only in what decides no step and no
\* property of these runs is about: what beneficiaries have received, all flows but
\* those into the vault of an open order, and whether a user lends to every partner or
\* to the listed ones, which are the one partner there is.  (The last component only makes
\* TLC evaluate all variables, which it must have done to write a state to disk.)
AnyPartner(user) ==
  IF user = None THEN None ELSE [user EXCEPT !.whitelisted_partners = {}]

WhatMatters ==
  <<config, [owner \in Holders \ Wallets |-> bal[owner]],
    [u \in Users |-> AnyPartner(users[u])], withdraws, cliffs, ovault, now, carried,
    beneficiaries, orders,
    [key \in OrderKeys |-> IF Open(key) THEN audit[key].arrived ELSE 0], lendingVars,
    allVars = allVars>>

OneOfEach == [u \in Users |-> IF u = u1 THEN "ICV" ELSE "NCW"]
AllCustodial == [u \in Users |-> "ICV"]
OneWallet == [u \in Users |-> a1]
=============================================================================
