----------------------------- MODULE OrbitUsers -----------------------------
(***************************************************************************)
(* The users of zynk-orbit: their registration, allowlists and limits, the *)
(* principal they put in and take out, and the Orbit vault.  Liquidity     *)
(* providers ("LP") pay into the canonical ZOV and are paid from the Orbit *)
(* vault; individual custody vaults ("ICV") keep their money in a token    *)
(* account of their User PDA; non-custodial wallets ("NCW") keep it in     *)
(* their own.  Admin, manager and the users' wallets sign instructions in  *)
(* any order.  None of these handlers looks at Core's pause.               *)
(***************************************************************************)
EXTENDS Tokens, FiniteSets

CONSTANTS
  Users,           \* user ids; also the owners of the ICV custody accounts
  UserWallets,     \* wallets that users may register
  OrbitVault,      \* the owner of the Orbit vault's token accounts
  CanonicalZov,    \* the ZOV "0001"
  PartnerNumbers,  \* six-digit partner numbers
  Recipients,      \* CCTP recipients: a domain and a mint recipient
  OvaultRoom,      \* the recipients the Orbit vault's account has room for
  Profiles,        \* what register_user may be asked to register
  RoleSets,        \* the assignments of Core's role keys to start from
  Amounts,         \* bound: the amounts and caps that callers ask for
  MaxTime          \* bound on the clock

VARIABLES
  users,      \* [Users -> User account or None]
  withdraws,  \* [Users -> WithdrawRequest account or None]
  cliffs,     \* [Users -> UpdateCliffPeriodRequest account or None]
  ovault,     \* the Orbit vault's recipients, None before its User account exists
  now,        \* Clock::unix_timestamp
  carried     \* history: the users with a withdraw request of an earlier registration

userVars == <<users, withdraws, cliffs, ovault, now, carried>>
usersVars == <<config, bal, userVars>>

\* i64::MAX, the cliff of a user registered without one: it never comes.
Never == MaxTime + 1
Times == 0..Never

UserType == {"LP", "NCW", "ICV"}
Owners == Users \cup UserWallets \cup {OrbitVault, CanonicalZov}
Holders == DOMAIN InitialBalance   \* whoever else has a token account

User == [wallets : SUBSET UserWallets,
         user_type : UserType,
         allowed_mint : Mints,
         cliff_period : Times,
         principal_in : U64,
         principal_out : U64,
         max_principal : U64,
         whitelisted_partners : SUBSET PartnerNumbers,
         cctp_recipients : SUBSET Recipients]

\* The arguments of register_user; None for an omitted cliff or maximum.
Profile == [wallets : SUBSET UserWallets,
            user_type : UserType,
            allowed_mint : Mints,
            cliff_period : Times \cup {None},
            max_principal : U64 \cup {None},
            whitelisted_partners : SUBSET PartnerNumbers,
            cctp_recipients : SUBSET Recipients]

WithdrawRequest == [amount : U64, destination : UserWallets, mint : Mints]

ASSUME UsersAssumption ==
  /\ MaxTime \in Nat /\ OvaultRoom \in Nat
  /\ Profiles \subseteq Profile
  /\ Owners \subseteq Holders
  /\ Users \cap (UserWallets \cup {OrbitVault, CanonicalZov}) = {}
  /\ InitialBalance \in [Holders -> [Mints -> Nat]]
  /\ Amounts \subseteq U64
  /\ RoleSets \subseteq [manager : Keys, admin : Keys, guardian : Keys]
  /\ None \notin User \cup WithdrawRequest \cup Times \cup U64

Registered(u) == users[u] # None
MintOf(u) == users[u].allowed_mint
IsUserWallet(wallet, u) == Registered(u) /\ wallet \in users[u].wallets
IsAdmin(key) == Initialized /\ key = config.admin

\* Whose token account holds what an LP or ICV user has paid in.
PaysInto(u) == IF users[u].user_type = "ICV" THEN u ELSE CanonicalZov
PaidFrom(u) == IF users[u].user_type = "ICV" THEN u ELSE OrbitVault
-----------------------------------------------------------------------------
(***************************************************************************)
(* Faulty variants of the definitions below, to see the properties fail.   *)
(***************************************************************************)
PrincipalFits_Gross(u, amount) == amount <= users[u].max_principal
WithdrawnUser_Unbooked(u, amount) == users[u]
WithdrawnUser_FromIn(u, amount) == [users[u] EXCEPT !.principal_in = @ - amount]
-----------------------------------------------------------------------------
(***************************************************************************)
(* Registration and limits: all but the wallets' signatures are the        *)
(* admin's.  A closed User account can be registered anew under its id;    *)
(* its custody and its pending requests are then still there.              *)
(***************************************************************************)
NewUser(profile) ==
  [wallets |-> profile.wallets,
   user_type |-> profile.user_type,
   allowed_mint |-> profile.allowed_mint,
   cliff_period |-> IF profile.cliff_period = None THEN Never
                                                   ELSE profile.cliff_period,
   principal_in |-> 0,
   principal_out |-> 0,
   max_principal |-> IF profile.max_principal = None THEN MaxU64
                                                     ELSE profile.max_principal,
   whitelisted_partners |-> profile.whitelisted_partners,
   cctp_recipients |-> profile.cctp_recipients]

RegisterUser(signer, u, profile) ==
  /\ IsAdmin(signer)
  /\ ~Registered(u)
  /\ MintAllowed(profile.allowed_mint)
  /\ profile.cliff_period # None => profile.cliff_period > now
  /\ users' = [users EXCEPT ![u] = NewUser(profile)]
  /\ carried' = IF withdraws[u] = None THEN carried ELSE carried \cup {u}
  /\ UNCHANGED <<config, bal, withdraws, cliffs, ovault, now>>

UpdateUser(u, user) ==
  /\ Registered(u)
  /\ users' = [users EXCEPT ![u] = user]
  /\ UNCHANGED <<config, bal, withdraws, cliffs, ovault, now, carried>>

UpdateWallets(signer, u, wallets) ==
  /\ IsAdmin(signer)
  /\ UpdateUser(u, [users[u] EXCEPT !.wallets = wallets])

UpdatePartnerWhitelist(signer, u, partners) ==
  /\ IsAdmin(signer)
  /\ UpdateUser(u, [users[u] EXCEPT !.whitelisted_partners = partners])

UpdateCctpRecipient(signer, u, recipients) ==
  /\ IsAdmin(signer)
  /\ UpdateUser(u, [users[u] EXCEPT !.cctp_recipients = recipients])

\* Add takes what the list lacks, Remove what it has: one entry changes.
OneEntryChanges(old, new) ==
  \/ \E entry \in new \ old : new = old \cup {entry}
  \/ \E entry \in old \ new : new = old \ {entry}

\* max_principal >= the checked difference principal_in - principal_out.
CapAllowed(u, max) ==
  /\ users[u].principal_out <= users[u].principal_in
  /\ users[u].principal_in - users[u].principal_out <= max

UpdateMaxPrincipal(signer, u, max) ==
  /\ IsAdmin(signer)
  /\ Registered(u)
  /\ CapAllowed(u, max)
  /\ UpdateUser(u, [users[u] EXCEPT !.max_principal = max])
-----------------------------------------------------------------------------
(***************************************************************************)
(* Principal comes in: a user's wallet deposits, or the manager pledges    *)
(* money of the Orbit vault to the user.                                   *)
(***************************************************************************)
PrincipalFits(u, amount) ==
  /\ users[u].principal_out <= users[u].principal_in
  /\ users[u].principal_in - users[u].principal_out + amount
       <= users[u].max_principal

PutIn(u, from, amount) ==
  /\ amount > 0
  /\ MintAllowed(MintOf(u))
  /\ PrincipalFits(u, amount)
  /\ amount <= bal[from][MintOf(u)]
  /\ users[u].principal_in + amount <= MaxU64
  /\ bal' = Transfer(bal, from, PaysInto(u), MintOf(u), amount)
  /\ users' = [users EXCEPT ![u].principal_in = @ + amount]
  /\ UNCHANGED <<config, withdraws, cliffs, ovault, now, carried>>

Deposit(wallet, u, amount) ==
  /\ IsUserWallet(wallet, u)
  /\ users[u].user_type # "NCW"
  /\ PutIn(u, wallet, amount)

\* Unlike deposit, pledge also takes an NCW user.
Pledge(signer, u, amount) ==
  /\ IsManager(signer)
  /\ Registered(u)
  /\ PutIn(u, OrbitVault, amount)
-----------------------------------------------------------------------------
(***************************************************************************)
(* Principal goes out: a wallet requests, the admin approves.  What the    *)
(* request was checked against is not looked at again on approval: neither *)
(* the user's balance of principal nor its wallets.                        *)
(***************************************************************************)
Covered(u, amount) ==
  /\ users[u].principal_out <= users[u].principal_in
  /\ amount <= users[u].principal_in - users[u].principal_out

RequestWithdraw(wallet, u, destination, amount) ==
  /\ amount > 0
  /\ IsUserWallet(wallet, u) /\ IsUserWallet(destination, u)
  /\ users[u].user_type # "NCW"
  /\ MintAllowed(MintOf(u))
  /\ withdraws[u] = None
  /\ Covered(u, amount)
  /\ withdraws' = [withdraws EXCEPT ![u] =
       [amount |-> amount, destination |-> destination, mint |-> MintOf(u)]]
  /\ UNCHANGED <<config, bal, users, cliffs, ovault, now, carried>>

WithdrawnUser(u, amount) == [users[u] EXCEPT !.principal_out = @ + amount]

ApproveWithdraw(signer, u) ==
  LET request == withdraws[u]
  IN  /\ IsAdmin(signer)
      /\ Registered(u) /\ request # None
      /\ users[u].user_type # "NCW"
      /\ request.mint = MintOf(u)
      /\ MintAllowed(request.mint)
      /\ users[u].principal_out + request.amount <= MaxU64
      /\ request.amount <= bal[PaidFrom(u)][request.mint]
      /\ bal' = Transfer(bal, PaidFrom(u), request.destination, request.mint,
                         request.amount)
      /\ users' = [users EXCEPT ![u] = WithdrawnUser(u, request.amount)]
      /\ withdraws' = [withdraws EXCEPT ![u] = None]
      /\ carried' = carried \ {u}
      /\ UNCHANGED <<config, cliffs, ovault, now>>

RevokeWithdraw(key, u) ==
  /\ Registered(u) /\ withdraws[u] # None
  /\ IsAdmin(key) \/ IsUserWallet(key, u)
  /\ withdraws' = [withdraws EXCEPT ![u] = None]
  /\ carried' = carried \ {u}
  /\ UNCHANGED <<config, bal, users, cliffs, ovault, now>>
-----------------------------------------------------------------------------
(***************************************************************************)
(* The cliff before which an ICV user cannot claim: the admin proposes a   *)
(* time to come, a wallet accepts it, by when it may have passed.          *)
(***************************************************************************)
UpdateCliffPeriod(signer, u, cliff) ==
  LET resolved == IF cliff = None THEN users[u].cliff_period ELSE cliff
  IN  /\ IsAdmin(signer)
      /\ Registered(u)
      /\ cliffs[u] = None
      /\ resolved > now
      /\ cliffs' = [cliffs EXCEPT ![u] = resolved]
      /\ UNCHANGED <<config, bal, users, withdraws, ovault, now, carried>>

ApproveCliffPeriod(wallet, u) ==
  /\ cliffs[u] # None
  /\ IsUserWallet(wallet, u)
  /\ users' = [users EXCEPT ![u].cliff_period = cliffs[u]]
  /\ cliffs' = [cliffs EXCEPT ![u] = None]
  /\ UNCHANGED <<config, bal, withdraws, ovault, now, carried>>

RejectCliffPeriod(key, u) ==
  /\ Registered(u) /\ cliffs[u] # None
  /\ IsAdmin(key) \/ IsUserWallet(key, u)
  /\ cliffs' = [cliffs EXCEPT ![u] = None]
  /\ UNCHANGED <<config, bal, users, withdraws, ovault, now, carried>>
-----------------------------------------------------------------------------
(***************************************************************************)
(* The Orbit vault pays users' wallets, or sends money to a recipient on   *)
(* another chain, where CCTP burns it here.                                *)
(***************************************************************************)
Disburse(signer, u, wallet, amount) ==
  /\ IsManager(signer)
  /\ amount > 0
  /\ IsUserWallet(wallet, u)
  /\ MintAllowed(MintOf(u))
  /\ amount <= bal[OrbitVault][MintOf(u)]
  /\ bal' = Transfer(bal, OrbitVault, wallet, MintOf(u), amount)
  /\ UNCHANGED <<config, userVars>>

Burn(b, from, mint, amount) == [b EXCEPT ![from][mint] = @ - amount]

\* cctp without a user account.
CctpFromVault(signer, mint, amount, recipient) ==
  /\ IsManager(signer)
  /\ amount > 0
  /\ MintAllowed(mint)
  /\ ovault # None
  /\ recipient \in ovault
  /\ amount <= bal[OrbitVault][mint]
  /\ bal' = Burn(bal, OrbitVault, mint, amount)
  /\ UNCHANGED <<config, userVars>>

AddOvaultCctpRecipient(signer, recipient) ==
  LET listed == IF ovault = None THEN {} ELSE ovault
  IN  /\ IsAdmin(signer)
      /\ recipient \notin listed
      /\ Cardinality(listed) < OvaultRoom
      /\ ovault' = listed \cup {recipient}
      /\ UNCHANGED <<config, bal, users, withdraws, cliffs, now, carried>>

RemoveOvaultCctpRecipient(signer, recipient) ==
  /\ IsAdmin(signer)
  /\ ovault # None
  /\ recipient \in ovault
  /\ ovault' = ovault \ {recipient}
  /\ UNCHANGED <<config, bal, users, withdraws, cliffs, now, carried>>

\* revoke: the admin closes any accounts of Orbit, users' and the vault's,
\* requests'; an account that does not exist fails the whole instruction.
Closed(accounts, closing) ==
  [u \in Users |-> IF u \in closing THEN None ELSE accounts[u]]

Revoke(signer, closeUsers, closeWithdraws, closeCliffs, closeVault) ==
  /\ IsAdmin(signer)
  /\ \A u \in closeUsers : Registered(u)
  /\ \A u \in closeWithdraws : withdraws[u] # None
  /\ \A u \in closeCliffs : cliffs[u] # None
  /\ closeVault => ovault # None
  /\ users' = Closed(users, closeUsers)
  /\ withdraws' = Closed(withdraws, closeWithdraws)
  /\ cliffs' = Closed(cliffs, closeCliffs)
  /\ ovault' = IF closeVault THEN None ELSE ovault
  /\ carried' = carried \ closeWithdraws
  /\ UNCHANGED <<config, bal, now>>
-----------------------------------------------------------------------------
Tick ==
  /\ now < MaxTime
  /\ now' = now + 1
  /\ UNCHANGED <<config, bal, users, withdraws, cliffs, ovault, carried>>

\* Anyone may send tokens to a custody account or to the Orbit vault.
Fund(wallet, to, mint, amount) ==
  /\ amount <= bal[wallet][mint]
  /\ bal' = Transfer(bal, wallet, to, mint, amount)
  /\ UNCHANGED <<config, userVars>>

RegistryNext ==
  \E signer \in Keys, u \in Users :
    \/ \E profile \in Profiles :
         \/ RegisterUser(signer, u, profile)
         \/ UpdateWallets(signer, u, profile.wallets)
    \/ \E partners \in SUBSET PartnerNumbers :
         /\ Registered(u)
         /\ OneEntryChanges(users[u].whitelisted_partners, partners)
         /\ UpdatePartnerWhitelist(signer, u, partners)
    \/ \E recipients \in SUBSET Recipients :
         /\ Registered(u)
         /\ OneEntryChanges(users[u].cctp_recipients, recipients)
         /\ UpdateCctpRecipient(signer, u, recipients)
    \/ \E max \in Amounts : UpdateMaxPrincipal(signer, u, max)

PrincipalNext ==
  \E u \in Users :
    \/ \E wallet, destination \in UserWallets, amount \in Amounts :
         \/ Deposit(wallet, u, amount)
         \/ RequestWithdraw(wallet, u, destination, amount)
    \/ \E signer \in Keys, amount \in Amounts, wallet \in UserWallets :
         \/ Pledge(signer, u, amount)
         \/ Disburse(signer, u, wallet, amount)
    \/ \E signer \in Keys : ApproveWithdraw(signer, u)
    \/ \E key \in Keys \cup UserWallets : RevokeWithdraw(key, u)

CliffNext ==
  \E u \in Users :
    \/ \E signer \in Keys, cliff \in Times \cup {None} :
         UpdateCliffPeriod(signer, u, cliff)
    \/ \E wallet \in UserWallets : ApproveCliffPeriod(wallet, u)
    \/ \E key \in Keys \cup UserWallets : RejectCliffPeriod(key, u)

VaultNext ==
  \/ \E signer \in Keys, recipient \in Recipients :
       \/ AddOvaultCctpRecipient(signer, recipient)
       \/ RemoveOvaultCctpRecipient(signer, recipient)
       \/ \E mint \in Mints, amount \in Amounts :
            CctpFromVault(signer, mint, amount, recipient)
  \/ \E wallet \in UserWallets, to \in Holders, mint \in Mints, amount \in Amounts :
       Fund(wallet, to, mint, amount)

RevokeNext ==
  \E signer \in Keys, closeUsers, closeWithdraws, closeCliffs \in SUBSET Users,
     closeVault \in BOOLEAN :
    Revoke(signer, closeUsers, closeWithdraws, closeCliffs, closeVault)

\* Registration starts when Core has been initialized and its roles are given.
UsersInit ==
  /\ \E roles \in RoleSets, mints \in (SUBSET Mints) \ {{}} :
       config = [manager |-> roles.manager, admin |-> roles.admin,
                 guardian |-> roles.guardian, paused |-> FALSE, mints |-> mints]
  /\ users = [u \in Users |-> None]
  /\ withdraws = [u \in Users |-> None]
  /\ cliffs = [u \in Users |-> None]
  /\ ovault = None
  /\ bal = InitialBalance
  /\ now = 0
  /\ carried = {}

UsersNext ==
  \/ RegistryNext \/ PrincipalNext \/ CliffNext \/ VaultNext \/ RevokeNext
  \/ Tick

UsersSpec == UsersInit /\ [][UsersNext]_usersVars
-----------------------------------------------------------------------------
(***************************************************************************)
(* Properties.                                                             *)
(***************************************************************************)

\* Types: principal in and out fit a u64, requests exist one per user, the Orbit
\* vault's list stays within its account, no balance goes below zero.
UsersTypeOK ==
  /\ config \in Config /\ config.mints # {}
  /\ bal \in [Holders -> [Mints -> Nat]]
  /\ users \in [Users -> User \cup {None}]
  /\ withdraws \in [Users -> WithdrawRequest \cup {None}]
  /\ cliffs \in [Users -> Times \cup {None}]
  /\ ovault = None \/ (ovault \subseteq Recipients /\ Cardinality(ovault) <= OvaultRoom)
  /\ now \in 0..MaxTime
  /\ carried \subseteq {u \in Users : withdraws[u] # None}

\* The cap holds whatever the order of deposits, pledges, withdrawals and changes
\* of the cap itself: what a user has in, net of what went out, never exceeds the
\* max_principal in force (deposit.rs 16, pledge.rs 17, users.rs 186).
WithinCap ==
  \A u \in Users : Registered(u) =>
    users[u].principal_in - users[u].principal_out <= users[u].max_principal

\* Custody is whole: the User PDA of an ICV user holds at least the principal the
\* user has recorded, however often the user has been revoked and registered anew
\* while money and requests stayed behind (not for a mint with transfer fees,
\* which credits more principal than what arrives).
CustodyBacks ==
  \A u \in Users :
    Registered(u) /\ users[u].user_type = "ICV" /\ MintOf(u) \notin FeeBearing =>
      users[u].principal_in - users[u].principal_out <= bal[u][MintOf(u)]
=============================================================================
