-------------------------- MODULE OrbitUsers_proofs --------------------------
(***************************************************************************)
(* Proofs about OrbitUsers, for any number of users, wallets, mints and    *)
(* recipients and any width of the integers.                               *)
(***************************************************************************)
EXTENDS OrbitUsers, Tokens_proofs, FiniteSetTheorems

USE UsersAssumption, WidthAssumption

Balances == BalancesOf(Holders)
Net(user) == user.principal_in - user.principal_out

(***************************************************************************)
(* What is said of users here is said with amounts `owed` to them by       *)
(* others, which the instructions of this module do not change: nothing    *)
(* when users do not lend, the balances of their positions when they do.   *)
(***************************************************************************)
Nothing == [u \in Users |-> 0]

\* Custody of one user under the balances b, with what is owed, is whole.
Backed(u, user, b, owed) ==
  user.user_type = "ICV" /\ user.allowed_mint \notin FeeBearing =>
    Net(user) <= b[u][user.allowed_mint] + owed[u]

Sound(u, user, b, owed) ==
  Net(user) <= user.max_principal /\ Backed(u, user, b, owed)
AllSound(owed) == \A u \in Users : Registered(u) => Sound(u, users[u], bal, owed)

\* The vault's list is finite, so that adding to it counts one more.
UsersInv(owed) ==
  /\ UsersTypeOK
  /\ ovault # None => IsFiniteSet(ovault)
  /\ AllSound(owed)

-----------------------------------------------------------------------------
(***************************************************************************)
(* What typing says of one registered user.                                *)
(***************************************************************************)
LEMMA UserFacts ==
  ASSUME UsersTypeOK, NEW u \in Users, Registered(u)
  PROVE  /\ users[u] \in User
         /\ MintOf(u) \in Mints
         /\ users[u].wallets \subseteq UserWallets
         /\ users[u].principal_in \in Nat /\ users[u].principal_out \in Nat
         /\ users[u].max_principal \in Nat
         /\ users[u].cliff_period \in Times
BY DEF UsersTypeOK, Registered, User, MintOf, U64

LEMMA OwnersHold ==
  ASSUME NEW u \in Users
  PROVE  /\ u \in Holders /\ OrbitVault \in Holders /\ UserWallets \subseteq Holders
         /\ PaysInto(u) \in Holders /\ PaidFrom(u) \in Holders
BY DEF Owners, PaysInto, PaidFrom

\* Without debts from others, soundness of all is the two properties.
LEMMA SoundMeansProperties ==
  ASSUME UsersTypeOK
  PROVE  AllSound(Nothing) <=> WithinCap /\ CustodyBacks
<1>1. ASSUME NEW u \in Users, Registered(u)
      PROVE  bal[u][MintOf(u)] + Nothing[u] = bal[u][MintOf(u)]
  BY <1>1, UserFacts, OwnersHold DEF Nothing, UsersTypeOK
<1>2. QED
  BY <1>1 DEF AllSound, Sound, Backed, Net, WithinCap, CustodyBacks, MintOf

\* A step that changes no user and takes nothing from custody is sound.
LEMMA CustodyGrows ==
  ASSUME NEW owed \in [Users -> Nat], UsersInv(owed), users' = users, bal' \in Balances,
         \A u \in Users, m \in Mints : bal[u][m] <= bal'[u][m]
  PROVE  AllSound(owed)'
<1> SUFFICES ASSUME NEW u \in Users, Registered(u)
             PROVE  Sound(u, users[u], bal', owed)
  BY DEF AllSound, Registered
<1>1. Sound(u, users[u], bal, owed)
  BY DEF UsersInv, AllSound
<1>2. MintOf(u) \in Mints /\ users[u].principal_in \in Nat /\ users[u].principal_out \in Nat
  BY UserFacts DEF UsersInv
<1>3. /\ bal[u][MintOf(u)] <= bal'[u][MintOf(u)]
      /\ bal[u][MintOf(u)] \in Nat /\ bal'[u][MintOf(u)] \in Nat
  BY <1>2, OwnersHold DEF UsersInv, UsersTypeOK, Balances, BalancesOf
<1>4. QED
  BY <1>1, <1>2, <1>3 DEF Sound, Backed, Net, MintOf

\* A step that rewrites one user has to show that this one stays sound.
LEMMA OneUserChanges ==
  ASSUME NEW owed \in [Users -> Nat], UsersInv(owed), NEW u \in Users, NEW user \in User,
         users' = [users EXCEPT ![u] = user], bal' \in Balances,
         \A v \in Users \ {u}, m \in Mints : bal[v][m] <= bal'[v][m],
         Sound(u, user, bal', owed)
  PROVE  users' \in [Users -> User \cup {None}] /\ AllSound(owed)'
<1>1. users' \in [Users -> User \cup {None}]
  BY DEF UsersInv, UsersTypeOK
<1>2. ASSUME NEW v \in Users, Registered(v)'
      PROVE  Sound(v, users'[v], bal', owed)
  <2>1. CASE v = u
    BY <2>1 DEF UsersInv, UsersTypeOK
  <2>2. CASE v # u
    <3>1. users'[v] = users[v] /\ Registered(v)
      BY <1>2, <2>2 DEF UsersInv, UsersTypeOK, Registered
    <3>2. Sound(v, users[v], bal, owed)
      BY <3>1 DEF UsersInv, AllSound
    <3>3. /\ MintOf(v) \in Mints
          /\ users[v].principal_in \in Nat /\ users[v].principal_out \in Nat
      BY <3>1, UserFacts DEF UsersInv
    <3>4. /\ bal[v][MintOf(v)] <= bal'[v][MintOf(v)]
          /\ bal[v][MintOf(v)] \in Nat /\ bal'[v][MintOf(v)] \in Nat
      BY <2>2, <3>3, OwnersHold DEF UsersInv, UsersTypeOK, Balances, BalancesOf
    <3>5. QED
      BY <3>1, <3>2, <3>3, <3>4 DEF Sound, Backed, Net, MintOf
  <2>3. QED
    BY <2>1, <2>2
<1>3. QED
  BY <1>1, <1>2 DEF AllSound
-----------------------------------------------------------------------------
(***************************************************************************)
(* Registration and limits.                                                *)
(***************************************************************************)
LEMMA NewUserSound ==
  ASSUME NEW owed \in [Users -> Nat], UsersInv(owed), NEW u \in Users, NEW profile \in Profiles
  PROVE  NewUser(profile) \in User /\ Sound(u, NewUser(profile), bal, owed)
<1>1. profile \in Profile
  OBVIOUS
<1>2. NewUser(profile) \in User
  BY <1>1 DEF NewUser, Profile, User, U64, Times, Never
<1>3. /\ NewUser(profile).principal_in = 0 /\ NewUser(profile).principal_out = 0
      /\ NewUser(profile).max_principal \in Nat
      /\ NewUser(profile).allowed_mint \in Mints
  BY <1>1 DEF NewUser, Profile, U64
<1>4. bal[u][NewUser(profile).allowed_mint] \in Nat
  BY <1>3, OwnersHold DEF UsersInv, UsersTypeOK
<1>5. QED
  BY <1>2, <1>3, <1>4 DEF Sound, Backed, Net

LEMMA RegisterUserStep ==
  ASSUME NEW owed \in [Users -> Nat], UsersInv(owed), NEW signer, NEW u \in Users, NEW profile \in Profiles,
         RegisterUser(signer, u, profile)
  PROVE  UsersInv(owed)'
<1>1. users' \in [Users -> User \cup {None}] /\ AllSound(owed)'
  <2>1. bal' = bal /\ bal' \in Balances
    BY DEF RegisterUser, UsersInv, UsersTypeOK, Balances, BalancesOf
  <2>2. \A v \in Users, m \in Mints : bal[v][m] <= bal'[v][m]
    BY <2>1, OwnersHold DEF Balances, BalancesOf
  <2>3. /\ NewUser(profile) \in User /\ Sound(u, NewUser(profile), bal', owed)
        /\ users' = [users EXCEPT ![u] = NewUser(profile)]
    BY <2>1, NewUserSound DEF RegisterUser
  <2>4. QED
    BY <2>1, <2>2, <2>3, OneUserChanges
<1>2. carried' \subseteq {v \in Users : withdraws'[v] # None}
  BY DEF RegisterUser, UsersInv, UsersTypeOK
<1>3. QED
  BY <1>1, <1>2 DEF RegisterUser, UsersInv, UsersTypeOK

\* A change that leaves principal, type and mint alone, and a cap that covers it.
LEMMA UpdateUserStep ==
  ASSUME NEW owed \in [Users -> Nat], UsersInv(owed), NEW u \in Users, NEW user \in User, UpdateUser(u, user),
         user.principal_in = users[u].principal_in,
         user.principal_out = users[u].principal_out,
         user.user_type = users[u].user_type,
         user.allowed_mint = users[u].allowed_mint,
         Net(user) <= user.max_principal
  PROVE  UsersInv(owed)'
<1>1. bal' = bal /\ bal' \in Balances
  BY DEF UpdateUser, UsersInv, UsersTypeOK, Balances, BalancesOf
<1>2. \A v \in Users, m \in Mints : bal[v][m] <= bal'[v][m]
  BY <1>1, OwnersHold DEF Balances, BalancesOf
<1>3. Sound(u, user, bal', owed)
  BY <1>1 DEF UpdateUser, UsersInv, AllSound, Sound, Backed, Net
<1>4. users' \in [Users -> User \cup {None}] /\ AllSound(owed)'
  BY <1>1, <1>2, <1>3, OneUserChanges DEF UpdateUser
<1>5. QED
  BY <1>4 DEF UpdateUser, UsersInv, UsersTypeOK

LEMMA RegistryStep ==
  ASSUME NEW owed \in [Users -> Nat], UsersInv(owed), RegistryNext
  PROVE  UsersInv(owed)'
<1>1. ASSUME NEW signer \in Keys, NEW u \in Users, NEW profile \in Profiles,
             RegisterUser(signer, u, profile)
      PROVE  UsersInv(owed)'
  BY <1>1, RegisterUserStep
<1>2. ASSUME NEW u \in Users, Registered(u) PROVE
        /\ users[u] \in User /\ Net(users[u]) <= users[u].max_principal
  BY <1>2, UserFacts DEF UsersInv, AllSound, Sound
<1>3. ASSUME NEW signer \in Keys, NEW u \in Users, NEW profile \in Profiles,
             UpdateWallets(signer, u, profile.wallets)
      PROVE  UsersInv(owed)'
  <2> DEFINE user == [users[u] EXCEPT !.wallets = profile.wallets]
  <2>1. users[u] \in User /\ Net(users[u]) <= users[u].max_principal
    BY <1>2, <1>3 DEF UpdateWallets, UpdateUser
  <2>2. user \in User
    BY <2>1 DEF User, Profile
  <2>3. /\ user.principal_in = users[u].principal_in
        /\ user.principal_out = users[u].principal_out
        /\ user.user_type = users[u].user_type
        /\ user.allowed_mint = users[u].allowed_mint
        /\ user.max_principal = users[u].max_principal
    BY <2>1 DEF User
  <2>4. UpdateUser(u, user)
    BY <1>3 DEF UpdateWallets
  <2> HIDE DEF user
  <2>5. QED
    BY <2>1, <2>2, <2>3, <2>4, UpdateUserStep DEF Net
<1>4. ASSUME NEW signer \in Keys, NEW u \in Users,
             NEW partners \in SUBSET PartnerNumbers,
             UpdatePartnerWhitelist(signer, u, partners)
      PROVE  UsersInv(owed)'
  <2> DEFINE user == [users[u] EXCEPT !.whitelisted_partners = partners]
  <2>1. users[u] \in User /\ Net(users[u]) <= users[u].max_principal
    BY <1>2, <1>4 DEF UpdatePartnerWhitelist, UpdateUser
  <2>2. user \in User
    BY <2>1 DEF User
  <2>3. /\ user.principal_in = users[u].principal_in
        /\ user.principal_out = users[u].principal_out
        /\ user.user_type = users[u].user_type
        /\ user.allowed_mint = users[u].allowed_mint
        /\ user.max_principal = users[u].max_principal
    BY <2>1 DEF User
  <2>4. UpdateUser(u, user)
    BY <1>4 DEF UpdatePartnerWhitelist
  <2> HIDE DEF user
  <2>5. QED
    BY <2>1, <2>2, <2>3, <2>4, UpdateUserStep DEF Net
<1>5. ASSUME NEW signer \in Keys, NEW u \in Users,
             NEW recipients \in SUBSET Recipients,
             UpdateCctpRecipient(signer, u, recipients)
      PROVE  UsersInv(owed)'
  <2> DEFINE user == [users[u] EXCEPT !.cctp_recipients = recipients]
  <2>1. users[u] \in User /\ Net(users[u]) <= users[u].max_principal
    BY <1>2, <1>5 DEF UpdateCctpRecipient, UpdateUser
  <2>2. user \in User
    BY <2>1 DEF User
  <2>3. /\ user.principal_in = users[u].principal_in
        /\ user.principal_out = users[u].principal_out
        /\ user.user_type = users[u].user_type
        /\ user.allowed_mint = users[u].allowed_mint
        /\ user.max_principal = users[u].max_principal
    BY <2>1 DEF User
  <2>4. UpdateUser(u, user)
    BY <1>5 DEF UpdateCctpRecipient
  <2> HIDE DEF user
  <2>5. QED
    BY <2>1, <2>2, <2>3, <2>4, UpdateUserStep DEF Net
<1>6. ASSUME NEW signer \in Keys, NEW u \in Users, NEW max \in Amounts,
             UpdateMaxPrincipal(signer, u, max)
      PROVE  UsersInv(owed)'
  <2> DEFINE user == [users[u] EXCEPT !.max_principal = max]
  <2>1. users[u] \in User
    BY <1>2, <1>6 DEF UpdateMaxPrincipal
  <2>2. user \in User
    BY <2>1 DEF User
  <2>3. /\ user.principal_in = users[u].principal_in
        /\ user.principal_out = users[u].principal_out
        /\ user.user_type = users[u].user_type
        /\ user.allowed_mint = users[u].allowed_mint
        /\ user.max_principal = max
    BY <2>1 DEF User
  <2>4. UpdateUser(u, user) /\ Net(users[u]) <= max
    BY <1>6 DEF UpdateMaxPrincipal, CapAllowed, Net
  <2> HIDE DEF user
  <2>5. QED
    BY <2>2, <2>3, <2>4, UpdateUserStep DEF Net
<1>7. QED
  BY <1>1, <1>3, <1>4, <1>5, <1>6 DEF RegistryNext
-----------------------------------------------------------------------------
(***************************************************************************)
(* Principal in and out.                                                   *)
(***************************************************************************)
LEMMA PutInStep ==
  ASSUME NEW owed \in [Users -> Nat], UsersInv(owed), NEW u \in Users, Registered(u),
         NEW from \in UserWallets \cup {OrbitVault}, NEW amount \in Amounts,
         PutIn(u, from, amount)
  PROVE  UsersInv(owed)'
<1> DEFINE user == [users[u] EXCEPT !.principal_in = @ + amount]
<1>1. /\ users[u] \in User /\ MintOf(u) \in Mints
      /\ users[u].principal_in \in Nat /\ users[u].principal_out \in Nat
      /\ users[u].max_principal \in Nat
  BY UserFacts DEF UsersInv
<1>2. /\ from \in Holders /\ PaysInto(u) \in Holders /\ Users \subseteq Holders
      /\ from \notin Users /\ amount \in Nat /\ amount <= bal[from][MintOf(u)]
      /\ bal \in Balances
  BY OwnersHold DEF PutIn, UsersInv, UsersTypeOK, Balances, BalancesOf, U64, Owners
<1>3. bal' = Transfer(bal, from, PaysInto(u), MintOf(u), amount)
  BY DEF PutIn
<1>4. bal' \in Balances
  BY <1>1, <1>2, <1>3, TransferKeepsType DEF Balances
<1>5. \A v \in Users, m \in Mints :
        /\ bal[v][m] <= bal'[v][m]
        /\ v = PaysInto(u) /\ m = MintOf(u) =>
             bal'[v][m] = bal[v][m] + Arrives(MintOf(u), amount)
  <2> SUFFICES ASSUME NEW v \in Users, NEW m \in Mints
               PROVE  /\ bal[v][m] <= bal'[v][m]
                      /\ v = PaysInto(u) /\ m = MintOf(u) =>
                           bal'[v][m] = bal[v][m] + Arrives(MintOf(u), amount)
    OBVIOUS
  <2> DEFINE moved == Transfer(bal, from, PaysInto(u), MintOf(u), amount)
  <2>1. /\ v \in Holders /\ v # from /\ bal \in BalancesOf(Holders)
        /\ from \in Holders /\ PaysInto(u) \in Holders /\ MintOf(u) \in Mints
        /\ amount \in Nat /\ amount <= bal[from][MintOf(u)]
    BY <1>1, <1>2 DEF Balances, BalancesOf
  <2>2. /\ bal[v][m] <= moved[v][m]
        /\ v = PaysInto(u) /\ m = MintOf(u) =>
             moved[v][m] = bal[v][m] + Arrives(MintOf(u), amount)
    BY <2>1, TransferTakesFromSource
  <2>3. bal' = moved
    BY <1>3
  <2> HIDE DEF moved
  <2>4. QED
    BY <2>2, <2>3
<1>6. /\ user.principal_in = users[u].principal_in + amount
      /\ user.principal_out = users[u].principal_out
      /\ user.user_type = users[u].user_type
      /\ user.allowed_mint = users[u].allowed_mint
      /\ user.max_principal = users[u].max_principal
  BY <1>1 DEF User
<1>7. user \in User
  <2>1. users[u].principal_in + amount <= MaxU64
    BY DEF PutIn
  <2>2. users[u].principal_in + amount \in U64
    BY <1>1, <1>2, <2>1 DEF U64
  <2>3. QED
    BY <1>1, <2>2 DEF User
<1>8. users' = [users EXCEPT ![u] = user]
  <2>1. users' = [users EXCEPT ![u].principal_in = @ + amount]
    BY DEF PutIn
  <2>2. QED
    BY <2>1, Zenon
<1> HIDE DEF user
<1>9. Net(user) <= user.max_principal
  BY <1>1, <1>2, <1>6 DEF PutIn, PrincipalFits, Net
<1>10. Backed(u, user, bal', owed)
  <2> SUFFICES ASSUME users[u].user_type = "ICV", MintOf(u) \notin FeeBearing
               PROVE  Net(user) <= bal'[u][MintOf(u)] + owed[u]
    BY <1>6 DEF Backed, MintOf
  <2>1. Net(users[u]) <= bal[u][MintOf(u)] + owed[u] /\ owed[u] \in Nat
    BY DEF UsersInv, AllSound, Sound, Backed, MintOf
  <2>2. bal'[u][MintOf(u)] = bal[u][MintOf(u)] + amount
    BY <1>1, <1>2, <1>5, ArrivesBounds DEF PaysInto
  <2>3. bal[u][MintOf(u)] \in Nat
    BY <1>1, <1>2 DEF Balances, BalancesOf
  <2>4. QED
    BY <1>1, <1>2, <1>6, <2>1, <2>2, <2>3 DEF Net
<1>11. users' \in [Users -> User \cup {None}] /\ AllSound(owed)'
  BY <1>4, <1>5, <1>7, <1>8, <1>9, <1>10, OneUserChanges DEF Sound
<1>12. QED
  BY <1>4, <1>11 DEF PutIn, UsersInv, UsersTypeOK, Balances, BalancesOf

LEMMA ApproveWithdrawStep ==
  ASSUME NEW owed \in [Users -> Nat], UsersInv(owed), NEW signer, NEW u \in Users, ApproveWithdraw(signer, u)
  PROVE  UsersInv(owed)'
<1> DEFINE request == withdraws[u]
           user == WithdrawnUser(u, request.amount)
<1>1. /\ users[u] \in User /\ MintOf(u) \in Mints
      /\ users[u].principal_in \in Nat /\ users[u].principal_out \in Nat
      /\ users[u].max_principal \in Nat
  BY UserFacts DEF UsersInv, ApproveWithdraw
<1>2. request \in WithdrawRequest /\ request.mint = MintOf(u)
  BY DEF ApproveWithdraw, UsersInv, UsersTypeOK
<1>3. /\ request.amount \in Nat /\ request.destination \in UserWallets
      /\ request.amount <= bal[PaidFrom(u)][MintOf(u)]
      /\ users[u].principal_out + request.amount <= MaxU64
      /\ bal' = Transfer(bal, PaidFrom(u), request.destination, MintOf(u), request.amount)
      /\ users' = [users EXCEPT ![u] = user]
  BY <1>2 DEF ApproveWithdraw, WithdrawRequest, U64
<1>4. /\ user.principal_in = users[u].principal_in
      /\ user.principal_out = users[u].principal_out + request.amount
      /\ user.user_type = users[u].user_type
      /\ user.allowed_mint = users[u].allowed_mint
      /\ user.max_principal = users[u].max_principal
  BY <1>1 DEF User, WithdrawnUser
<1>5. user \in User
  BY <1>1, <1>3 DEF User, WithdrawnUser, U64
<1>6. /\ PaidFrom(u) \in Holders /\ request.destination \in Holders
      /\ Users \subseteq Holders /\ bal \in Balances
      /\ request.destination \notin Users
  BY <1>3, OwnersHold DEF UsersInv, UsersTypeOK, Balances, BalancesOf, Owners
<1> HIDE DEF user, request
<1>7. bal' \in Balances
  BY <1>1, <1>3, <1>6, TransferKeepsType DEF Balances
<1>8. \A v \in Users \ {u}, m \in Mints : bal[v][m] <= bal'[v][m]
  <2>1. ASSUME NEW v \in Users \ {u} PROVE v # PaidFrom(u)
    BY DEF PaidFrom
  <2>2. QED
    BY <1>1, <1>3, <1>6, <2>1, TransferTakesFromSource DEF Balances
<1>9. Net(user) = Net(users[u]) - request.amount
  BY <1>1, <1>3, <1>4 DEF Net
<1>10. Sound(u, users[u], bal, owed)
  BY DEF UsersInv, AllSound, ApproveWithdraw
<1>11. Net(user) <= user.max_principal
  BY <1>1, <1>3, <1>4, <1>9, <1>10 DEF Sound, Net
<1>12. Backed(u, user, bal', owed)
  <2> SUFFICES ASSUME users[u].user_type = "ICV", MintOf(u) \notin FeeBearing
               PROVE  Net(user) <= bal'[u][MintOf(u)] + owed[u]
    BY <1>4 DEF Backed, MintOf
  <2>1. PaidFrom(u) = u /\ u # request.destination
    BY <1>6 DEF PaidFrom
  <2>2. bal'[u] = [bal[u] EXCEPT ![MintOf(u)] = @ - request.amount]
    <3> DEFINE moved == Transfer(bal, u, request.destination, MintOf(u), request.amount)
    <3>1. /\ bal \in BalancesOf(Holders) /\ u \in Holders
          /\ request.destination \in Holders /\ u # request.destination
          /\ MintOf(u) \in Mints /\ request.amount \in Nat
          /\ request.amount <= bal[u][MintOf(u)]
      BY <1>1, <1>3, <1>6, <2>1 DEF Balances, BalancesOf
    <3>2. moved[u] = [bal[u] EXCEPT ![MintOf(u)] = @ - request.amount]
      BY <3>1, TransferDebits
    <3>3. bal' = moved
      BY <1>3, <2>1
    <3> HIDE DEF moved
    <3>4. QED
      BY <3>2, <3>3
  <2>3. bal'[u][MintOf(u)] = bal[u][MintOf(u)] - request.amount
    BY <1>1, <1>6, <2>1, <2>2 DEF Balances, BalancesOf
  <2>4. /\ Net(users[u]) <= bal[u][MintOf(u)] + owed[u]
        /\ bal[u][MintOf(u)] \in Nat /\ owed[u] \in Nat
    BY <1>1, <1>6, <1>10, <2>1 DEF Sound, Backed, MintOf, Balances, BalancesOf
  <2>5. QED
    BY <1>1, <1>3, <1>9, <2>3, <2>4 DEF Net
<1>13. users' \in [Users -> User \cup {None}] /\ AllSound(owed)'
  BY <1>3, <1>5, <1>7, <1>8, <1>11, <1>12, OneUserChanges DEF Sound
<1>14. QED
  BY <1>7, <1>13 DEF ApproveWithdraw, UsersInv, UsersTypeOK, Balances, BalancesOf

\* A request is typed and starts no claim on anything.
LEMMA RequestsStep ==
  ASSUME NEW owed \in [Users -> Nat], UsersInv(owed), NEW u \in Users,
         \/ \E wallet, destination \in UserWallets, amount \in Amounts :
              RequestWithdraw(wallet, u, destination, amount)
         \/ \E key \in Keys \cup UserWallets : RevokeWithdraw(key, u)
  PROVE  UsersInv(owed)'
<1>1. users' = users /\ bal' = bal /\ UNCHANGED <<config, cliffs, ovault, now>>
  BY DEF RequestWithdraw, RevokeWithdraw
<1>2. withdraws' \in [Users -> WithdrawRequest \cup {None}]
  <2>1. ASSUME NEW wallet \in UserWallets, NEW destination \in UserWallets,
               NEW amount \in Amounts, RequestWithdraw(wallet, u, destination, amount)
        PROVE  [amount |-> amount, destination |-> destination, mint |-> MintOf(u)]
                 \in WithdrawRequest
    BY <2>1, UserFacts DEF RequestWithdraw, IsUserWallet, UsersInv, WithdrawRequest
  <2>2. PICK request \in WithdrawRequest \cup {None} :
          withdraws' = [withdraws EXCEPT ![u] = request]
    <3>1. ASSUME NEW wallet \in UserWallets, NEW destination \in UserWallets,
                 NEW amount \in Amounts, RequestWithdraw(wallet, u, destination, amount)
          PROVE  \E request \in WithdrawRequest \cup {None} :
                   withdraws' = [withdraws EXCEPT ![u] = request]
      BY <2>1, <3>1 DEF RequestWithdraw
    <3>2. ASSUME NEW key, RevokeWithdraw(key, u)
          PROVE  \E request \in WithdrawRequest \cup {None} :
                   withdraws' = [withdraws EXCEPT ![u] = request]
      BY <3>2 DEF RevokeWithdraw
    <3>3. QED
      BY <3>1, <3>2
  <2>3. withdraws \in [Users -> WithdrawRequest \cup {None}]
    BY DEF UsersInv, UsersTypeOK
  <2>4. QED
    BY ONLY <2>2, <2>3
<1>3. carried' \subseteq {v \in Users : withdraws'[v] # None}
  <2>1. ASSUME NEW wallet \in UserWallets, NEW destination \in UserWallets,
               NEW amount \in Amounts, RequestWithdraw(wallet, u, destination, amount)
        PROVE  carried' \subseteq {v \in Users : withdraws'[v] # None}
    BY <2>1 DEF RequestWithdraw, UsersInv, UsersTypeOK
  <2>2. ASSUME NEW key, RevokeWithdraw(key, u)
        PROVE  carried' \subseteq {v \in Users : withdraws'[v] # None}
    BY <2>2 DEF RevokeWithdraw, UsersInv, UsersTypeOK
  <2>3. QED
    BY <2>1, <2>2
<1>4. AllSound(owed)'
  BY <1>1 DEF UsersInv, AllSound, Registered
<1>5. QED
  BY <1>1, <1>2, <1>3, <1>4 DEF UsersInv, UsersTypeOK

\* The vault's money moves, but no user's custody shrinks.
LEMMA VaultMoneyStep ==
  ASSUME NEW owed \in [Users -> Nat], UsersInv(owed), UNCHANGED <<config, userVars>>, bal' \in Balances,
         \A v \in Users, m \in Mints : bal[v][m] <= bal'[v][m]
  PROVE  UsersInv(owed)'
<1>1. AllSound(owed)'
  BY CustodyGrows DEF userVars
<1>2. QED
  BY <1>1 DEF UsersInv, UsersTypeOK, userVars, Balances, BalancesOf

LEMMA OutsideTransferStep ==
  ASSUME NEW owed \in [Users -> Nat], UsersInv(owed), UNCHANGED <<config, userVars>>,
         NEW from \in UserWallets \cup {OrbitVault}, NEW to \in Holders,
         NEW mint \in Mints, NEW amount \in Amounts, amount <= bal[from][mint],
         bal' = Transfer(bal, from, to, mint, amount)
  PROVE  UsersInv(owed)'
<1>1. /\ from \in Holders /\ Users \subseteq Holders /\ from \notin Users
      /\ amount \in Nat /\ bal \in Balances
  BY DEF UsersInv, UsersTypeOK, Balances, BalancesOf, U64, Owners
<1>2. bal' \in Balances
  BY <1>1, TransferKeepsType DEF Balances
<1>3. \A v \in Users, m \in Mints : bal[v][m] <= bal'[v][m]
  BY <1>1, TransferTakesFromSource DEF Balances
<1>4. QED
  BY <1>2, <1>3, VaultMoneyStep

LEMMA PrincipalStep ==
  ASSUME NEW owed \in [Users -> Nat], UsersInv(owed), PrincipalNext
  PROVE  UsersInv(owed)'
<1> SUFFICES ASSUME NEW u \in Users,
       \/ \E wallet, destination \in UserWallets, amount \in Amounts :
            \/ Deposit(wallet, u, amount)
            \/ RequestWithdraw(wallet, u, destination, amount)
       \/ \E signer \in Keys, amount \in Amounts, wallet \in UserWallets :
            \/ Pledge(signer, u, amount)
            \/ Disburse(signer, u, wallet, amount)
       \/ \E signer \in Keys : ApproveWithdraw(signer, u)
       \/ \E key \in Keys \cup UserWallets : RevokeWithdraw(key, u)
     PROVE UsersInv(owed)'
  BY DEF PrincipalNext
<1>1. ASSUME NEW wallet \in UserWallets, NEW amount \in Amounts, Deposit(wallet, u, amount)
      PROVE  UsersInv(owed)'
  BY <1>1, PutInStep DEF Deposit, IsUserWallet
<1>2. ASSUME NEW signer \in Keys, NEW amount \in Amounts, Pledge(signer, u, amount)
      PROVE  UsersInv(owed)'
  BY <1>2, PutInStep DEF Pledge
<1>3. ASSUME NEW signer \in Keys, NEW amount \in Amounts, NEW wallet \in UserWallets,
             Disburse(signer, u, wallet, amount)
      PROVE  UsersInv(owed)'
  <2>1. MintOf(u) \in Mints /\ wallet \in Holders
    BY <1>3, UserFacts, OwnersHold DEF Disburse, IsUserWallet, UsersInv
  <2>2. QED
    BY <1>3, <2>1, OutsideTransferStep DEF Disburse
<1>4. ASSUME NEW signer \in Keys, ApproveWithdraw(signer, u) PROVE UsersInv(owed)'
  BY <1>4, ApproveWithdrawStep
<1>5. QED
  BY <1>1, <1>2, <1>3, <1>4, RequestsStep
-----------------------------------------------------------------------------
(***************************************************************************)
(* Cliffs, the Orbit vault, revocations and the clock.                     *)
(***************************************************************************)
LEMMA CliffStep ==
  ASSUME NEW owed \in [Users -> Nat], UsersInv(owed), CliffNext
  PROVE  UsersInv(owed)'
<1>1. ASSUME NEW signer \in Keys, NEW u \in Users, NEW cliff \in Times \cup {None},
             UpdateCliffPeriod(signer, u, cliff)
      PROVE  UsersInv(owed)'
  <2>1. users[u].cliff_period \in Times
    BY <1>1, UserFacts DEF UpdateCliffPeriod, UsersInv
  <2>2. cliffs' \in [Users -> Times \cup {None}]
    BY <1>1, <2>1 DEF UpdateCliffPeriod, UsersInv, UsersTypeOK
  <2>3. AllSound(owed)'
    BY <1>1 DEF UpdateCliffPeriod, UsersInv, AllSound, Registered
  <2>4. QED
    BY <1>1, <2>2, <2>3 DEF UpdateCliffPeriod, UsersInv, UsersTypeOK
<1>2. ASSUME NEW wallet \in UserWallets, NEW u \in Users, ApproveCliffPeriod(wallet, u)
      PROVE  UsersInv(owed)'
  <2> DEFINE user == [users[u] EXCEPT !.cliff_period = cliffs[u]]
  <2>1. users[u] \in User /\ Sound(u, users[u], bal, owed)
    BY <1>2, UserFacts DEF ApproveCliffPeriod, IsUserWallet, UsersInv, AllSound
  <2>2. cliffs[u] \in Times
    BY <1>2 DEF ApproveCliffPeriod, UsersInv, UsersTypeOK
  <2>3. user \in User
    BY <2>1, <2>2 DEF User
  <2>4. /\ user.principal_in = users[u].principal_in
        /\ user.principal_out = users[u].principal_out
        /\ user.user_type = users[u].user_type
        /\ user.allowed_mint = users[u].allowed_mint
        /\ user.max_principal = users[u].max_principal
    BY <2>1 DEF User
  <2>5. users' = [users EXCEPT ![u] = user] /\ bal' = bal
    BY <1>2 DEF ApproveCliffPeriod, UsersInv, UsersTypeOK
  <2> HIDE DEF user
  <2>6. Sound(u, user, bal', owed)
    BY <2>1, <2>4, <2>5 DEF Sound, Backed, Net
  <2>7. bal' \in Balances /\ \A v \in Users, m \in Mints : bal[v][m] <= bal'[v][m]
    BY <2>5, OwnersHold DEF UsersInv, UsersTypeOK, Balances, BalancesOf
  <2>8. users' \in [Users -> User \cup {None}] /\ AllSound(owed)'
    BY <2>3, <2>5, <2>6, <2>7, OneUserChanges
  <2>9. cliffs' \in [Users -> Times \cup {None}]
    BY <1>2 DEF ApproveCliffPeriod, UsersInv, UsersTypeOK
  <2>10. QED
    BY <1>2, <2>8, <2>9 DEF ApproveCliffPeriod, UsersInv, UsersTypeOK
<1>3. ASSUME NEW key, NEW u \in Users, RejectCliffPeriod(key, u)
      PROVE  UsersInv(owed)'
  <2>1. cliffs' \in [Users -> Times \cup {None}]
    BY <1>3 DEF RejectCliffPeriod, UsersInv, UsersTypeOK
  <2>2. AllSound(owed)'
    BY <1>3 DEF RejectCliffPeriod, UsersInv, AllSound, Registered
  <2>3. QED
    BY <1>3, <2>1, <2>2 DEF RejectCliffPeriod, UsersInv, UsersTypeOK
<1>4. QED
  BY <1>1, <1>2, <1>3 DEF CliffNext

\* The list of recipients changes, nothing else does.
LEMMA RecipientsStep ==
  ASSUME NEW owed \in [Users -> Nat], UsersInv(owed),
         UNCHANGED <<config, bal, users, withdraws, cliffs, now, carried>>,
         ovault' = None \/ (ovault' \subseteq Recipients /\ IsFiniteSet(ovault')
                             /\ Cardinality(ovault') <= OvaultRoom)
  PROVE  UsersInv(owed)'
<1>1. AllSound(owed)'
  BY DEF UsersInv, AllSound, Registered
<1>2. QED
  BY <1>1 DEF UsersInv, UsersTypeOK

LEMMA VaultStep ==
  ASSUME NEW owed \in [Users -> Nat], UsersInv(owed), VaultNext
  PROVE  UsersInv(owed)'
<1>1. ASSUME NEW signer \in Keys, NEW recipient \in Recipients,
             AddOvaultCctpRecipient(signer, recipient)
      PROVE  UsersInv(owed)'
  <2> DEFINE listed == IF ovault = None THEN {} ELSE ovault
  <2>1. /\ listed \subseteq Recipients /\ IsFiniteSet(listed)
        /\ recipient \notin listed /\ Cardinality(listed) < OvaultRoom
        /\ ovault' = listed \cup {recipient}
    BY <1>1, FS_EmptySet DEF AddOvaultCctpRecipient, UsersInv, UsersTypeOK
  <2> HIDE DEF listed
  <2>2. /\ IsFiniteSet(ovault') /\ Cardinality(ovault') = Cardinality(listed) + 1
        /\ Cardinality(listed) \in Nat
    BY <2>1, FS_AddElement, FS_CardinalityType
  <2>3. /\ UNCHANGED <<config, bal, users, withdraws, cliffs, now, carried>>
        /\ ovault' \subseteq Recipients /\ Cardinality(ovault') <= OvaultRoom
    BY <1>1, <2>1, <2>2 DEF AddOvaultCctpRecipient
  <2>4. QED
    BY <2>2, <2>3, RecipientsStep, Zenon
<1>2. ASSUME NEW signer \in Keys, NEW recipient \in Recipients,
             RemoveOvaultCctpRecipient(signer, recipient)
      PROVE  UsersInv(owed)'
  <2>1. /\ ovault \subseteq Recipients /\ IsFiniteSet(ovault) /\ recipient \in ovault
        /\ Cardinality(ovault) <= OvaultRoom /\ ovault' = ovault \ {recipient}
    BY <1>2 DEF RemoveOvaultCctpRecipient, UsersInv, UsersTypeOK
  <2>2. /\ IsFiniteSet(ovault') /\ Cardinality(ovault') = Cardinality(ovault) - 1
        /\ Cardinality(ovault) \in Nat
    BY <2>1, FS_RemoveElement, FS_CardinalityType
  <2>3. /\ UNCHANGED <<config, bal, users, withdraws, cliffs, now, carried>>
        /\ ovault' \subseteq Recipients /\ Cardinality(ovault') <= OvaultRoom
    BY <1>2, <2>1, <2>2 DEF RemoveOvaultCctpRecipient
  <2>4. QED
    BY <2>2, <2>3, RecipientsStep, Zenon
<1>3. ASSUME NEW signer \in Keys, NEW mint \in Mints, NEW amount \in Amounts,
             NEW recipient \in Recipients, CctpFromVault(signer, mint, amount, recipient)
      PROVE  UsersInv(owed)'
  <2>1. /\ bal \in Balances /\ amount \in Nat /\ amount <= bal[OrbitVault][mint]
        /\ bal' = [bal EXCEPT ![OrbitVault][mint] = @ - amount]
    <3>1. bal \in Balances
      BY DEF UsersInv, UsersTypeOK, Balances, BalancesOf
    <3>2. amount \in Nat
      BY DEF U64
    <3>3. QED
      BY <1>3, <3>1, <3>2, Zenon DEF CctpFromVault, Burn
  <2> OrbitVault \in Holders \ Users /\ Users \subseteq Holders
    BY DEF Owners
  <2>2. bal' \in Balances
    BY <2>1 DEF Balances, BalancesOf
  <2>3. \A v \in Users, m \in Mints : bal[v][m] <= bal'[v][m]
    BY <2>1 DEF Balances, BalancesOf
  <2>4. QED
    BY <1>3, <2>2, <2>3, VaultMoneyStep DEF CctpFromVault
<1>4. ASSUME NEW wallet \in UserWallets, NEW to \in Holders, NEW mint \in Mints,
             NEW amount \in Amounts, Fund(wallet, to, mint, amount)
      PROVE  UsersInv(owed)'
  BY <1>4, OutsideTransferStep DEF Fund
<1>5. QED
  BY <1>1, <1>2, <1>3, <1>4 DEF VaultNext

LEMMA RevokeStep ==
  ASSUME NEW owed \in [Users -> Nat], UsersInv(owed), RevokeNext
  PROVE  UsersInv(owed)'
<1> SUFFICES ASSUME NEW signer \in Keys,
               NEW closeUsers \in SUBSET Users, NEW closeWithdraws \in SUBSET Users,
               NEW closeCliffs \in SUBSET Users, NEW closeVault \in BOOLEAN,
               Revoke(signer, closeUsers, closeWithdraws, closeCliffs, closeVault)
             PROVE  UsersInv(owed)'
  BY DEF RevokeNext
<1>1. users' \in [Users -> User \cup {None}]
  BY DEF Revoke, Closed, UsersInv, UsersTypeOK
<1>2. AllSound(owed)'
  <2>1. \A u \in Users : Registered(u)' => Registered(u) /\ users'[u] = users[u]
    BY DEF Revoke, Closed, Registered
  <2>2. bal' = bal
    BY DEF Revoke
  <2>3. QED
    BY <2>1, <2>2 DEF UsersInv, AllSound
<1>3. /\ withdraws' \in [Users -> WithdrawRequest \cup {None}]
      /\ cliffs' \in [Users -> Times \cup {None}]
  BY DEF Revoke, Closed, UsersInv, UsersTypeOK
<1>4. carried' \subseteq {v \in Users : withdraws'[v] # None}
  BY DEF Revoke, Closed, UsersInv, UsersTypeOK
<1>5. QED
  BY <1>1, <1>2, <1>3, <1>4 DEF Revoke, UsersInv, UsersTypeOK
-----------------------------------------------------------------------------
(***************************************************************************)
(* The theorems.                                                           *)
(***************************************************************************)

LEMMA UsersInvStep ==
  ASSUME NEW owed \in [Users -> Nat], UsersInv(owed), [UsersNext]_usersVars
  PROVE  UsersInv(owed)'
<1>1. ASSUME Tick PROVE UsersInv(owed)'
  <2>1. AllSound(owed)'
    BY <1>1 DEF Tick, UsersInv, AllSound, Registered
  <2>2. QED
    BY <1>1, <2>1 DEF Tick, UsersInv, UsersTypeOK
<1>2. ASSUME UNCHANGED usersVars PROVE UsersInv(owed)'
  <2>1. UNCHANGED <<config, bal, users, withdraws, cliffs, ovault, now, carried>>
    BY <1>2 DEF usersVars, userVars
  <2>2. AllSound(owed)'
    BY <2>1 DEF UsersInv, AllSound, Registered
  <2>3. QED
    BY <2>1, <2>2 DEF UsersInv, UsersTypeOK
<1>3. QED
  BY <1>1, <1>2, RegistryStep, PrincipalStep, CliffStep, VaultStep, RevokeStep
  DEF UsersNext

\* The inductive invariant: types, a finite list of recipients, every registered
\* user within its cap and every ICV user's custody whole.
THEOREM UsersTheorem == UsersSpec => []UsersInv(Nothing)
<1>1. Nothing \in [Users -> Nat]
  BY DEF Nothing
<1>2. UsersInit => UsersInv(Nothing)
  <2> SUFFICES ASSUME UsersInit PROVE UsersInv(Nothing)
    OBVIOUS
  <2>1. config \in Config /\ config.mints # {}
    BY DEF UsersInit, Config
  <2>2. AllSound(Nothing)
    BY DEF UsersInit, AllSound, Registered
  <2>3. QED
    BY <2>1, <2>2 DEF UsersInit, UsersInv, UsersTypeOK
<1>3. UsersInv(Nothing) /\ [UsersNext]_usersVars => UsersInv(Nothing)'
  <2>1. ASSUME NEW owed \in [Users -> Nat], owed = Nothing,
               UsersInv(Nothing), [UsersNext]_usersVars
        PROVE  UsersInv(Nothing)'
    <3>1. UsersInv(owed)
      BY <2>1
    <3>2. UsersInv(owed)'
      BY <2>1, <3>1, UsersInvStep
    <3>3. QED
      BY <2>1, <3>2
  <2>2. QED
    BY <1>1, <2>1
<1>4. QED
  BY <1>2, <1>3, PTL DEF UsersSpec

\* Types (no counter of principal leaves u64, no balance goes below zero, the Orbit
\* vault's list stays within its account) hold for any number of users.
THEOREM UsersTypeTheorem == UsersSpec => []UsersTypeOK
<1>1. UsersInv(Nothing) => UsersTypeOK
  BY DEF UsersInv
<1>2. QED
  BY <1>1, UsersTheorem, PTL

\* The cap holds after any sequence of deposits, pledges, withdrawals, changes of the
\* cap, revocations and new registrations.
THEOREM CapTheorem == UsersSpec => []WithinCap
<1>1. UsersInv(Nothing) => WithinCap
  BY SoundMeansProperties DEF UsersInv
<1>2. QED
  BY <1>1, UsersTheorem, PTL

\* Custody covers the recorded principal of every ICV user.
THEOREM CustodyTheorem == UsersSpec => []CustodyBacks
<1>1. UsersInv(Nothing) => CustodyBacks
  BY SoundMeansProperties DEF UsersInv
<1>2. QED
  BY <1>1, UsersTheorem, PTL
=============================================================================
