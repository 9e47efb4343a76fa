---------------------------- MODULE OrbitLending ----------------------------
(***************************************************************************)
(* The two programs together: Orbit's users lend to the orders of Core.    *)
(* borrow moves their money into the ZOV, opens one Position per lender    *)
(* and has Core create the order; repay has Core collect from the partner  *)
(* and spreads it over positions; claim lets an ICV user collect its own;  *)
(* cctp burns an ICV user's custody and books it as an order.  A Position  *)
(* is keyed by (order id, user) and Core's tracker by (partner, order id), *)
(* and neither program can see that the other's account is gone: Core's    *)
(* own instructions, which know nothing of positions, interleave freely.   *)
(***************************************************************************)
EXTENDS OrbitUsers, OrbitShares

CONSTANTS
  Partners, OrderIds, ZeroId, Zovs, Wallets,   \* as in CoreOrders
  NumberOf,       \* [Partners -> PartnerNumbers], the number in the partner id
  MaxOperations,  \* bound: positions that one repay or claim is given
  DirectAmounts   \* bound: the amounts of Core's own instructions

VARIABLES
  beneficiaries, orders, audit,  \* Core's, see CoreOrders
  positions,  \* [OrderIds \X Users -> Position account or None]
  approved,   \* [UserWallets -> the delegate of the wallet's token account]
  touched,    \* history: keys of orders whose debt was changed behind the positions
  struck      \* history: users who lost a position to a revocation

lendingVars == <<positions, approved, touched, struck>>
coreVars == <<beneficiaries, orders, audit>>
allVars == <<usersVars, coreVars, lendingVars>>

Core == INSTANCE CoreOrders WITH
          Lenders <- Users \cup UserWallets \cup {OrbitVault}

OrderKeys == Partners \X OrderIds
Open(key) == orders[key] # None

\* `partner` is Core's hash of the partner id the loan was made to.
Position == [partner : Partners, amount_borrowed : U64, amount_repaid : U64]

\* spl-token's approve: the PDA that may spend from a wallet, and how much.
Approval == [delegate : Users \cup {OrbitVault, None}, amount : U64]
NoApproval == [delegate |-> None, amount |-> 0]

ASSUME LendingAssumption ==
  /\ NumberOf \in [Partners -> PartnerNumbers]
  /\ CanonicalZov \in Zovs
  /\ Holders = Core!Accounts
  /\ Users \cap (Partners \cup Zovs) = {}
  /\ DirectAmounts \subseteq U64 /\ MaxOperations \in Nat
  /\ None \notin Position

\* What CoreOrders assumes, of these lenders.  There are finitely many order ids and
\* addresses, as each has 32 bytes.
ASSUME CoreAssumption ==
  /\ Core!OrdersAssumption /\ Core!LendersAreFinite /\ Core!NoneIsNoAccount
  /\ IsFiniteSet(OrderIds) /\ IsFiniteSet(Partners) /\ IsFiniteSet(Mints)

HasPosition(o, u) == positions[<<o, u>>] # None
Remaining(o, u) ==
  positions[<<o, u>>].amount_borrowed - positions[<<o, u>>].amount_repaid
Lends(key, u) == HasPosition(key[2], u) /\ positions[<<key[2], u>>].partner = key[1]
-----------------------------------------------------------------------------
(***************************************************************************)
(* Faulty variants of the definitions below, to see the properties fail.   *)
(***************************************************************************)
PositionRepaid_Unbooked(position, amount) == position
PositionRepaid_Unclosed(position, amount) ==
  [position EXCEPT !.amount_repaid = @ + amount]
Claimed_RecoveredOnly(u, liquid, recovered) ==
  [users[u] EXCEPT !.principal_out = @ + recovered]
BurnBooked_Nowhere(u, amount) == users[u]
-----------------------------------------------------------------------------
(***************************************************************************)
(* borrow: each of `loans` takes loans[u] from the token account source[u] *)
(* with the signature of a PDA: an ICV user's own, which owns its custody, *)
(* or the vault's, which an NCW user's wallet must have named as delegate. *)
(* Whose account source[u] is, is not looked at: the token program accepts *)
(* any account that the PDA owns or has been approved for, so the loan of  *)
(* one user may come from the wallet of another, also for an ICV user.     *)
(***************************************************************************)
MayLend(u, mint, partner) ==
  /\ Registered(u)
  /\ MintOf(u) = mint
  /\ users[u].whitelisted_partners = {}
     \/ NumberOf[partner] \in users[u].whitelisted_partners
  /\ users[u].user_type # "LP"

Spender(u) == IF users[u].user_type = "ICV" THEN u ELSE OrbitVault

MaySpend(u, owner) ==
  \/ owner = u /\ Spender(u) = u
  \/ owner \in UserWallets /\ approved[owner].delegate = Spender(u)

\* A wallet's approval once `taken` is spent of it: used up, the delegate is cleared.
Spent(approval, taken) ==
  IF taken = approval.amount THEN NoApproval
                             ELSE [approval EXCEPT !.amount = @ - taken]

\* What one owner's accounts give to the loans that are taken from them.
TakenFrom(owner, loans, source) ==
  SumFunctionOnSet(loans, {u \in DOMAIN loans : source[u] = owner})

Lent(loans, source, zov, mint) ==
  LET arriving == [u \in DOMAIN loans |-> Arrives(mint, loans[u])]
  IN  [owner \in Holders |-> [bal[owner] EXCEPT ![mint] =
         @ - TakenFrom(owner, loans, source)
           + IF owner = zov THEN SumFunction(arriving) ELSE 0]]

BorrowAccounts(signer, mint) == IsManager(signer) /\ MintAllowed(mint)

Borrow(signer, key, zov, wallet, mint, amount, loans, source) ==
  LET total == SumFunction(loans)
  IN  /\ BorrowAccounts(signer, mint)
      /\ amount > 0
      /\ DOMAIN loans # {}
      /\ \A u \in DOMAIN loans :
           /\ loans[u] > 0
           /\ MayLend(u, mint, key[1])
           /\ MaySpend(u, source[u])
           /\ ~HasPosition(key[2], u)
      /\ total <= amount
      /\ \A owner \in Holders :
           TakenFrom(owner, loans, source) <= bal[owner][mint]
      /\ \A w \in UserWallets : TakenFrom(w, loans, source) <= approved[w].amount
      /\ Core!CreateOrderFrom(Lent(loans, source, zov, mint), signer, TRUE, key,
                              zov, wallet, mint, FALSE, amount, None, total)
      /\ positions' = [p \in OrderIds \X Users |->
           IF p[1] = key[2] /\ p[2] \in DOMAIN loans
             THEN [partner |-> key[1], amount_borrowed |-> loans[p[2]],
                   amount_repaid |-> 0]
             ELSE positions[p]]
      /\ approved' = [w \in UserWallets |->
           Spent(approved[w], TakenFrom(w, loans, source))]
      /\ UNCHANGED <<userVars, touched, struck>>

\* spl-token approve by a wallet's owner, naming a PDA of Orbit as delegate.
Approve(wallet, delegate, amount) ==
  /\ approved' = [approved EXCEPT ![wallet] =
                    [delegate |-> delegate, amount |-> amount]]
  /\ UNCHANGED <<usersVars, coreVars, positions, touched, struck>>
-----------------------------------------------------------------------------
(***************************************************************************)
(* repay: the manager names positions (the same one twice is not noticed). *)
(* What the partner pays is spread over them as OrbitShares says, and what *)
(* is left of it may go to the house.                                      *)
(***************************************************************************)
\* amount_repaid + amount; the account is closed when that is all (or more).
PositionRepaid(position, amount) ==
  LET repaid == [position EXCEPT !.amount_repaid = @ + amount]
  IN  IF repaid.amount_repaid >= repaid.amount_borrowed THEN None ELSE repaid

\* A position named again after its first share has closed it fails the call.
NoneAfterClosing(o, supplied, shares) ==
  \A i, j \in DOMAIN supplied :
    i < j /\ supplied[i] = supplied[j] /\ shares[j] > 0 =>
      SumFunctionOnSet(shares, {k \in 1..i : supplied[k] = supplied[i]})
        < Remaining(o, supplied[i])

\* The shares once they are known: Core passes them on to the lenders' accounts,
\* then Orbit books them on the positions.
PayOut(key, supplied, wallets, amount, repay, shares) ==
  LET payee == [i \in DOMAIN supplied |->
                  IF users[supplied[i]].user_type = "ICV" THEN supplied[i]
                                                          ELSE wallets[i]]
      Booked(p) == SumFunctionOnSet(shares,
                     {i \in DOMAIN shares : <<key[2], supplied[i]>> = p})
      Paid(owner) == SumFunctionOnSet(shares,
                       {i \in DOMAIN shares : payee[i] = owner})
  IN  /\ \A i \in DOMAIN supplied :
           shares[i] > 0 /\ payee[i] # supplied[i] =>
             payee[i] \in users[supplied[i]].wallets
      /\ NoneAfterClosing(key[2], supplied, shares)
      /\ positions' = [p \in OrderIds \X Users |->
           IF Booked(p) > 0 THEN PositionRepaid(positions[p], Booked(p))
                            ELSE positions[p]]
      /\ \E paid \in {[owner \in Users \cup UserWallets \cup {OrbitVault} |-> Paid(owner)]} :
           Core!ReplenishAndRepay(key, amount, repay, paid)

RepayAccounts(signer, key) ==
  IsManager(signer) /\ Open(key) /\ MintAllowed(orders[key].mint)

Repay(signer, key, supplied, wallets, amount) ==
  LET tracker == orders[key]
      remaining == [i \in DOMAIN supplied |-> Remaining(key[2], supplied[i])]
      aggregate == Core!LentOutstanding(tracker)
      prepared == Min({amount, Core!Outstanding(tracker)})
      cap == RepayCap(prepared, remaining, aggregate)
  IN  /\ RepayAccounts(signer, key)
      /\ amount > 0
      /\ tracker.amount_in <= tracker.amount_out
      /\ aggregate >= 0
      /\ \A i \in DOMAIN supplied :
           /\ Registered(supplied[i])
           /\ MintOf(supplied[i]) = tracker.mint
           /\ users[supplied[i]].user_type # "LP"
           /\ Lends(key, supplied[i])
      /\ Total(remaining) <= MaxU64
      /\ \E shares \in {Shares(cap, remaining)} :
           PayOut(key, supplied, wallets, amount,
                  cap + HouseShare(prepared, cap, aggregate), shares)
      /\ touched' = IF IsInjective(supplied) THEN touched ELSE touched \cup {key}
      /\ UNCHANGED <<userVars, approved, struck>>
-----------------------------------------------------------------------------
(***************************************************************************)
(* claim: a wallet of an ICV user collects the user's net principal, first *)
(* from custody and then, position by position, from the vaults of the     *)
(* partners it was lent to.  The progress of the loop is a record; `paid`  *)
(* is what the wallet has got so far, `ok` that no operation has failed.   *)
(***************************************************************************)
Recovered(u, o, claimable, progress) ==
  LET position == progress.positions[<<o, u>>]
      key == <<position.partner, o>>
      tracker == progress.orders[key]
  IN  Min({claimable - progress.paid,
             position.amount_borrowed - position.amount_repaid,
             Core!Outstanding(tracker),
             progress.bal[key[1]][tracker.mint]})

\* The requirements on the position and the tracker of one operation.
Claims(u, o, progress) ==
  LET position == progress.positions[<<o, u>>]
      tracker == progress.orders[<<position.partner, o>>]
  IN  /\ position # None
      /\ position.amount_repaid < position.amount_borrowed =>
           /\ tracker # None
           /\ tracker.mint = MintOf(u)
           /\ tracker.amount_in <= tracker.amount_out

\* One operation: skipped once all is paid, or when there is nothing to recover.
Claim1(u, destination, claimable, progress, o) ==
  LET key == <<progress.positions[<<o, u>>].partner, o>>
      tracker == progress.orders[key]
      recovered == Recovered(u, o, claimable, progress)
      shares == [owner \in Users \cup UserWallets \cup {OrbitVault} |->
                   IF owner = destination THEN recovered ELSE 0]
  IN  IF ~progress.ok \/ progress.paid >= claimable THEN progress
      ELSE IF ~Claims(u, o, progress) THEN [progress EXCEPT !.ok = FALSE]
      ELSE IF recovered = 0 THEN progress
      ELSE [bal |-> Core!BalancesRepaid(progress.bal, key, tracker, recovered, shares),
            orders |-> [progress.orders EXCEPT ![key] =
                          Core!TrackerRepaid(tracker, recovered, recovered)],
            audit |-> [progress.audit EXCEPT
                         ![key].arrived = @ + Arrives(tracker.mint, recovered),
                         ![key].paid = @ + recovered],
            positions |-> [progress.positions EXCEPT ![<<o, u>>] =
                             PositionRepaid(@, recovered)],
            paid |-> progress.paid + recovered,
            ok |-> /\ Core!Running
                   /\ Core!Repayable(progress.bal, key, tracker, recovered,
                                     recovered, shares)]

Claimed(u, liquid, recovered) ==
  [users[u] EXCEPT !.principal_out = @ + liquid + recovered]

ClaimAccounts(u) ==
  Registered(u) /\ users[u].user_type # "LP" /\ MintAllowed(MintOf(u))

Claim(wallet, u, destination, operations) ==
  LET claimable == users[u].principal_in - users[u].principal_out
      liquid == Min({bal[u][MintOf(u)], claimable})
      start == [bal |-> Transfer(bal, u, destination, MintOf(u), liquid),
                orders |-> orders, audit |-> audit, positions |-> positions,
                paid |-> liquid, ok |-> TRUE]
      run[i \in 0..Len(operations)] ==
        IF i = 0 THEN start
        ELSE Claim1(u, destination, claimable, run[i - 1], operations[i])
      end == run[Len(operations)]
  IN  /\ ClaimAccounts(u)
      /\ IsUserWallet(wallet, u) /\ IsUserWallet(destination, u)
      /\ users[u].user_type = "ICV"
      /\ now >= users[u].cliff_period
      /\ claimable > 0
      /\ end.ok
      /\ end.paid > 0
      /\ users[u].principal_out + end.paid <= MaxU64
      /\ bal' = end.bal /\ orders' = end.orders /\ audit' = end.audit
      /\ positions' = end.positions
      /\ users' = [users EXCEPT ![u] = Claimed(u, liquid, end.paid - liquid)]
      /\ UNCHANGED <<config, beneficiaries, withdraws, cliffs, ovault, now, carried,
                     approved, touched, struck>>

(***************************************************************************)
(* cctp for an ICV user: custody is burned for a recipient on another      *)
(* chain, and Core books the amount as an order without a wallet, lender   *)
(* or position.  The principal is not consulted.                           *)
(***************************************************************************)
BurnBooked(u, amount) == [users[u] EXCEPT !.principal_out = @ + amount]

CctpAccounts(signer, u) == IsManager(signer) /\ Registered(u)

CctpFromUser(signer, u, amount, recipient, key, zov) ==
  /\ CctpAccounts(signer, u)
  /\ amount > 0
  /\ users[u].user_type = "ICV"
  /\ recipient \in users[u].cctp_recipients
  /\ users[u].principal_out + amount <= MaxU64
  /\ amount <= bal[u][MintOf(u)]
  /\ Core!CreateOrderFrom(Burn(bal, u, MintOf(u), amount), signer, FALSE, key,
                          zov, None, MintOf(u), FALSE, 0, amount, 0)
  /\ users' = [users EXCEPT ![u] = BurnBooked(u, amount)]
  /\ UNCHANGED <<withdraws, cliffs, ovault, now, carried, lendingVars>>

\* revoke closes positions as well, whatever they still owe.
RevokeAny(signer, closeUsers, closeWithdraws, closeCliffs, closeVault, closing) ==
  /\ Revoke(signer, closeUsers, closeWithdraws, closeCliffs, closeVault)
  /\ \A p \in closing : positions[p] # None
  /\ positions' = [p \in OrderIds \X Users |->
                     IF p \in closing THEN None ELSE positions[p]]
  /\ touched' = touched \cup {<<positions[p].partner, p[1]>> : p \in closing}
  /\ struck' = struck \cup {p[2] : p \in closing}
  /\ UNCHANGED <<coreVars, approved>>
-----------------------------------------------------------------------------
(***************************************************************************)
(* Core on its own: what manager, admin and guardian do to orders without  *)
(* Orbit, and the pause.  A key is touched when a debt of its order may    *)
(* have changed.  Changes of roles, beneficiaries and mints are left out:  *)
(* all they decide is which of these steps are allowed, and here every     *)
(* wallet may be paid, also by a transient order.                          *)
(***************************************************************************)
Behind(keys) ==
  /\ touched' = touched \cup keys
  /\ UNCHANGED <<userVars, positions, approved, struck>>

\* Orders that nothing is lent to: paid by the ZOV, by the partner, or by nobody here.
UnlentNext ==
  \E signer \in Keys, key \in OrderKeys, zov \in Zovs, mint \in Mints,
     transient \in BOOLEAN, amount \in DirectAmounts :
    /\ \/ Core!CreateOrder(signer, FALSE, key, zov, None, mint, transient, 0, amount, 0)
       \/ \E wallet \in Wallets :
            \/ Core!CreateOrder(signer, FALSE, key, zov, wallet, mint, transient,
                                amount, None, 0)
            \/ Core!PullAndCreateOrder(signer, key, zov, wallet, mint, transient, amount)
    /\ Behind({})

\* Debts changed without the positions' knowledge, and the pause.
SettleNext ==
  \E signer \in Keys :
    \/ \E key \in OrderKeys, amount \in DirectAmounts :
         \/ \E close \in BOOLEAN :
              /\ Core!Replenish(signer, key, amount, close)
              /\ Behind(IF amount > 0 THEN {key} ELSE {})
         \/ Core!RecordOrder(signer, key, amount) /\ Behind({key})
    \/ \E keys \in (SUBSET OrderKeys) \ {{}} :
         Core!CloseOrders(signer, keys) /\ Behind(keys)
    \/ \E paused \in BOOLEAN :
         /\ Initialized
         /\ config' = [config EXCEPT !.paused = paused]
         /\ UNCHANGED <<bal, userVars, coreVars, lendingVars>>

CoreNext == UnlentNext \/ SettleNext

LendNext ==
  \E signer \in Keys, key \in OrderKeys, zov \in Zovs, amount \in Amounts :
    \/ /\ ~Open(key)  \* create_order requires it; known here, it spares TLC the loans
       /\ \E wallet \in Wallets, mint \in Mints, lenders \in (SUBSET Users) \ {{}} :
            \E loans \in [lenders -> {loan \in Amounts : loan <= amount}],
               source \in [lenders -> Users \cup UserWallets] :
              Borrow(signer, key, zov, wallet, mint, amount, loans, source)
    \/ \E u \in Users, recipient \in Recipients :
         CctpFromUser(signer, u, amount, recipient, key, zov)

CollectNext ==
  \/ \E signer \in Keys, key \in OrderKeys, amount \in Amounts,
        supplied \in SeqOf(Users, MaxOperations) :
       \E wallets \in [DOMAIN supplied -> UserWallets] :
         Repay(signer, key, supplied, wallets, amount)
  \/ \E wallet, destination \in UserWallets, u \in Users,
        operations \in SeqOf(OrderIds, MaxOperations) :
       Claim(wallet, u, destination, operations)

LoanNext ==
  \/ LendNext \/ CollectNext
  \/ \E wallet \in UserWallets, u \in Users, amount \in Amounts :
       Registered(u) /\ Approve(wallet, Spender(u), amount)

StrikeNext ==
  \E signer \in Keys, closeUsers, closeWithdraws, closeCliffs \in SUBSET Users,
     closeVault \in BOOLEAN, closing \in SUBSET (OrderIds \X Users) :
    RevokeAny(signer, closeUsers, closeWithdraws, closeCliffs, closeVault, closing)

LendingInit ==
  /\ UsersInit
  /\ beneficiaries = [pw \in Partners \X Wallets |->
                        [is_active |-> TRUE, allow_transient |-> TRUE]]
  /\ orders = [key \in OrderKeys |-> None]
  /\ audit = [key \in OrderKeys |-> Core!FreshHistory]
  /\ positions = [p \in OrderIds \X Users |-> None]
  /\ approved = [w \in UserWallets |-> NoApproval]
  /\ touched = {}
  /\ struck = {}

LendingNext ==
  \/ LoanNext \/ StrikeNext \/ CoreNext
  \/ /\ RegistryNext \/ PrincipalNext \/ CliffNext \/ VaultNext \/ Tick
     /\ UNCHANGED <<coreVars, lendingVars>>

LendingSpec == LendingInit /\ [][LendingNext]_allVars
-----------------------------------------------------------------------------
(***************************************************************************)
(* Properties.                                                             *)
(***************************************************************************)

\* Types of what lending adds, and: an open position is never paid in full.
LendingTypeOK ==
  /\ Core!TypeOK
  /\ positions \in [OrderIds \X Users -> Position \cup {None}]
  /\ \A o \in OrderIds, u \in Users : HasPosition(o, u) => Remaining(o, u) > 0
  /\ approved \in [UserWallets -> Approval]
  /\ touched \subseteq OrderKeys /\ struck \subseteq Users

\* What lenders are still owed on the order under a key, by Orbit's books.
Owed(key) ==
  LET lenders == {u \in Users : Lends(key, u)}
  IN  SumFunction([u \in lenders |-> Remaining(key[2], u)])

\* The books of the two programs agree: what Core's tracker says is owed to the
\* lenders is the sum of what the positions say, and an order that is gone owes
\* nothing, so no lender is left with a position that cannot be collected -
\* unless somebody changed the order's debt behind the positions.
BooksAgree ==
  \A key \in OrderKeys \ touched :
    Owed(key) = IF Open(key) THEN Core!LentOutstanding(orders[key]) ELSE 0

\* Custody or a claim on it: an ICV user's net principal is covered by what its
\* custody holds and its positions still owe, whatever the order of deposits,
\* loans, repayments, claims, burns and withdrawals (unless the admin has revoked
\* a position of the user, and for mints without transfer fees).
PrincipalCovered ==
  \A u \in Users \ struck :
    Registered(u) /\ users[u].user_type = "ICV" /\ MintOf(u) \notin FeeBearing =>
      users[u].principal_in - users[u].principal_out
        <= bal[u][MintOf(u)]
           + SumFunction([o \in {i \in OrderIds : HasPosition(i, u)} |->
                            Remaining(o, u)])

(***************************************************************************)
(* The two programs' books are one LoanLedger: the house's part of a debt  *)
(* is what Core's tracker says beyond the lenders' part, a loan is what is *)
(* left of a position, and a lender holds what its custody account or its  *)
(* wallets do (an ICV user's claim pays its wallets).  For a deployment    *)
(* without fee-bearing mints.                                              *)
(***************************************************************************)
AllMints(owner) == SumFunction(bal[owner])

HouseDebt(key) ==
  IF Open(key) THEN Core!Outstanding(orders[key]) - Core!LentOutstanding(orders[key])
               ELSE 0

InHand(u) ==
  IF ~Registered(u) THEN 0
  ELSE SumFunction([w \in users[u].wallets |-> AllMints(w)])
         + IF users[u].user_type = "ICV" THEN AllMints(u) ELSE 0

Ledger == INSTANCE LoanLedger WITH
  Orders    <- OrderKeys,
  Payers    <- Partners,
  PayerOf   <- [key \in OrderKeys |-> key[1]],
  Creditors <- Users,
  house     <- [key \in OrderKeys |-> HouseDebt(key)],
  loans     <- [key \in OrderKeys |-> [u \in Users |->
                  IF Lends(key, u) THEN Remaining(key[2], u) ELSE 0]],
  purse     <- [partner \in Partners |-> AllMints(partner)],
  hand      <- [u \in Users |-> InHand(u)],
  spoiled   <- touched

\* A debt on an order falls only when the partner's vault pays it, a loan only when
\* its lender receives it, and the house's debt falls last, although what is owed
\* is written in two programs and paid by repay, by claim or by a CPI's checks.
\* This is about debts that are booked: tokens that the ZOV gets beyond what is
\* booked (repay's gross amount) reduce no debt and are no part of this ledger.
OneLedger == Ledger!Spec

\* What the ZOV has got for an open order beyond the debt that it has booked as paid.
Surplus(key) == IF Open(key) THEN audit[key].arrived - orders[key].amount_in ELSE 0

\* The partner's money goes into the ZOV whole (repay.rs 288 passes the gross amount,
\* and 262 says that any excess remains there), but an order that stays open loses
\* some of it, unbooked, only by a repayment that left out a lender who is still
\* owed: name all the lenders, and every token either reaches them or counts as paid.
SurplusOnlyPastUnnamed ==
  [][\A key \in OrderKeys \ touched' :
       Open(key) /\ Open(key)' /\ Surplus(key)' > Surplus(key) =>
         \E u \in Users :
           Lends(key, u) /\ positions'[<<key[2], u>>] = positions[<<key[2], u>>]]_allVars

(***************************************************************************)
(* A diligent manager repays again and again, naming every open position   *)
(* of an order.  Nothing in the programs makes it do so.  In the run that  *)
(* assumes it, new loans, claims, other repayments, write-offs, the        *)
(* revocation of positions and the pause may come at any time.             *)
(***************************************************************************)
RepayAll(key) ==
  LET lenders == {u \in Users : Lends(key, u)}
  IN  /\ lenders # {}
      /\ \E supplied \in {SetToSeq(lenders)}, amount \in Amounts :
           Repay(config.manager, key, supplied,
                 [i \in DOMAIN supplied |->
                    CHOOSE w \in UserWallets : IsUserWallet(w, supplied[i])],
                 amount)

Diligence == \A key \in OrderKeys : SF_allVars(RepayAll(key))

\* The program runs and the vault of an order's partner holds something to pay with.
Payable(key) == Core!Running /\ \A mint \in Mints : bal[key[1]][mint] > 0

\* No loan is ever wedged: whatever a claim, another loan or a partial repayment
\* has left of an order, the two programs' checks on shares, roundings and caps let
\* the next repayment through, and the lenders end up whole - if the partner's vault
\* is never found empty for good and nobody settles the order behind the positions.
\* This is about the arithmetic of repayments: that users and the mint stay
\* registered is part of the run, which has no instruction that removes them.
LoansRepaid ==
  \A key \in OrderKeys :
    []<>Payable(key) =>
      (Owed(key) > 0 ~> (Owed(key) = 0 \/ key \in touched))
-----------------------------------------------------------------------------
(***************************************************************************)
(* A comment of the repository that the code does not keep.                *)
(***************************************************************************)

\* repay.rs 173: "Allocate proportionally with ceiling division while capping each
\* share by both the position balance and the undistributed amount."  No lender
\* then gets more for a position than its balance.
RepaidWithinBalance ==
  [][\A u \in Users, key \in OrderKeys :
       Open(key) /\ Lends(key, u) /\ Registered(u) /\ users[u].user_type = "ICV"
         /\ audit'[key].paid > audit[key].paid /\ users' = users =>
           bal'[u][MintOf(u)] - bal[u][MintOf(u)] <= Remaining(key[2], u)]_allVars
=============================================================================
