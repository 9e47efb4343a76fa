------------------------ MODULE LendingBooks_proofs ------------------------
(***************************************************************************)
(* The inductive invariant of OrbitLending, LendingInv, and that every     *)
(* step but a claim keeps it, for any number of users, orders, partners    *)
(* and mints, any loans and repayments, and any width of the integers.     *)
(* What is known of each program by itself is taken from the proofs about  *)
(* CoreOrders, OrbitUsers and OrbitShares.                                 *)
(***************************************************************************)
EXTENDS OrbitLending, OrbitUsers_proofs, Sums_proofs, SequenceTheorems

CoreP == INSTANCE CoreOrders_proofs WITH
           Lenders <- Users \cup UserWallets \cup {OrbitVault}

\* Of that module only what it says of any balances and any amount is used.
ShareP == INSTANCE OrbitShares_proofs WITH
            MaxPositions <- 0, MaxBalance <- 0, remaining <- <<>>, pot <- 0

Payees == Users \cup UserWallets \cup {OrbitVault}

(***************************************************************************)
(* The facts about Core that are used here, as statements about the Core   *)
(* that OrbitLending instantiates.                                         *)
(***************************************************************************)
CoreBooks == Core!DebtInv /\ Core!LendersSenior /\ Core!LendersPaidByPartner

\* What CoreOrders assumes is assumed of this Core, or follows.
LEMMA CoreAssumptions ==
  /\ None \notin CoreP!Beneficiary /\ None \notin CoreP!OrderTracker
  /\ CoreP!IsFiniteSet(Users \cup UserWallets \cup {OrbitVault})
  /\ Partners \cap Zovs = {}
  /\ None \notin Wallets \cup Zovs \cup CoreP!U64
  /\ InitialBalance \in [CoreP!Accounts -> [Mints -> Nat]]
  /\ RoleSets \subseteq [manager : Keys, admin : Keys, guardian : Keys]
  /\ MaxU64 \in Nat
  /\ None \notin CoreP!Config
  /\ FeeBearing \subseteq Mints /\ InitialManager \in Keys /\ None \notin Keys \cup Mints
<1>1. None \notin CoreP!Beneficiary /\ None \notin CoreP!OrderTracker
  BY CoreAssumption
  DEF Core!NoneIsNoAccount, Core!Beneficiary, CoreP!Beneficiary, Core!OrderTracker,
      CoreP!OrderTracker, Core!U64, CoreP!U64
<1>2. CoreP!IsFiniteSet(Users \cup UserWallets \cup {OrbitVault})
  BY CoreAssumption DEF Core!LendersAreFinite, Core!IsFiniteSet, CoreP!IsFiniteSet
<1>3. /\ Partners \cap Zovs = {}
      /\ None \notin Wallets \cup Zovs \cup CoreP!U64
      /\ InitialBalance \in [CoreP!Accounts -> [Mints -> Nat]]
      /\ RoleSets \subseteq [manager : Keys, admin : Keys, guardian : Keys]
  BY CoreAssumption
  DEF Core!OrdersAssumption, Core!Accounts, CoreP!Accounts, Core!U64, CoreP!U64
<1>4. None \notin CoreP!Config
  BY NoneIsNoConfig DEF Config, CoreP!Config
<1>5. QED
  BY <1>1, <1>2, <1>3, <1>4, WidthAssumption, ConfigAssumption

LEMMA Finite == IsFiniteSet(Payees) /\ IsFiniteSet(Users) /\ IsFiniteSet(OrderIds)
<1>1. IsFiniteSet(Payees)
  BY CoreAssumption DEF Core!LendersAreFinite, Core!IsFiniteSet, IsFiniteSet, Payees
<1>2. Users \subseteq Payees
  BY DEF Payees
<1>3. QED
  BY <1>1, <1>2, CoreAssumption, FS_Subset

LEMMA SameTypes ==
  /\ Core!TypeOK <=> CoreP!TypeOK
  /\ U64 = CoreP!U64 /\ OrderKeys = CoreP!OrderKeys /\ OrderKeys = Core!OrderKeys
  /\ Core!OrderTracker = CoreP!OrderTracker /\ Core!History = CoreP!History
  /\ Balances = CoreP!Balances
<1>1. Holders = CoreP!Accounts
  BY LendingAssumption DEF Core!Accounts, CoreP!Accounts
<1>2. QED
  BY <1>1
  DEF Core!TypeOK, CoreP!TypeOK, Core!Accounts, CoreP!Accounts, Core!OrderTracker,
      CoreP!OrderTracker, Core!History, CoreP!History, Core!OrderKeys, CoreP!OrderKeys,
      OrderKeys, Core!Beneficiary, CoreP!Beneficiary, Core!U64, CoreP!U64, U64,
      Core!Config, CoreP!Config, Core!Initialized, CoreP!Initialized,
      Balances, BalancesOf, CoreP!Balances

LEMMA SameBooks == CoreBooks <=> CoreP!Books
BY DEF CoreBooks, Core!DebtInv, Core!LendersSenior, Core!LendersPaidByPartner,
       CoreP!Books, CoreP!Book, Core!OrderKeys, CoreP!OrderKeys, Core!Open, CoreP!Open,
       Core!Ledger, CoreP!Ledger, Core!Senior, CoreP!Senior, Core!Covered, CoreP!Covered

LEMMA SameCreation ==
  ASSUME NEW b, NEW signer, NEW byOrbit, NEW key, NEW zov, NEW wallet, NEW mint,
         NEW transient, NEW amount, NEW meta, NEW borrowed
  PROVE  Core!CreateOrderFrom(b, signer, byOrbit, key, zov, wallet, mint, transient, amount,
                              meta, borrowed)
         <=> CoreP!CreateOrderFrom(b, signer, byOrbit, key, zov, wallet, mint, transient,
                                   amount, meta, borrowed)
BY DEF Core!CreateOrderFrom, CoreP!CreateOrderFrom, Core!EffectiveAmount,
       CoreP!EffectiveAmount, Core!IsManager, CoreP!IsManager, Core!Initialized,
       CoreP!Initialized, Core!Running, CoreP!Running, Core!MintAllowed,
       CoreP!MintAllowed, Core!Open, CoreP!Open, Core!Eligible, CoreP!Eligible,
       Core!BorrowedAllowed, CoreP!BorrowedAllowed, Core!Transfer, CoreP!Transfer,
       Core!Arrives, CoreP!Arrives, Core!OpenTracker, CoreP!OpenTracker,
       Core!FreshHistory, CoreP!FreshHistory

LEMMA SamePull ==
  ASSUME NEW signer, NEW key, NEW zov, NEW wallet, NEW mint, NEW transient, NEW amount
  PROVE  Core!PullAndCreateOrder(signer, key, zov, wallet, mint, transient, amount)
         <=> CoreP!PullAndCreateOrder(signer, key, zov, wallet, mint, transient, amount)
BY DEF Core!PullAndCreateOrder, CoreP!PullAndCreateOrder, Core!IsManager,
       CoreP!IsManager, Core!Initialized, CoreP!Initialized, Core!Running,
       CoreP!Running, Core!MintAllowed, CoreP!MintAllowed, Core!Open, CoreP!Open,
       Core!Eligible, CoreP!Eligible, Core!Transfer, CoreP!Transfer, Core!Arrives,
       CoreP!Arrives, Core!OpenTracker, CoreP!OpenTracker, Core!FreshHistory,
       CoreP!FreshHistory

LEMMA SameSettling ==
  ASSUME NEW signer, NEW key, NEW amount
  PROVE  /\ \A close : Core!Replenish(signer, key, amount, close)
                         <=> CoreP!Replenish(signer, key, amount, close)
         /\ Core!RecordOrder(signer, key, amount) <=> CoreP!RecordOrder(signer, key, amount)
BY DEF Core!Replenish, CoreP!Replenish, Core!ReplenishAccounts, CoreP!ReplenishAccounts,
       Core!IsManager, CoreP!IsManager, Core!Initialized, CoreP!Initialized,
       Core!Running, CoreP!Running, Core!MintAllowed, CoreP!MintAllowed, Core!Open,
       CoreP!Open, Core!Replenished, CoreP!Replenished, Core!Transfer, CoreP!Transfer,
       Core!Arrives, CoreP!Arrives, Core!RecordOrder, CoreP!RecordOrder,
       Core!RecordReplenishment, CoreP!RecordReplenishment, Core!RecordPayout,
       CoreP!RecordPayout, Core!OpenTracker, CoreP!OpenTracker, Core!FreshHistory,
       CoreP!FreshHistory, Core!U64, CoreP!U64

LEMMA SameClosing ==
  ASSUME NEW signer, NEW keys
  PROVE  Core!CloseOrders(signer, keys) <=> CoreP!CloseOrders(signer, keys)
BY DEF Core!CloseOrders, CoreP!CloseOrders, Core!IsAdminOrGuardian,
       CoreP!IsAdminOrGuardian, Core!Initialized, CoreP!Initialized, Core!Running,
       CoreP!Running, Core!Open, CoreP!Open, Core!OrderKeys, CoreP!OrderKeys

LEMMA SameSum ==
  ASSUME NEW f
  PROVE  Core!SumFunction(f) = SumFunction(f) /\ CoreP!SumFunction(f) = SumFunction(f)
BY DEF Core!SumFunction, CoreP!SumFunction, SumFunction, Core!SumFunctionOnSet,
       CoreP!SumFunctionOnSet, SumFunctionOnSet, Core!FoldFunctionOnSet,
       CoreP!FoldFunctionOnSet, FoldFunctionOnSet, Core!MapThenFoldSet,
       CoreP!MapThenFoldSet, MapThenFoldSet

LEMMA SameRepayment ==
  ASSUME NEW b, NEW key, NEW t, NEW amount, NEW repay, NEW total, NEW shares
  PROVE  /\ Core!Repayable(b, key, t, amount, repay, shares)
              <=> CoreP!Repayable(b, key, t, amount, repay, shares)
         /\ Core!BalancesRepaid(b, key, t, amount, shares)
              = CoreP!BalancesRepaid(b, key, t, amount, shares)
         /\ Core!TrackerRepaid(t, repay, total) = CoreP!TrackerRepaid(t, repay, total)
         /\ Core!SharesAccepted(t, repay, total) <=> CoreP!SharesAccepted(t, repay, total)
         /\ Core!Outstanding(t) = CoreP!Outstanding(t)
         /\ Core!Ledger(t) <=> CoreP!Ledger(t)
         /\ Core!Running <=> CoreP!Running
<1>1. /\ Core!SumFunction(shares) = SumFunction(shares)
      /\ CoreP!SumFunction(shares) = SumFunction(shares)
  BY SameSum
<1>2. QED
  BY <1>1
  DEF Core!Repayable, CoreP!Repayable, Core!MintAllowed, CoreP!MintAllowed,
      Core!Outstanding, CoreP!Outstanding, Core!U64, CoreP!U64, Core!SharesAccepted,
      CoreP!SharesAccepted, Core!LentOutstanding, CoreP!LentOutstanding,
      Core!HouseDebtDefined, CoreP!HouseDebtDefined, Core!Transfer, CoreP!Transfer,
      Core!Arrives, CoreP!Arrives, Core!BalancesRepaid, CoreP!BalancesRepaid,
      Core!PayShares, CoreP!PayShares, Core!Accounts, CoreP!Accounts,
      Core!TrackerRepaid, CoreP!TrackerRepaid, Core!Ledger, CoreP!Ledger,
      Core!Running, CoreP!Running, Core!Initialized, CoreP!Initialized

LEMMA SameRepaymentStep ==
  ASSUME NEW key, NEW amount, NEW repay, NEW shares
  PROVE  Core!ReplenishAndRepay(key, amount, repay, shares)
         <=> CoreP!ReplenishAndRepay(key, amount, repay, shares)
<1>1. /\ Core!SumFunction(shares) = CoreP!SumFunction(shares)
      /\ \A t : /\ Core!Repayable(bal, key, t, amount, repay, shares)
                     <=> CoreP!Repayable(bal, key, t, amount, repay, shares)
                /\ Core!BalancesRepaid(bal, key, t, amount, shares)
                     = CoreP!BalancesRepaid(bal, key, t, amount, shares)
                /\ \A total : Core!TrackerRepaid(t, repay, total)
                                = CoreP!TrackerRepaid(t, repay, total)
      /\ Core!Running <=> CoreP!Running
  BY SameSum, SameRepayment
<1>2. QED
  BY <1>1 DEF Core!ReplenishAndRepay, CoreP!ReplenishAndRepay, Core!Open, CoreP!Open,
              Core!Arrives, CoreP!Arrives

-----------------------------------------------------------------------------
(***************************************************************************)
(* What Core keeps, step by step.                                          *)
(***************************************************************************)
CoreOK == Core!TypeOK /\ CoreBooks

LEMMA CoreOKIsIInv == CoreOK <=> CoreP!IInv
BY SameTypes, SameBooks DEF CoreOK, CoreP!IInv

LEMMA CoreOKIsIInvNext == CoreOK' <=> CoreP!IInv'
BY CoreOKIsIInv, PTL

LEMMA CoreCreates ==
  ASSUME CoreOK, NEW b \in Balances, NEW signer, NEW byOrbit \in BOOLEAN,
         NEW key \in OrderKeys, NEW zov \in Zovs, NEW wallet \in Wallets \cup {None},
         NEW mint \in Mints, NEW transient \in BOOLEAN, NEW amount \in U64,
         NEW meta \in U64 \cup {None}, NEW borrowed \in U64,
         Core!CreateOrderFrom(b, signer, byOrbit, key, zov, wallet, mint, transient, amount,
                              meta, borrowed)
  PROVE  CoreOK'
<1>1. CoreP!IInv /\ CoreP!TypeOK
  BY CoreOKIsIInv DEF CoreP!IInv
<1>2. CoreP!CreateOrderFrom(b, signer, byOrbit, key, zov, wallet, mint, transient, amount,
                            meta, borrowed)
  BY SameCreation
<1>3. /\ b \in CoreP!Balances /\ key \in CoreP!OrderKeys /\ amount \in CoreP!U64
      /\ meta \in CoreP!U64 \cup {None} /\ borrowed \in CoreP!U64
  BY SameTypes
<1>4. CoreP!TypeOK'
  BY <1>1, <1>2, <1>3, CoreP!CreateOrderFromType, CoreAssumptions
<1>5. CoreP!Books'
  BY <1>1, <1>2, <1>3, CoreP!CreateOrderFromBooks, CoreAssumptions
<1>6. QED
  BY <1>4, <1>5, CoreOKIsIInvNext DEF CoreP!IInv

LEMMA CorePulls ==
  ASSUME CoreOK, NEW signer, NEW key \in OrderKeys, NEW zov \in Zovs, NEW wallet \in Wallets,
         NEW mint \in Mints, NEW transient \in BOOLEAN, NEW amount \in U64,
         Core!PullAndCreateOrder(signer, key, zov, wallet, mint, transient, amount)
  PROVE  CoreOK'
<1>1. CoreP!IInv /\ CoreP!TypeOK
  BY CoreOKIsIInv DEF CoreP!IInv
<1>2. /\ key \in CoreP!OrderKeys /\ amount \in CoreP!U64
      /\ CoreP!PullAndCreateOrder(signer, key, zov, wallet, mint, transient, amount)
  BY SameTypes, SamePull
<1>3. CoreP!TypeOK'
  BY <1>1, <1>2, CoreP!PullAndCreateOrderType, CoreAssumptions
<1>4. CoreP!Books'
  BY <1>1, <1>2, CoreP!PullAndCreateOrderBooks, CoreAssumptions
<1>5. QED
  BY <1>3, <1>4, CoreOKIsIInvNext DEF CoreP!IInv

LEMMA CoreSettles ==
  ASSUME CoreOK, NEW signer, NEW key \in OrderKeys, NEW amount \in U64,
         \/ \E close \in BOOLEAN : Core!Replenish(signer, key, amount, close)
         \/ Core!RecordOrder(signer, key, amount)
  PROVE  CoreOK'
<1>1. CoreP!IInv /\ CoreP!TypeOK /\ CoreP!DebtInv
  BY CoreOKIsIInv DEF CoreP!IInv, CoreP!Books, CoreP!Book, CoreP!DebtInv
<1>2. key \in CoreP!OrderKeys /\ amount \in CoreP!U64
  BY SameTypes
<1>3. ASSUME NEW close \in BOOLEAN, Core!Replenish(signer, key, amount, close)
      PROVE  CoreP!IInv'
  <2>1. CoreP!Replenish(signer, key, amount, close)
    BY <1>3, SameSettling
  <2>2. CoreP!TypeOK'
    BY <1>1, <1>2, <2>1, CoreP!ReplenishType, CoreAssumptions
  <2>3. CoreP!Books'
    BY <1>1, <1>2, <2>1, CoreP!ReplenishBooks, CoreAssumptions
  <2>4. QED
    BY <2>2, <2>3 DEF CoreP!IInv
<1>4. ASSUME Core!RecordOrder(signer, key, amount)
      PROVE  CoreP!IInv'
  <2>1. CoreP!RecordOrder(signer, key, amount)
    BY <1>4, SameSettling
  <2>2. CoreP!TypeOK'
    BY <1>1, <1>2, <2>1, CoreP!RecordOrderType, CoreAssumptions
  <2>3. CoreP!Books'
    BY <1>1, <1>2, <2>1, CoreP!RecordOrderBooks, CoreAssumptions
  <2>4. QED
    BY <2>2, <2>3 DEF CoreP!IInv
<1>5. QED
  BY <1>3, <1>4, CoreOKIsIInvNext

LEMMA CoreCloses ==
  ASSUME CoreOK, NEW signer, NEW keys \in SUBSET OrderKeys, Core!CloseOrders(signer, keys)
  PROVE  CoreOK'
<1>1. CoreP!IInv /\ CoreP!TypeOK
  BY CoreOKIsIInv DEF CoreP!IInv
<1>2. keys \in SUBSET CoreP!OrderKeys /\ CoreP!CloseOrders(signer, keys)
  BY SameTypes, SameClosing
<1>3. CoreP!TypeOK'
  BY <1>1, <1>2, CoreP!CloseOrdersType, CoreAssumptions
<1>4. CoreP!Books'
  BY <1>1, <1>2, CoreP!CloseOrdersBooks, CoreAssumptions
<1>5. QED
  BY <1>3, <1>4, CoreOKIsIInvNext DEF CoreP!IInv

LEMMA CoreRepays ==
  ASSUME CoreOK, NEW key \in OrderKeys, NEW amount \in U64, NEW repay \in U64,
         NEW shares \in [Payees -> U64], Core!ReplenishAndRepay(key, amount, repay, shares)
  PROVE  CoreOK'
<1>1. CoreP!IInv /\ CoreP!TypeOK /\ CoreP!DebtInv
  BY CoreOKIsIInv DEF CoreP!IInv, CoreP!Books, CoreP!Book, CoreP!DebtInv
<1>2. /\ key \in CoreP!OrderKeys /\ amount \in CoreP!U64 /\ repay \in CoreP!U64
      /\ shares \in [Users \cup UserWallets \cup {OrbitVault} -> CoreP!U64]
  BY SameTypes DEF Payees
<1>3. CoreP!ReplenishAndRepay(key, amount, repay, shares)
  BY SameRepaymentStep
<1>4. CoreP!TypeOK'
  BY <1>1, <1>2, <1>3, CoreP!ReplenishAndRepayType, CoreAssumptions
<1>5. CoreP!Books'
  BY <1>1, <1>2, <1>3, CoreP!ReplenishAndRepayBooks, CoreAssumptions
<1>6. QED
  BY <1>4, <1>5, CoreOKIsIInvNext DEF CoreP!IInv

\* What one repayment makes of balances, of an order and of its history, wherever
\* in an instruction it happens.
LEMMA CoreRepayment ==
  ASSUME Core!TypeOK, Core!Running, NEW b \in Balances, NEW key \in OrderKeys,
         NEW t \in Core!OrderTracker, Core!Ledger(t), NEW amount \in Nat, NEW repay \in Nat,
         NEW shares \in [Payees -> U64],
         Core!Repayable(b, key, t, amount, repay, shares)
  PROVE  /\ t.mint \in Mints
         /\ Core!BalancesRepaid(b, key, t, amount, shares) \in Balances
         /\ SumFunction(shares) \in Nat
         /\ Core!TrackerRepaid(t, repay, SumFunction(shares))
              \in Core!OrderTracker \cup {None}
         /\ \A u \in Users, mint \in Mints :
              Core!BalancesRepaid(b, key, t, amount, shares)[u][mint]
                = b[u][mint] + (IF mint = t.mint THEN Arrives(mint, shares[u]) ELSE 0)
<1>1. /\ CoreP!TypeOK /\ CoreP!Running /\ CoreP!Ledger(t)
      /\ CoreP!Repayable(b, key, t, amount, repay, shares)
  BY SameTypes, SameRepayment
<1>2. /\ b \in CoreP!Balances /\ key \in CoreP!OrderKeys /\ t \in CoreP!OrderTracker
      /\ shares \in [Users \cup UserWallets \cup {OrbitVault} -> CoreP!U64]
  BY SameTypes DEF Payees
<1>3. CoreP!SumFunction(shares) = SumFunction(shares)
  BY SameSum
<1>4. /\ CoreP!BalancesRepaid(b, key, t, amount, shares) \in CoreP!Balances
      /\ CoreP!SumFunction(shares) \in Nat
      /\ CoreP!TrackerRepaid(t, repay, CoreP!SumFunction(shares))
           \in CoreP!OrderTracker \cup {None}
  BY <1>1, <1>2, CoreP!RepaymentType, CoreAssumptions
<1>5. t.mint \in Mints
  BY <1>1, <1>2, CoreP!PayableOrder, CoreAssumptions
  DEF CoreP!Repayable, CoreP!Running
<1>6. ASSUME NEW u \in Users, NEW mint \in Mints
      PROVE  CoreP!BalancesRepaid(b, key, t, amount, shares)[u][mint]
               = b[u][mint] + (IF mint = t.mint THEN Arrives(mint, shares[u]) ELSE 0)
  <2>1. CoreP!OnlyShares(b, CoreP!BalancesRepaid(b, key, t, amount, shares), t, shares)
    BY <1>1, <1>2, CoreP!RepaymentMoves, CoreAssumptions
  <2>2. u \in (Users \cup UserWallets \cup {OrbitVault}) \ (Partners \cup Zovs)
    BY LendingAssumption
  <2>3. CoreP!Arrives(mint, shares[u]) = Arrives(mint, shares[u])
    BY DEF CoreP!Arrives, Arrives
  <2>4. QED
    BY <2>1, <2>2, <2>3 DEF CoreP!OnlyShares
<1>7. /\ Core!BalancesRepaid(b, key, t, amount, shares)
           = CoreP!BalancesRepaid(b, key, t, amount, shares)
      /\ Core!TrackerRepaid(t, repay, SumFunction(shares))
           = CoreP!TrackerRepaid(t, repay, SumFunction(shares))
  BY SameRepayment
<1>8. QED
  BY <1>3, <1>4, <1>5, <1>6, <1>7, SameTypes

-----------------------------------------------------------------------------
(***************************************************************************)
(* What positions say is owed, as sums over all users and all order ids,   *)
(* with nothing where there is no position.                                *)
(***************************************************************************)
Left(position) ==
  IF position = None THEN 0 ELSE position.amount_borrowed - position.amount_repaid
LoanOn(ps, key, u) ==
  LET position == ps[<<key[2], u>>]
  IN  IF position # None /\ position.partner = key[1] THEN Left(position) ELSE 0

LoansTo(ps, u) == [o \in OrderIds |-> Left(ps[<<o, u>>])]
LoansOn(ps, key) == [u \in Users |-> LoanOn(ps, key, u)]
DebtTo(ps, u) == SumFunctionOnSet(LoansTo(ps, u), OrderIds)
DebtOn(ps, key) == SumFunctionOnSet(LoansOn(ps, key), Users)

PositionsOK(ps) ==
  /\ ps \in [OrderIds \X Users -> Position \cup {None}]
  /\ \A o \in OrderIds, u \in Users : ps[<<o, u>>] # None => Left(ps[<<o, u>>]) > 0

LEMMA LeftNat ==
  ASSUME NEW ps, PositionsOK(ps)
  PROVE  /\ \A o \in OrderIds, u \in Users : Left(ps[<<o, u>>]) \in Nat
         /\ \A key \in OrderKeys, u \in Users : LoanOn(ps, key, u) \in Nat
<1>1. ASSUME NEW o \in OrderIds, NEW u \in Users
      PROVE  Left(ps[<<o, u>>]) \in Nat
  <2>1. ps[<<o, u>>] \in Position \cup {None}
    BY DEF PositionsOK
  <2>2. CASE ps[<<o, u>>] = None
    BY <2>2 DEF Left
  <2>3. CASE ps[<<o, u>>] # None
    <3>1. /\ ps[<<o, u>>].amount_borrowed \in Int /\ ps[<<o, u>>].amount_repaid \in Int
      BY <2>1, <2>3 DEF Position, U64
    <3>2. QED
      BY <2>3, <3>1 DEF PositionsOK, Left
  <2>4. QED
    BY <2>2, <2>3
<1>2. ASSUME NEW key \in OrderKeys, NEW u \in Users
      PROVE  LoanOn(ps, key, u) \in Nat
  <2>1. key[2] \in OrderIds
    BY DEF OrderKeys
  <2>2. Left(ps[<<key[2], u>>]) \in Nat
    BY <1>1, <2>1
  <2>3. QED
    BY <2>2 DEF LoanOn
<1>3. QED
  BY <1>1, <1>2

LEMMA DebtNat ==
  ASSUME NEW ps, PositionsOK(ps)
  PROVE  /\ \A u \in Users : DebtTo(ps, u) \in Nat
         /\ \A key \in OrderKeys : DebtOn(ps, key) \in Nat
<1>1. ASSUME NEW u \in Users PROVE DebtTo(ps, u) \in Nat
  BY LeftNat, Finite, SumNat DEF DebtTo, LoansTo
<1>2. ASSUME NEW key \in OrderKeys PROVE DebtOn(ps, key) \in Nat
  BY LeftNat, Finite, SumNat DEF DebtOn, LoansOn
<1>3. QED
  BY <1>1, <1>2

\* The sums of the specification leave the zeros out.
LEMMA OwedIsDebt ==
  ASSUME PositionsOK(positions), NEW key \in OrderKeys
  PROVE  Owed(key) = DebtOn(positions, key)
<1> DEFINE lenders == {u \in Users : Lends(key, u)}
           part == [u \in lenders |-> Remaining(key[2], u)]
           all == LoansOn(positions, key)
<1>1. \A u \in lenders : all[u] = part[u] /\ all[u] \in Nat
  BY LeftNat DEF LoansOn, LoanOn, Lends, HasPosition, Remaining, Left
<1>2. \A u \in Users \ lenders : all[u] = 0
  BY DEF LoansOn, LoanOn, Lends, HasPosition
<1> HIDE DEF part, all
<1>3. SumFunctionOnSet(all, Users) = SumFunctionOnSet(all, lenders)
  BY <1>1, <1>2, Finite, SumPart
<1>4. SumFunctionOnSet(all, lenders) = SumFunctionOnSet(part, lenders)
  <2>1. IsFiniteSet(lenders)
    BY Finite, FS_Subset
  <2>2. QED
    BY <1>1, <2>1, SumSame
<1>5. Owed(key) = SumFunctionOnSet(part, lenders)
  BY DEF Owed, SumFunction, part
<1>6. QED
  BY <1>3, <1>4, <1>5 DEF DebtOn, all

OwedTo(u) ==
  SumFunction([o \in {i \in OrderIds : HasPosition(i, u)} |-> Remaining(o, u)])

LEMMA OwedToIsDebt ==
  ASSUME PositionsOK(positions), NEW u \in Users
  PROVE  OwedTo(u) = DebtTo(positions, u)
<1> DEFINE lent == {o \in OrderIds : HasPosition(o, u)}
           part == [o \in lent |-> Remaining(o, u)]
           all == LoansTo(positions, u)
<1>1. \A o \in lent : all[o] = part[o] /\ all[o] \in Nat
  BY LeftNat DEF LoansTo, HasPosition, Remaining, Left
<1>2. \A o \in OrderIds \ lent : all[o] = 0
  BY DEF LoansTo, HasPosition, Left
<1> HIDE DEF part, all
<1>3. SumFunctionOnSet(all, OrderIds) = SumFunctionOnSet(all, lent)
  BY <1>1, <1>2, Finite, SumPart
<1>4. SumFunctionOnSet(all, lent) = SumFunctionOnSet(part, lent)
  <2>1. IsFiniteSet(lent)
    BY Finite, FS_Subset
  <2>2. QED
    BY <1>1, <2>1, SumSame
<1>5. OwedTo(u) = SumFunctionOnSet(part, lent)
  BY DEF OwedTo, SumFunction, part
<1>6. QED
  BY <1>3, <1>4, <1>5 DEF DebtTo, all

\* When the positions of one order change by `moved`, what is owed to each user
\* changes by its part, and what is owed on this order by the sum of the parts.
MovedBy(ps, qs, key, moved) ==
  /\ \A o \in OrderIds \ {key[2]}, u \in Users : qs[<<o, u>>] = ps[<<o, u>>]
  /\ \A u \in Users :
       LET before == ps[<<key[2], u>>]
           after  == qs[<<key[2], u>>]
       IN  /\ Left(after) = Left(before) + moved[u]
           /\ before = after \/ /\ before # None => before.partner = key[1]
                                /\ after # None => after.partner = key[1]

LEMMA DebtsMove ==
  ASSUME NEW ps, PositionsOK(ps), NEW qs, PositionsOK(qs), NEW key \in OrderKeys,
         NEW moved \in [Users -> Int], MovedBy(ps, qs, key, moved)
  PROVE  /\ \A u \in Users : DebtTo(qs, u) = DebtTo(ps, u) + moved[u]
         /\ DebtOn(qs, key) = DebtOn(ps, key) + SumFunctionOnSet(moved, Users)
         /\ \A other \in OrderKeys \ {key} : DebtOn(qs, other) = DebtOn(ps, other)
<1>1. key[2] \in OrderIds /\ key[1] \in Partners
  BY DEF OrderKeys
<1>2. ASSUME NEW u \in Users
      PROVE  DebtTo(qs, u) = DebtTo(ps, u) + moved[u]
  <2> DEFINE here == [o \in OrderIds |-> IF o = key[2] THEN moved[u] ELSE 0]
             old == LoansTo(ps, u)
             new == LoansTo(qs, u)
  <2>1. \A o \in OrderIds : old[o] \in Int /\ here[o] \in Int /\ new[o] = old[o] + here[o]
    BY <1>1, LeftNat DEF LoansTo, MovedBy
  <2>2. here[key[2]] = moved[u] /\ \A o \in OrderIds \ {key[2]} : here[o] = 0
    BY <1>1
  <2> HIDE DEF here, old, new
  <2>3. SumFunctionOnSet(new, OrderIds)
          = SumFunctionOnSet(old, OrderIds) + SumFunctionOnSet(here, OrderIds)
    BY <2>1, Finite, SumPlus
  <2>4. SumFunctionOnSet(here, OrderIds) = moved[u]
    BY <1>1, <2>2, Finite, SumOnly
  <2>5. QED
    BY <2>3, <2>4 DEF DebtTo, old, new
<1>3. DebtOn(qs, key) = DebtOn(ps, key) + SumFunctionOnSet(moved, Users)
  <2> DEFINE old == LoansOn(ps, key)
             new == LoansOn(qs, key)
  <2>1. ASSUME NEW u \in Users
        PROVE  old[u] \in Int /\ moved[u] \in Int /\ new[u] = old[u] + moved[u]
    <3>1. Left(ps[<<key[2], u>>]) \in Nat /\ Left(qs[<<key[2], u>>]) \in Nat
      BY <1>1, LeftNat
    <3>2. /\ Left(qs[<<key[2], u>>]) = Left(ps[<<key[2], u>>]) + moved[u]
          /\ \/ ps[<<key[2], u>>] = qs[<<key[2], u>>]
             \/ /\ ps[<<key[2], u>>] # None => ps[<<key[2], u>>].partner = key[1]
                /\ qs[<<key[2], u>>] # None => qs[<<key[2], u>>].partner = key[1]
      BY DEF MovedBy
    <3>3. ps[<<key[2], u>>] = None => Left(ps[<<key[2], u>>]) = 0
      BY DEF Left
    <3>4. qs[<<key[2], u>>] = None => Left(qs[<<key[2], u>>]) = 0
      BY DEF Left
    <3>5. LoanOn(qs, key, u) = LoanOn(ps, key, u) + moved[u] /\ LoanOn(ps, key, u) \in Int
      BY <3>1, <3>2, <3>3, <3>4 DEF LoanOn
    <3>6. QED
      BY <3>5 DEF LoansOn
  <2> HIDE DEF old, new
  <2>2. SumFunctionOnSet(new, Users)
          = SumFunctionOnSet(old, Users) + SumFunctionOnSet(moved, Users)
    BY <2>1, Finite, SumPlus
  <2>3. QED
    BY <2>2 DEF DebtOn, old, new
<1>4. ASSUME NEW other \in OrderKeys \ {key}
      PROVE  DebtOn(qs, other) = DebtOn(ps, other)
  <2> DEFINE old == LoansOn(ps, other)
             new == LoansOn(qs, other)
  <2>1. other[2] \in OrderIds /\ (other[2] = key[2] => other[1] # key[1])
    BY DEF OrderKeys
  <2>2. ASSUME NEW u \in Users
        PROVE  new[u] \in Int /\ new[u] = old[u]
    <3>1. \/ qs[<<other[2], u>>] = ps[<<other[2], u>>]
          \/ /\ ps[<<other[2], u>>] # None => ps[<<other[2], u>>].partner # other[1]
             /\ qs[<<other[2], u>>] # None => qs[<<other[2], u>>].partner # other[1]
      BY <2>1 DEF MovedBy
    <3>2. LoanOn(qs, other, u) = LoanOn(ps, other, u)
      BY <3>1 DEF LoanOn
    <3>3. QED
      BY <3>2, LeftNat DEF LoansOn
  <2> HIDE DEF old, new
  <2>3. SumFunctionOnSet(new, Users) = SumFunctionOnSet(old, Users)
    BY <2>2, Finite, SumSame
  <2>4. QED
    BY <2>3 DEF DebtOn, old, new
<1>5. QED
  BY <1>2, <1>3, <1>4

-----------------------------------------------------------------------------
(***************************************************************************)
(* The inductive invariant.  On an order that nobody has touched from      *)
(* outside, only Orbit has repaid: so lenders are senior on it, it closes  *)
(* only when nothing is lent, and the two books can agree.                 *)
(***************************************************************************)
LentOn(os, key) == IF os[key] # None THEN Core!LentOutstanding(os[key]) ELSE 0

Agree(ps, os, keys) == \A key \in OrderKeys \ keys : DebtOn(ps, key) = LentOn(os, key)

Clean(os, histories, keys) ==
  \A key \in OrderKeys \ keys :
    os[key] # None => ~histories[key].direct /\ ~histories[key].recorded

Debts(ps) == [u \in Users |-> DebtTo(ps, u)]

UsersPart ==
  /\ UsersTypeOK /\ (ovault # None => IsFiniteSet(ovault)) /\ WithinCap
  /\ \A u \in Users \ struck :
       Registered(u) => Backed(u, users[u], bal, Debts(positions))

OrdersPart ==
  /\ CoreOK
  /\ PositionsOK(positions)
  /\ approved \in [UserWallets -> Approval] /\ touched \subseteq OrderKeys /\ struck \subseteq Users
  /\ Clean(orders, audit, touched)
  /\ Agree(positions, orders, touched)

LendingInv == UsersPart /\ OrdersPart

LEMMA InvMeansProperties ==
  ASSUME LendingInv
  PROVE  LendingTypeOK /\ BooksAgree /\ PrincipalCovered
<1>1. PositionsOK(positions) /\ CoreOK
  BY DEF LendingInv, OrdersPart
<1>2. \A o \in OrderIds, u \in Users : HasPosition(o, u) => Remaining(o, u) > 0
  BY <1>1 DEF PositionsOK, Left, HasPosition, Remaining
<1>3. LendingTypeOK
  BY <1>1, <1>2 DEF LendingInv, OrdersPart, LendingTypeOK, PositionsOK, CoreOK
<1>4. BooksAgree
  <2>1. \A key \in OrderKeys : Owed(key) = DebtOn(positions, key)
    BY <1>1, OwedIsDebt
  <2>2. QED
    BY <2>1 DEF BooksAgree, LendingInv, OrdersPart, Agree, LentOn, Open
<1>5. PrincipalCovered
  <2> SUFFICES ASSUME NEW u \in Users \ struck, Registered(u),
                      users[u].user_type = "ICV", MintOf(u) \notin FeeBearing
               PROVE  users[u].principal_in - users[u].principal_out
                        <= bal[u][MintOf(u)] + OwedTo(u)
    BY DEF PrincipalCovered, OwedTo
  <2>1. OwedTo(u) = Debts(positions)[u]
    BY <1>1, OwedToIsDebt DEF Debts
  <2>2. QED
    BY <2>1 DEF LendingInv, UsersPart, Backed, Net, MintOf
<1>6. QED
  BY <1>3, <1>4, <1>5

\* What the parts of the invariant say, where the leaves below need it.
LEMMA InvFacts ==
  ASSUME LendingInv
  PROVE  /\ UsersTypeOK /\ CoreOK /\ Core!TypeOK /\ PositionsOK(positions)
         /\ bal \in Balances /\ config \in Config /\ config.mints # {}
         /\ orders \in [OrderKeys -> Core!OrderTracker \cup {None}]
         /\ audit \in [OrderKeys -> Core!History]
         /\ approved \in [UserWallets -> Approval] /\ touched \subseteq OrderKeys
BY SameTypes DEF LendingInv, UsersPart, OrdersPart, CoreOK, UsersTypeOK, Balances, BalancesOf,
                 Core!TypeOK

\* What Orbit's users do by themselves is what OrbitUsers_proofs says, with the debts
\* to those who lost no position as what others owe.
LEMMA OwedAmounts ==
  ASSUME LendingInv
  PROVE  \E owed \in [Users -> Nat] :
           /\ UsersInv(owed)
           /\ \A u \in Users \ struck : owed[u] = DebtTo(positions, u)
<1> DEFINE enough(u) == IF u \in struck
                          THEN IF Registered(u) THEN users[u].principal_in ELSE 0
                          ELSE DebtTo(positions, u)
           owed == [u \in Users |-> enough(u)]
<1>1. UsersTypeOK /\ PositionsOK(positions)
  BY DEF LendingInv, UsersPart, OrdersPart
<1>2. owed \in [Users -> Nat]
  BY <1>1, UserFacts, DebtNat
<1>3. ASSUME NEW u \in Users, Registered(u)
      PROVE  Sound(u, users[u], bal, owed)
  <2>1. Net(users[u]) <= users[u].max_principal
    BY <1>3 DEF LendingInv, UsersPart, WithinCap, Net
  <2>2. CASE u \in struck
    <3>1. owed[u] = users[u].principal_in
      BY <1>3, <2>2
    <3>2. /\ users[u].principal_in \in Nat /\ users[u].principal_out \in Nat
          /\ bal[u][MintOf(u)] \in Nat
      BY <1>1, <1>3, UserFacts, OwnersHold DEF UsersTypeOK
    <3> HIDE DEF owed
    <3>3. QED
      BY <2>1, <3>1, <3>2 DEF Sound, Backed, Net, MintOf
  <2>3. CASE u \notin struck
    <3>1. owed[u] = Debts(positions)[u]
      BY <2>3 DEF Debts
    <3>2. Backed(u, users[u], bal, Debts(positions))
      BY <1>3, <2>3 DEF LendingInv, UsersPart
    <3> HIDE DEF owed
    <3>3. QED
      BY <2>1, <3>1, <3>2 DEF Sound, Backed
  <2>4. QED
    BY <2>2, <2>3
<1>4. UsersInv(owed)
  <2> HIDE DEF owed
  <2>1. QED
    BY <1>3 DEF UsersInv, AllSound, LendingInv, UsersPart
<1>5. \A u \in Users \ struck : owed[u] = DebtTo(positions, u)
  OBVIOUS
<1> HIDE DEF owed
<1>6. QED
  BY <1>2, <1>4, <1>5

LEMMA UsersPartFrom ==
  ASSUME NEW owed \in [Users -> Nat], UsersInv(owed)',
         \A u \in Users \ struck' : owed[u] = DebtTo(positions', u)
  PROVE  UsersPart'
<1>1. ASSUME NEW u \in Users, Registered(u)'
      PROVE  /\ Net(users'[u]) <= users'[u].max_principal
             /\ u \notin struck' => Backed(u, users'[u], bal', Debts(positions'))
  <2>1. Sound(u, users'[u], bal', owed)
    BY <1>1 DEF UsersInv, AllSound
  <2>2. u \notin struck' => Debts(positions')[u] = owed[u]
    BY DEF Debts
  <2>3. QED
    BY <2>1, <2>2 DEF Sound, Backed
<1>2. WithinCap'
  BY <1>1 DEF WithinCap, Net
<1>3. QED
  BY <1>1, <1>2 DEF UsersPart, UsersInv

\* A step that books `paid` to users as gone out has to leave at least as much, in
\* custody and in positions, as is still booked.
LEMMA UsersPartKept ==
  ASSUME LendingInv, NEW paid \in [Users -> Nat],
         users' \in [Users -> User \cup {None}],
         \A u \in Users : Registered(u)' =>
           /\ Registered(u)
           /\ users'[u].user_type = users[u].user_type
           /\ users'[u].allowed_mint = users[u].allowed_mint
           /\ users'[u].max_principal = users[u].max_principal
           /\ users'[u].principal_in = users[u].principal_in
           /\ users'[u].principal_out = users[u].principal_out + paid[u],
         UNCHANGED <<withdraws, cliffs, ovault, now, carried, struck>>,
         config' \in Config, config'.mints # {}, bal' \in Balances,
         \A u \in Users :
           Registered(u) /\ users[u].user_type = "ICV" /\ MintOf(u) \notin FeeBearing =>
             bal[u][MintOf(u)] + DebtTo(positions, u)
               <= bal'[u][MintOf(u)] + DebtTo(positions', u) + paid[u],
         PositionsOK(positions')
  PROVE  UsersPart'
<1>1. UsersTypeOK /\ PositionsOK(positions)
  BY DEF LendingInv, UsersPart, OrdersPart
<1>2. UsersTypeOK'
  BY <1>1 DEF UsersTypeOK, Balances, BalancesOf
<1>3. ASSUME NEW u \in Users, Registered(u)'
      PROVE  /\ Net(users'[u]) <= users'[u].max_principal
             /\ u \notin struck' => Backed(u, users'[u], bal', Debts(positions'))
  <2>1. /\ Registered(u) /\ MintOf(u) \in Mints
        /\ users[u].principal_in \in Nat /\ users[u].principal_out \in Nat
        /\ users[u].max_principal \in Nat /\ paid[u] \in Nat
    BY <1>1, <1>3, UserFacts
  <2>2. Net(users'[u]) = Net(users[u]) - paid[u]
    BY <1>3, <2>1 DEF Net
  <2>3. Net(users[u]) <= users[u].max_principal /\ Net(users[u]) \in Int
    BY <2>1 DEF LendingInv, UsersPart, WithinCap, Net
  <2>4. Net(users'[u]) <= users'[u].max_principal
    BY <1>3, <2>1, <2>2, <2>3
  <2>5. ASSUME u \notin struck', users[u].user_type = "ICV", MintOf(u) \notin FeeBearing
        PROVE  Net(users'[u]) <= bal'[u][MintOf(u)] + DebtTo(positions', u)
    <3>1. Net(users[u]) <= bal[u][MintOf(u)] + DebtTo(positions, u)
      BY <2>1, <2>5 DEF LendingInv, UsersPart, Backed, Debts, MintOf
    <3>2. bal[u][MintOf(u)] + DebtTo(positions, u)
            <= bal'[u][MintOf(u)] + DebtTo(positions', u) + paid[u]
      BY <2>1, <2>5
    <3>3. /\ bal[u][MintOf(u)] \in Nat /\ bal'[u][MintOf(u)] \in Nat
          /\ DebtTo(positions, u) \in Nat /\ DebtTo(positions', u) \in Nat
      BY <1>1, <2>1, DebtNat, OwnersHold DEF UsersTypeOK, Balances, BalancesOf
    <3>4. QED
      BY <2>1, <2>2, <2>3, <3>1, <3>2, <3>3
  <2>6. users'[u].user_type = users[u].user_type /\ users'[u].allowed_mint = MintOf(u)
    BY <1>3 DEF MintOf
  <2>7. QED
    BY <2>4, <2>5, <2>6 DEF Backed, Debts
<1>4. WithinCap'
  BY <1>3 DEF WithinCap, Net
<1>5. QED
  BY <1>2, <1>3, <1>4 DEF UsersPart, LendingInv

\* ... in a step that books nothing.
LEMMA UsersUntouched ==
  ASSUME LendingInv, UNCHANGED <<config, users, withdraws, cliffs, ovault, now, carried, struck>>,
         bal' \in Balances, PositionsOK(positions'),
         \A u \in Users :
           Registered(u) /\ users[u].user_type = "ICV" /\ MintOf(u) \notin FeeBearing =>
             bal[u][MintOf(u)] + DebtTo(positions, u)
               <= bal'[u][MintOf(u)] + DebtTo(positions', u) + Nothing[u]
  PROVE  UsersPart'
<1>1. UsersTypeOK /\ config \in Config /\ config.mints # {}
  BY InvFacts
<1>2. ASSUME NEW u \in Users, Registered(u)'
      PROVE  /\ Registered(u)
             /\ users'[u].user_type = users[u].user_type
             /\ users'[u].allowed_mint = users[u].allowed_mint
             /\ users'[u].max_principal = users[u].max_principal
             /\ users'[u].principal_in = users[u].principal_in
             /\ users'[u].principal_out = users[u].principal_out + Nothing[u]
  <2>1. Registered(u)
    BY <1>2 DEF Registered
  <2>2. users[u].principal_out \in Nat /\ Nothing[u] = 0
    BY <1>1, <2>1, UserFacts DEF Nothing
  <2>3. users[u].principal_out = users[u].principal_out + Nothing[u]
    BY <2>2
  <2>4. users' = users
    OBVIOUS
  <2>5. QED
    BY <2>1, <2>3, <2>4, Zenon
<1>3. Nothing \in [Users -> Nat] /\ users' \in [Users -> User \cup {None}]
  BY <1>1 DEF Nothing, UsersTypeOK
<1>4. config' \in Config /\ config'.mints # {}
  BY <1>1
<1>5. UNCHANGED <<withdraws, cliffs, ovault, now, carried, struck>>
  OBVIOUS
<1>6. QED
  BY <1>2, <1>3, <1>4, <1>5, UsersPartKept

LEMMA NoneMoved ==
  ASSUME NEW ps, NEW key \in OrderKeys, PositionsOK(ps)
  PROVE  /\ Nothing \in [Users -> Int] /\ SumFunctionOnSet(Nothing, Users) = 0
         /\ MovedBy(ps, ps, key, Nothing)
<1>1. Nothing \in [Users -> Int] /\ \A u \in Users : Nothing[u] = 0
  BY DEF Nothing
<1>2. key[2] \in OrderIds
  BY DEF OrderKeys
<1>3. QED
  BY <1>1, <1>2, LeftNat, Finite, SumZero DEF MovedBy

\* A step about the order under one key has to change what Core says is lent on it as
\* it changes the positions.
LEMMA OrdersPartKept ==
  ASSUME LendingInv, CoreOK', PositionsOK(positions'), approved' \in [UserWallets -> Approval],
         touched \subseteq touched', touched' \subseteq OrderKeys, struck' = struck,
         NEW key \in OrderKeys, NEW moved \in [Users -> Int],
         MovedBy(positions, positions', key, moved),
         \A other \in OrderKeys \ {key} :
           orders'[other] = orders[other] /\ audit'[other] = audit[other],
         key \notin touched' =>
           /\ LentOn(orders', key) = LentOn(orders, key) + SumFunctionOnSet(moved, Users)
           /\ orders'[key] # None => ~audit'[key].direct /\ ~audit'[key].recorded
  PROVE  OrdersPart'
<1>1. PositionsOK(positions)
  BY DEF LendingInv, OrdersPart
<1>2. /\ DebtOn(positions', key) = DebtOn(positions, key) + SumFunctionOnSet(moved, Users)
      /\ \A other \in OrderKeys \ {key} : DebtOn(positions', other) = DebtOn(positions, other)
  BY <1>1, DebtsMove
<1>3. Agree(positions', orders', touched')
  <2> SUFFICES ASSUME NEW one \in OrderKeys \ touched'
               PROVE  DebtOn(positions', one) = LentOn(orders', one)
    BY DEF Agree
  <2>1. DebtOn(positions, one) = LentOn(orders, one)
    BY DEF LendingInv, OrdersPart, Agree
  <2>2. CASE one = key
    BY <1>2, <2>1, <2>2
  <2>3. CASE one # key
    BY <1>2, <2>1, <2>3 DEF LentOn
  <2>4. QED
    BY <2>2, <2>3
<1>4. Clean(orders', audit', touched')
  <2> SUFFICES ASSUME NEW one \in OrderKeys \ touched', orders'[one] # None
               PROVE  ~audit'[one].direct /\ ~audit'[one].recorded
    BY DEF Clean
  <2>1. CASE one = key
    BY <2>1
  <2>2. CASE one # key
    BY <2>2 DEF LendingInv, OrdersPart, Clean
  <2>3. QED
    BY <2>1, <2>2
<1>5. QED
  BY <1>3, <1>4 DEF OrdersPart, LendingInv

\* Nothing about orders and positions changes, whatever config and balances do.
LEMMA OrdersPartStays ==
  ASSUME LendingInv, UsersTypeOK', UNCHANGED <<coreVars, lendingVars>>
  PROVE  OrdersPart'
<1>1. Core!TypeOK'
  <2>1. /\ config' \in Config /\ config'.mints # {}
        /\ bal' \in [Holders -> [Mints -> Nat]]
    BY DEF UsersTypeOK
  <2>2. Core!TypeOK /\ UNCHANGED <<beneficiaries, orders, audit>>
    BY DEF LendingInv, OrdersPart, CoreOK, coreVars
  <2>3. QED
    BY <2>1, <2>2, LendingAssumption
    DEF Core!TypeOK, Core!Initialized, Config, Core!Config
<1>2. CoreBooks'
  BY DEF LendingInv, OrdersPart, CoreOK, CoreBooks, coreVars, Core!DebtInv,
         Core!LendersSenior, Core!LendersPaidByPartner, Core!Open
<1>3. QED
  BY <1>1, <1>2 DEF LendingInv, OrdersPart, CoreOK, coreVars, lendingVars
-----------------------------------------------------------------------------
(***************************************************************************)
(* The steps, one by one.  First those in which users do not lend.         *)
(***************************************************************************)
LEMMA UsersAlone ==
  ASSUME LendingInv, RegistryNext \/ PrincipalNext \/ CliffNext \/ VaultNext \/ Tick,
         UNCHANGED <<coreVars, lendingVars>>
  PROVE  LendingInv'
<1>1. PICK owed \in [Users -> Nat] :
        /\ UsersInv(owed)
        /\ \A u \in Users \ struck : owed[u] = DebtTo(positions, u)
  BY OwedAmounts
<1>2. UsersInv(owed)'
  <2>1. [UsersNext]_usersVars
    BY DEF UsersNext
  <2>2. QED
    BY <1>1, <2>1, UsersInvStep
<1>3. positions' = positions /\ struck' = struck
  BY DEF lendingVars
<1>4. UsersPart'
  BY <1>1, <1>2, <1>3, UsersPartFrom
<1>5. OrdersPart'
  BY <1>2, OrdersPartStays DEF UsersInv
<1>6. QED
  BY <1>4, <1>5 DEF LendingInv

LEMMA StrikeStep ==
  ASSUME LendingInv, NEW signer \in Keys,
         NEW closeUsers \in SUBSET Users, NEW closeWithdraws \in SUBSET Users,
         NEW closeCliffs \in SUBSET Users, NEW closeVault \in BOOLEAN,
         NEW closing \in SUBSET (OrderIds \X Users),
         RevokeAny(signer, closeUsers, closeWithdraws, closeCliffs, closeVault, closing)
  PROVE  LendingInv'
<1>1. PICK owed \in [Users -> Nat] :
        /\ UsersInv(owed)
        /\ \A u \in Users \ struck : owed[u] = DebtTo(positions, u)
  BY OwedAmounts
<1>2. UsersInv(owed)'
  <2>1. RevokeNext
    BY DEF RevokeAny, RevokeNext
  <2>2. QED
    BY <1>1, <2>1, RevokeStep
<1>3. /\ positions' = [p \in OrderIds \X Users |->
                         IF p \in closing THEN None ELSE positions[p]]
      /\ touched' = touched \cup {<<positions[p].partner, p[1]>> : p \in closing}
      /\ struck' = struck \cup {p[2] : p \in closing}
      /\ \A p \in closing : positions[p] # None
      /\ UNCHANGED <<config, bal, coreVars, approved>>
  BY DEF RevokeAny, Revoke
<1>4. PositionsOK(positions) /\ positions \in [OrderIds \X Users -> Position \cup {None}]
  BY DEF LendingInv, OrdersPart, PositionsOK
<1>5. PositionsOK(positions')
  BY <1>3, <1>4 DEF PositionsOK
<1>6. \A u \in Users \ struck' : owed[u] = DebtTo(positions', u)
  <2> SUFFICES ASSUME NEW u \in Users \ struck'
               PROVE  LoansTo(positions', u) = LoansTo(positions, u)
    BY <1>1, <1>3 DEF DebtTo
  <2>1. \A o \in OrderIds : positions'[<<o, u>>] = positions[<<o, u>>]
    BY <1>3
  <2>2. QED
    BY <2>1 DEF LoansTo
<1>7. UsersPart'
  BY <1>1, <1>2, <1>6, UsersPartFrom
<1>8. touched \subseteq touched' /\ touched' \subseteq OrderKeys /\ struck' \subseteq Users
  <2>1. touched \subseteq OrderKeys /\ struck \subseteq Users
    BY DEF LendingInv, OrdersPart
  <2>2. ASSUME NEW p \in closing
        PROVE  <<positions[p].partner, p[1]>> \in OrderKeys /\ p[2] \in Users
    BY <1>3, <1>4 DEF Position, OrderKeys
  <2>3. QED
    BY <1>3, <2>1, <2>2
<1>9. Agree(positions', orders', touched')
  <2> SUFFICES ASSUME NEW key \in OrderKeys \ touched'
               PROVE  DebtOn(positions', key) = LentOn(orders', key)
    BY DEF Agree
  <2>1. DebtOn(positions, key) = LentOn(orders, key)
    BY <1>8 DEF LendingInv, OrdersPart, Agree
  <2>2. ASSUME NEW u \in Users
        PROVE  LoanOn(positions', key, u) = LoanOn(positions, key, u)
    <3>1. key[2] \in OrderIds /\ key = <<key[1], key[2]>>
      BY DEF OrderKeys
    <3>2. CASE <<key[2], u>> \in closing
      <4>1. positions'[<<key[2], u>>] = None
        BY <1>3, <3>1, <3>2
      <4>2. positions[<<key[2], u>>].partner # key[1]
        BY <1>3, <3>1, <3>2
      <4>3. QED
        BY <4>1, <4>2 DEF LoanOn
    <3>3. CASE <<key[2], u>> \notin closing
      <4>1. positions'[<<key[2], u>>] = positions[<<key[2], u>>]
        BY <1>3, <3>1, <3>3
      <4>2. QED
        BY <4>1 DEF LoanOn
    <3>4. QED
      BY <3>2, <3>3
  <2>3. LoansOn(positions', key) = LoansOn(positions, key)
    BY <2>2 DEF LoansOn
  <2>4. orders' = orders
    BY <1>3 DEF coreVars
  <2>5. QED
    BY <2>1, <2>3, <2>4 DEF DebtOn
<1>10. CoreOK' /\ Clean(orders', audit', touched') /\ approved' \in [UserWallets -> Approval]
  <2>1. UNCHANGED <<config, bal, beneficiaries, orders, audit, approved>>
    BY <1>3 DEF coreVars
  <2>2. CoreOK'
    BY <2>1 DEF LendingInv, OrdersPart, CoreOK, Core!TypeOK, Core!Initialized, CoreBooks,
                Core!DebtInv, Core!LendersSenior, Core!LendersPaidByPartner, Core!Open
  <2>3. QED
    BY <1>8, <2>1, <2>2 DEF LendingInv, OrdersPart, Clean
<1>11. QED
  BY <1>5, <1>7, <1>8, <1>9, <1>10 DEF LendingInv, OrdersPart

-----------------------------------------------------------------------------
(***************************************************************************)
(* Core on its own.                                                        *)
(***************************************************************************)

LEMMA BalancesNext == CoreOK' => bal' \in Balances
BY LendingAssumption DEF CoreOK, Core!TypeOK, Balances, BalancesOf

LEMMA OwnerSets ==
  /\ Users \subseteq Holders /\ UserWallets \subseteq Holders
  /\ Partners \subseteq Holders /\ Zovs \subseteq Holders /\ Wallets \subseteq Holders
  /\ Users \cap Partners = {} /\ Users \cap Zovs = {} /\ Users \cap UserWallets = {}
<1>1. Holders = Partners \cup Zovs \cup Wallets \cup (Users \cup UserWallets \cup {OrbitVault})
  BY LendingAssumption DEF Core!Accounts
<1>2. Users \cap UserWallets = {} /\ Users \cap (Partners \cup Zovs) = {}
  BY LendingAssumption, UsersAssumption
<1>3. QED
  BY <1>1, <1>2

LEMMA OthersPay ==
  ASSUME NEW b \in Balances, NEW from \in Holders \ Users, NEW to \in Holders,
         NEW mint \in Mints, NEW amount \in Nat, amount <= b[from][mint]
  PROVE  \A u \in Users, m \in Mints :
           b[u][m] <= Transfer(b, from, to, mint, amount)[u][m]
<1> SUFFICES ASSUME NEW u \in Users, NEW m \in Mints
             PROVE  b[u][m] <= Transfer(b, from, to, mint, amount)[u][m]
  OBVIOUS
<1>1. u \in Holders /\ u # from /\ b \in BalancesOf(Holders)
  BY OwnerSets DEF Balances
<1>2. QED
  BY <1>1, TransferTakesFromSource

\* Custody can only grow by what leaves users and positions as they are.
LEMMA CustodyStays ==
  ASSUME LendingInv, CoreOK', UNCHANGED <<config, userVars, positions, struck>>,
         \A u \in Users, m \in Mints : bal[u][m] <= bal'[u][m]
  PROVE  UsersPart'
<1>1. /\ UsersTypeOK /\ PositionsOK(positions)
      /\ config \in Config /\ config.mints # {} /\ bal \in Balances
  BY InvFacts
<1>2. bal' \in Balances
  BY BalancesNext
<1>3. UNCHANGED <<config, users, withdraws, cliffs, ovault, now, carried, positions, struck>>
  BY DEF userVars
<1>4. ASSUME NEW u \in Users, Registered(u)
      PROVE  /\ MintOf(u) \in Mints /\ users[u].principal_out \in Nat
             /\ bal[u][MintOf(u)] \in Nat /\ bal'[u][MintOf(u)] \in Nat
             /\ DebtTo(positions, u) \in Nat
  BY <1>1, <1>2, <1>4, UserFacts, DebtNat, OwnerSets DEF Balances, BalancesOf
<1>5. ASSUME NEW u \in Users, Registered(u)
      PROVE  bal[u][MintOf(u)] + DebtTo(positions, u)
               <= bal'[u][MintOf(u)] + DebtTo(positions', u) + Nothing[u]
  <2>1. bal[u][MintOf(u)] <= bal'[u][MintOf(u)] /\ DebtTo(positions', u) = DebtTo(positions, u)
    BY <1>3, <1>4, <1>5
  <2>2. Nothing[u] = 0
    BY DEF Nothing
  <2>3. QED
    BY <1>4, <1>5, <2>1, <2>2
<1>6. PositionsOK(positions')
  BY <1>1, <1>3
<1>7. QED
  BY <1>2, <1>3, <1>5, <1>6, UsersUntouched

\* An order that Orbit alone has repaid owes its lenders nothing once what came in
\* covers what went out.
LEMMA ReplenishedOwesNone ==
  ASSUME NEW t \in Core!OrderTracker, NEW h, Core!Ledger(t), Core!Senior(t, h),
         ~h.direct, ~h.recorded, t.amount_in >= t.amount_out
  PROVE  Core!LentOutstanding(t) = 0
<1>1. /\ t.amount_in \in Nat /\ t.amount_out \in Nat
      /\ t.amount_borrowed \in Nat /\ t.amount_repaid \in Nat
  BY DEF Core!OrderTracker, Core!U64
<1>2. QED
  BY <1>1 DEF Core!Ledger, Core!Senior, Core!LentOutstanding

\* What is known of an open order.
LEMMA OpenFacts ==
  ASSUME LendingInv, NEW key \in OrderKeys, Open(key)
  PROVE  /\ orders[key] \in Core!OrderTracker /\ audit[key] \in Core!History
         /\ Core!Ledger(orders[key]) /\ Core!Senior(orders[key], audit[key])
         /\ Core!Covered(orders[key], audit[key])
         /\ MintAllowed(orders[key].mint) =>
              orders[key].mint \in Mints /\ orders[key].zynk_op_vault \in Zovs
<1>1. /\ orders \in [OrderKeys -> Core!OrderTracker \cup {None}]
      /\ audit \in [OrderKeys -> Core!History] /\ config \in Config
  BY InvFacts
<1>2. /\ Core!Ledger(orders[key]) /\ Core!Senior(orders[key], audit[key])
      /\ Core!Covered(orders[key], audit[key])
  BY SameTypes DEF LendingInv, OrdersPart, CoreOK, CoreBooks, Core!DebtInv,
         Core!LendersSenior, Core!LendersPaidByPartner, Core!Open, Open
<1>3. orders[key] \in Core!OrderTracker /\ audit[key] \in Core!History
  BY <1>1 DEF Open
<1>4. ASSUME MintAllowed(orders[key].mint)
      PROVE  orders[key].mint \in Mints /\ orders[key].zynk_op_vault \in Zovs
  <2>1. orders[key].mint \in Mints /\ orders[key].mint # None
    BY <1>1, <1>4, ConfigAssumption DEF MintAllowed, Config
  <2>2. QED
    BY <1>2, <1>3, <2>1 DEF Core!Ledger, Core!OrderTracker
<1>5. QED
  BY <1>2, <1>3, <1>4

LEMMA ReplenishStep ==
  ASSUME LendingInv, NEW signer \in Keys, NEW key \in OrderKeys, NEW amount \in DirectAmounts,
         NEW close \in BOOLEAN, Core!Replenish(signer, key, amount, close),
         Behind(IF amount > 0 THEN {key} ELSE {})
  PROVE  LendingInv'
<1> DEFINE t == orders[key]
           paidIn == [t EXCEPT !.amount_in = @ + amount]
<1>1. amount \in U64 /\ amount \in Nat /\ key[1] \in Partners
  BY LendingAssumption DEF U64, OrderKeys
<1>2. CoreOK'
  BY <1>1, InvFacts, CoreSettles
<1>3. /\ Open(key) /\ MintAllowed(t.mint) /\ amount <= bal[key[1]][t.mint]
      /\ bal' = Transfer(bal, key[1], t.zynk_op_vault, t.mint, amount)
      /\ orders' = [orders EXCEPT ![key] = IF close THEN None ELSE paidIn]
      /\ audit' = [audit EXCEPT ![key].arrived = @ + Core!Arrives(t.mint, amount),
                                ![key].direct = IF amount > 0 THEN TRUE ELSE @]
      /\ (amount = 0 \/ close) => paidIn.amount_in >= paidIn.amount_out
      /\ UNCHANGED config
  BY DEF Core!Replenish, Core!ReplenishAccounts, Core!Open, Open, Core!MintAllowed,
         MintAllowed, Core!Replenished, Core!Transfer, Transfer, Core!Arrives, Arrives
<1>4. /\ UNCHANGED <<userVars, positions, approved, struck>>
      /\ touched' = touched \cup (IF amount > 0 THEN {key} ELSE {})
  BY DEF Behind
<1>5. /\ t \in Core!OrderTracker /\ audit[key] \in Core!History
      /\ Core!Ledger(t) /\ Core!Senior(t, audit[key])
      /\ t.mint \in Mints /\ t.zynk_op_vault \in Zovs
  BY <1>3, OpenFacts
<1>6. \A u \in Users, m \in Mints : bal[u][m] <= bal'[u][m]
  <2>1. key[1] \in Holders \ Users /\ t.zynk_op_vault \in Holders /\ bal \in Balances
    BY <1>1, <1>5, OwnerSets, InvFacts
  <2>2. QED
    BY <1>1, <1>3, <1>5, <2>1, OthersPay
<1>7. UsersPart'
  BY <1>2, <1>3, <1>4, <1>6, CustodyStays
<1>8. ASSUME key \notin touched'
      PROVE  /\ LentOn(orders', key) = LentOn(orders, key) + 0
             /\ orders'[key] # None => ~audit'[key].direct /\ ~audit'[key].recorded
  <2>1. amount = 0 /\ key \notin touched
    BY <1>1, <1>4, <1>8
  <2>2. ~audit[key].direct /\ ~audit[key].recorded
    BY <1>3, <2>1 DEF LendingInv, OrdersPart, Clean, Open
  <2>3. orders'[key] = (IF close THEN None ELSE paidIn)
    BY <1>3, InvFacts
  <2>4. /\ paidIn.amount_in = t.amount_in /\ paidIn.amount_out = t.amount_out
        /\ paidIn.amount_borrowed = t.amount_borrowed
        /\ paidIn.amount_repaid = t.amount_repaid
        /\ t.amount_in \in Nat /\ t.amount_borrowed \in Nat /\ t.amount_repaid \in Nat
    BY <1>5, <2>1 DEF Core!OrderTracker, Core!U64
  <2>5. Core!LentOutstanding(t) = 0
    BY <1>3, <1>5, <2>1, <2>2, <2>4, ReplenishedOwesNone
  <2>6. Core!LentOutstanding(paidIn) = 0
    BY <2>4, <2>5 DEF Core!LentOutstanding
  <2>7. audit'[key].direct = audit[key].direct /\ audit'[key].recorded = audit[key].recorded
    BY <1>3, <1>5, <2>1, InvFacts DEF Core!History
  <2>8. QED
    BY <2>2, <2>3, <2>5, <2>6, <2>7 DEF LentOn
<1>9. OrdersPart'
  <2>1. /\ Nothing \in [Users -> Int] /\ SumFunctionOnSet(Nothing, Users) = 0
        /\ MovedBy(positions, positions', key, Nothing) /\ PositionsOK(positions')
    BY <1>4, InvFacts, NoneMoved
  <2>2. \A other \in OrderKeys \ {key} :
          orders'[other] = orders[other] /\ audit'[other] = audit[other]
    BY <1>3, InvFacts
  <2>3. /\ approved' \in [UserWallets -> Approval] /\ struck' = struck
        /\ touched \subseteq touched' /\ touched' \subseteq OrderKeys
    BY <1>4, InvFacts
  <2>4. QED
    BY <1>2, <1>8, <2>1, <2>2, <2>3, OrdersPartKept
<1>10. QED
  BY <1>7, <1>9 DEF LendingInv

LEMMA RecordStep ==
  ASSUME LendingInv, NEW signer \in Keys, NEW key \in OrderKeys, NEW amount \in DirectAmounts,
         Core!RecordOrder(signer, key, amount), Behind({key})
  PROVE  LendingInv'
<1>1. amount \in U64
  BY LendingAssumption
<1>2. CoreOK'
  BY <1>1, InvFacts, CoreSettles
<1>3. /\ UNCHANGED <<config, bal, userVars, positions, approved, struck>>
      /\ touched' = touched \cup {key}
  BY DEF Behind, Core!RecordOrder
<1>4. UsersPart'
  <2>1. \A u \in Users, m \in Mints : bal[u][m] <= bal'[u][m]
    BY <1>3, OwnerSets, InvFacts DEF Balances, BalancesOf
  <2>2. QED
    BY <1>2, <1>3, <2>1, CustodyStays
<1>5. OrdersPart'
  <2>1. /\ Nothing \in [Users -> Int] /\ SumFunctionOnSet(Nothing, Users) = 0
        /\ MovedBy(positions, positions', key, Nothing) /\ PositionsOK(positions')
    BY <1>3, InvFacts, NoneMoved
  <2>2. \A other \in OrderKeys \ {key} :
          orders'[other] = orders[other] /\ audit'[other] = audit[other]
    BY InvFacts DEF Core!RecordOrder, Core!RecordPayout, Core!RecordReplenishment
  <2>3. /\ approved' \in [UserWallets -> Approval] /\ struck' = struck
        /\ touched \subseteq touched' /\ touched' \subseteq OrderKeys /\ key \in touched'
    BY <1>3, InvFacts
  <2>4. QED
    BY <1>2, <2>1, <2>2, <2>3, OrdersPartKept
<1>6. QED
  BY <1>4, <1>5 DEF LendingInv

LEMMA CloseStep ==
  ASSUME LendingInv, NEW signer \in Keys, NEW keys \in SUBSET OrderKeys,
         Core!CloseOrders(signer, keys), Behind(keys)
  PROVE  LendingInv'
<1>1. CoreOK'
  BY InvFacts, CoreCloses
<1>2. /\ UNCHANGED <<config, bal, audit, userVars, positions, approved, struck>>
      /\ touched' = touched \cup keys
      /\ \A key \in OrderKeys \ keys : orders'[key] = orders[key]
  BY SameTypes DEF Behind, Core!CloseOrders
<1>3. UsersPart'
  <2>1. \A u \in Users, m \in Mints : bal[u][m] <= bal'[u][m]
    BY <1>2, OwnerSets, InvFacts DEF Balances, BalancesOf
  <2>2. QED
    BY <1>1, <1>2, <2>1, CustodyStays
<1>4. OrdersPart'
  BY <1>1, <1>2 DEF LendingInv, OrdersPart, Agree, Clean, LentOn
<1>5. QED
  BY <1>3, <1>4 DEF LendingInv

LEMMA PauseStep ==
  ASSUME LendingInv, NEW paused \in BOOLEAN, config' = [config EXCEPT !.paused = paused],
         UNCHANGED <<bal, userVars, coreVars, lendingVars>>
  PROVE  LendingInv'
<1>1. config' \in Config /\ config'.mints = config.mints
  BY InvFacts DEF Config
<1>2. UsersPart'
  <2>1. UNCHANGED <<bal, users, withdraws, cliffs, ovault, now, carried, positions, struck>>
    BY DEF userVars, lendingVars
  <2>2. UsersTypeOK' /\ WithinCap'
    BY <1>1, <2>1 DEF LendingInv, UsersPart, UsersTypeOK, WithinCap, Registered
  <2>3. \A u \in Users \ struck' :
          Registered(u)' => Backed(u, users'[u], bal', Debts(positions'))
    BY <2>1 DEF LendingInv, UsersPart, Registered
  <2>4. QED
    BY <2>1, <2>2, <2>3 DEF LendingInv, UsersPart
<1>3. OrdersPart'
  BY <1>2, OrdersPartStays DEF UsersPart
<1>4. QED
  BY <1>2, <1>3 DEF LendingInv

\* Some instruction has Core create the order, after moving tokens itself.
Creates(b, key, mint, borrowed) ==
  \E signer \in Keys, byOrbit, transient \in BOOLEAN, zov \in Zovs,
     wallet \in Wallets \cup {None}, amount \in U64, meta \in U64 \cup {None} :
    /\ ~transient
    /\ Core!CreateOrderFrom(b, signer, byOrbit, key, zov, wallet, mint, transient, amount,
                            meta, borrowed)

\* An order that is created owes its lenders what was borrowed for it, and its
\* payout takes nothing from custody.
LEMMA CreatedOrder ==
  ASSUME LendingInv, NEW b \in Balances, NEW key \in OrderKeys, NEW mint \in Mints,
         NEW borrowed \in U64, Creates(b, key, mint, borrowed)
  PROVE  /\ CoreOK' /\ UNCHANGED <<config, beneficiaries>> /\ MintAllowed(mint)
         /\ \A other \in OrderKeys \ {key} :
              orders'[other] = orders[other] /\ audit'[other] = audit[other]
         /\ LentOn(orders', key) = LentOn(orders, key) + borrowed
         /\ ~audit'[key].direct /\ ~audit'[key].recorded
         /\ \A u \in Users, m \in Mints : b[u][m] <= bal'[u][m]
<1>0. PICK signer \in Keys, byOrbit \in BOOLEAN, transient \in BOOLEAN, zov \in Zovs,
           wallet \in Wallets \cup {None}, amount \in U64, meta \in U64 \cup {None} :
         /\ ~transient
         /\ Core!CreateOrderFrom(b, signer, byOrbit, key, zov, wallet, mint, transient,
                                 amount, meta, borrowed)
  BY DEF Creates
<1> DEFINE effective == Core!EffectiveAmount(amount, meta)
           opened == Core!OpenTracker(zov, wallet, mint, 0, effective, borrowed)
<1>1. CoreOK'
  BY <1>0, InvFacts, CoreCreates
<1>2. /\ ~Open(key) /\ amount <= b[zov][mint] /\ MintAllowed(mint)
      /\ UNCHANGED <<config, beneficiaries>>
      /\ bal' = IF wallet = None THEN b ELSE Transfer(b, zov, wallet, mint, amount)
      /\ orders' = [orders EXCEPT ![key] = opened]
      /\ audit' = [audit EXCEPT ![key] = Core!FreshHistory]
  BY <1>0 DEF Core!CreateOrderFrom, Core!Open, Open, Core!Transfer, Transfer, Core!Arrives,
         Arrives, Core!MintAllowed, MintAllowed
<1>3. /\ orders'[key] = opened /\ audit'[key] = Core!FreshHistory
      /\ \A other \in OrderKeys \ {key} :
           orders'[other] = orders[other] /\ audit'[other] = audit[other]
  BY <1>2, InvFacts
<1>4. opened # None /\ Core!LentOutstanding(opened) = borrowed
  <2>1. opened.amount_borrowed = borrowed /\ opened.amount_repaid = 0
    BY DEF Core!OpenTracker
  <2>2. borrowed \in Nat
    BY DEF U64
  <2>3. effective \in U64
    BY DEF Core!EffectiveAmount
  <2>4. opened \in Core!OrderTracker
    BY <2>3, WidthAssumption DEF Core!OpenTracker, Core!OrderTracker, Core!U64, U64
  <2>5. opened # None
    BY <2>4, CoreAssumption DEF Core!NoneIsNoAccount
  <2>6. QED
    BY <2>1, <2>2, <2>5 DEF Core!LentOutstanding
<1>5. LentOn(orders', key) = LentOn(orders, key) + borrowed
  <2> HIDE DEF opened
  <2>1. borrowed \in Nat
    BY DEF U64
  <2>2. QED
    BY <1>2, <1>3, <1>4, <2>1 DEF LentOn, Open
<1>6. ASSUME NEW u \in Users, NEW m \in Mints
      PROVE  b[u][m] <= bal'[u][m]
  <2>1. CASE wallet = None
    BY <1>2, <2>1, OwnerSets DEF Balances, BalancesOf
  <2>2. CASE wallet # None
    <3>1. wallet \in Holders /\ zov \in Holders \ Users /\ amount \in Nat
      BY <2>2, OwnerSets DEF U64
    <3>2. b[u][m] <= Transfer(b, zov, wallet, mint, amount)[u][m]
      BY <1>2, <3>1, OthersPay
    <3>3. QED
      BY <1>2, <2>2, <3>2
  <2>3. QED
    BY <2>1, <2>2
<1>7. ~audit'[key].direct /\ ~audit'[key].recorded
  BY <1>3 DEF Core!FreshHistory
<1>8. QED
  BY <1>1, <1>2, <1>3, <1>5, <1>6, <1>7

\* Core's own manager creates an order that Orbit lends nothing to.
Unlent(signer, key, zov, mint, transient, amount) ==
  \/ Core!CreateOrder(signer, FALSE, key, zov, None, mint, transient, 0, amount, 0)
  \/ \E wallet \in Wallets :
       \/ Core!CreateOrder(signer, FALSE, key, zov, wallet, mint, transient, amount, None, 0)
       \/ Core!PullAndCreateOrder(signer, key, zov, wallet, mint, transient, amount)

\* A tracker under `key` that was free, if any: nobody is owed on it but the house.
FreshFor(key) ==
  /\ orders[key] = None
  /\ \A other \in OrderKeys \ {key} :
       orders'[other] = orders[other] /\ audit'[other] = audit[other]
  /\ orders'[key] # None =>
       /\ Core!LentOutstanding(orders'[key]) = 0 /\ Core!Outstanding(orders'[key]) >= 0
       /\ ~audit'[key].direct /\ ~audit'[key].recorded

LEMMA FreshTracker ==
  ASSUME LendingInv, CoreOK', NEW key \in OrderKeys, orders[key] = None,
         NEW zov, NEW wallet, NEW mint, NEW in, NEW out, NEW h,
         ~h.direct, ~h.recorded,
         \/ UNCHANGED <<orders, audit>>
         \/ /\ orders' = [orders EXCEPT ![key] =
                 Core!OpenTracker(zov, wallet, mint, in, out, 0)]
            /\ audit' = [audit EXCEPT ![key] = h]
  PROVE  FreshFor(key)
<1>1. CASE UNCHANGED <<orders, audit>>
  BY <1>1 DEF FreshFor
<1> DEFINE t == Core!OpenTracker(zov, wallet, mint, in, out, 0)
<1>2. CASE orders' = [orders EXCEPT ![key] = t] /\ audit' = [audit EXCEPT ![key] = h]
  <2>1. /\ orders'[key] = t /\ audit'[key] = h
        /\ \A other \in OrderKeys \ {key} :
             orders'[other] = orders[other] /\ audit'[other] = audit[other]
    BY <1>2, InvFacts
  <2>2. ASSUME t # None
        PROVE  Core!LentOutstanding(t) = 0 /\ Core!Outstanding(t) >= 0
    <3>1. t \in Core!OrderTracker /\ Core!Senior(t, h)
      BY <2>1, <2>2, SameTypes
      DEF CoreOK, CoreBooks, Core!TypeOK, Core!LendersSenior, Core!Open
    <3>2. t.amount_in <= t.amount_out /\ t.amount_in \in Nat /\ t.amount_out \in Nat
      BY <3>1 DEF Core!Senior, Core!OrderTracker, Core!U64
    <3>3. t.amount_borrowed = 0 /\ t.amount_repaid = 0
      BY DEF Core!OpenTracker
    <3> HIDE DEF t
    <3>4. QED
      BY <3>2, <3>3 DEF Core!LentOutstanding, Core!Outstanding
  <2> HIDE DEF t
  <2>3. QED
    BY <2>1, <2>2 DEF FreshFor
<1>3. QED
  BY <1>1, <1>2

LEMMA UnlentOrder ==
  ASSUME LendingInv, NEW signer \in Keys, NEW key \in OrderKeys, NEW zov \in Zovs,
         NEW mint \in Mints, NEW transient \in BOOLEAN, NEW amount \in DirectAmounts,
         Unlent(signer, key, zov, mint, transient, amount)
  PROVE  /\ CoreOK' /\ UNCHANGED config /\ FreshFor(key)
         /\ \A u \in Users, m \in Mints : bal[u][m] <= bal'[u][m]
<1>1. /\ amount \in U64 /\ 0 \in U64 /\ bal \in Balances /\ CoreOK
      /\ amount \in Nat /\ 0 \in Nat
  BY LendingAssumption, WidthAssumption, InvFacts DEF U64, LendingInv, OrdersPart
<1>2. ASSUME NEW wallet \in Wallets \cup {None}, NEW paid \in U64, NEW meta \in U64 \cup {None},
             Core!CreateOrder(signer, FALSE, key, zov, wallet, mint, transient, paid, meta, 0)
      PROVE  /\ CoreOK' /\ UNCHANGED config /\ FreshFor(key)
             /\ \A u \in Users, m \in Mints : bal[u][m] <= bal'[u][m]
  <2>1. Core!CreateOrderFrom(bal, signer, FALSE, key, zov, wallet, mint, transient, paid,
                             meta, 0)
    BY <1>2 DEF Core!CreateOrder
  <2>2. CoreOK'
    BY <1>1, <2>1, CoreCreates
  <2>3. /\ orders[key] = None /\ UNCHANGED config /\ paid <= bal[zov][mint]
        /\ bal' = IF wallet = None THEN bal ELSE Transfer(bal, zov, wallet, mint, paid)
        /\ \/ UNCHANGED <<orders, audit>>
           \/ /\ orders' = [orders EXCEPT ![key] =
                   Core!OpenTracker(zov, wallet, mint, 0, Core!EffectiveAmount(paid, meta), 0)]
              /\ audit' = [audit EXCEPT ![key] = Core!FreshHistory]
    BY <2>1 DEF Core!CreateOrderFrom, Core!Open, Core!Transfer, Transfer, Core!Arrives, Arrives
  <2>4. ~Core!FreshHistory.direct /\ ~Core!FreshHistory.recorded
    BY DEF Core!FreshHistory
  <2>5. FreshFor(key)
    BY <2>2, <2>3, <2>4, FreshTracker
  <2>6. ASSUME NEW u \in Users, NEW m \in Mints PROVE bal[u][m] <= bal'[u][m]
    <3>1. CASE wallet = None
      BY <1>1, <2>3, <3>1, OwnerSets DEF Balances, BalancesOf
    <3>2. CASE wallet # None
      <4>1. wallet \in Holders /\ zov \in Holders \ Users /\ paid \in Nat
        BY <3>2, OwnerSets DEF U64
      <4>2. bal[u][m] <= Transfer(bal, zov, wallet, mint, paid)[u][m]
        BY <1>1, <2>3, <4>1, OthersPay
      <4>3. QED
        BY <2>3, <3>2, <4>2
    <3>3. QED
      BY <3>1, <3>2
  <2>7. QED
    BY <2>2, <2>3, <2>5, <2>6
<1>3. ASSUME NEW wallet \in Wallets,
             Core!PullAndCreateOrder(signer, key, zov, wallet, mint, transient, amount)
      PROVE  /\ CoreOK' /\ UNCHANGED config /\ FreshFor(key)
             /\ \A u \in Users, m \in Mints : bal[u][m] <= bal'[u][m]
  <2> DEFINE pulled == Transfer(bal, key[1], zov, mint, amount)
             h == [Core!FreshHistory EXCEPT !.arrived = Arrives(mint, amount)]
  <2>1. CoreOK'
    BY <1>1, <1>3, CorePulls
  <2>2. /\ orders[key] = None /\ UNCHANGED config
        /\ amount <= bal[key[1]][mint] /\ amount <= pulled[zov][mint]
        /\ bal' = Transfer(pulled, zov, wallet, mint, amount)
        /\ \/ UNCHANGED <<orders, audit>>
           \/ /\ orders' = [orders EXCEPT ![key] =
                   Core!OpenTracker(zov, wallet, mint, amount, amount, 0)]
              /\ audit' = [audit EXCEPT ![key] = h]
    BY <1>3 DEF Core!PullAndCreateOrder, Core!Open, Core!Transfer, Transfer, Core!Arrives,
                Arrives
  <2>3. ~h.direct /\ ~h.recorded
    BY DEF Core!FreshHistory
  <2> HIDE DEF h
  <2>4. FreshFor(key)
    BY <2>1, <2>2, <2>3, FreshTracker
  <2>5. /\ key[1] \in Holders \ Users /\ zov \in Holders \ Users /\ wallet \in Holders
        /\ key[1] \in Holders /\ zov \in Holders
    BY OwnerSets DEF OrderKeys
  <2>6. pulled \in Balances
    BY <1>1, <2>2, <2>5, TransferKeepsType DEF Balances
  <2>7. \A u \in Users, m \in Mints : bal[u][m] <= pulled[u][m]
    BY <1>1, <2>2, <2>5, OthersPay
  <2> HIDE DEF pulled
  <2>8. \A u \in Users, m \in Mints : pulled[u][m] <= bal'[u][m]
    BY <1>1, <2>2, <2>5, <2>6, OthersPay
  <2>9. ASSUME NEW u \in Users, NEW m \in Mints PROVE bal[u][m] <= bal'[u][m]
    <3>1. bal[u][m] \in Nat /\ pulled[u][m] \in Nat /\ bal'[u][m] \in Nat
      BY <1>1, <2>1, <2>6, BalancesNext, OwnerSets DEF Balances, BalancesOf
    <3>2. QED
      BY <2>7, <2>8, <3>1
  <2>10. QED
    BY <2>1, <2>2, <2>4, <2>9
<1>4. CASE Core!CreateOrder(signer, FALSE, key, zov, None, mint, transient, 0, amount, 0)
  BY <1>1, <1>2, <1>4
<1>5. ASSUME NEW wallet \in Wallets,
             Core!CreateOrder(signer, FALSE, key, zov, wallet, mint, transient, amount, None, 0)
      PROVE  /\ CoreOK' /\ UNCHANGED config /\ FreshFor(key)
             /\ \A u \in Users, m \in Mints : bal[u][m] <= bal'[u][m]
  BY <1>1, <1>2, <1>5
<1>6. QED
  BY <1>3, <1>4, <1>5 DEF Unlent

LEMMA UnlentStep ==
  ASSUME LendingInv, NEW signer \in Keys, NEW key \in OrderKeys, NEW zov \in Zovs,
         NEW mint \in Mints, NEW transient \in BOOLEAN, NEW amount \in DirectAmounts,
         Unlent(signer, key, zov, mint, transient, amount), Behind({})
  PROVE  LendingInv'
<1>1. /\ CoreOK' /\ UNCHANGED config /\ FreshFor(key)
      /\ \A u \in Users, m \in Mints : bal[u][m] <= bal'[u][m]
  BY UnlentOrder
<1>2. UNCHANGED <<userVars, positions, approved, touched, struck>>
  BY DEF Behind
<1>3. UsersPart'
  BY <1>1, <1>2, CustodyStays
<1>4. OrdersPart'
  <2>1. /\ Nothing \in [Users -> Int] /\ SumFunctionOnSet(Nothing, Users) = 0
        /\ MovedBy(positions, positions', key, Nothing) /\ PositionsOK(positions')
    BY <1>2, InvFacts, NoneMoved
  <2>2. /\ approved' \in [UserWallets -> Approval] /\ struck' = struck
        /\ touched \subseteq touched' /\ touched' \subseteq OrderKeys
    BY <1>2, InvFacts
  <2>3. LentOn(orders', key) = LentOn(orders, key) + SumFunctionOnSet(Nothing, Users)
    BY <1>1, <2>1 DEF FreshFor, LentOn
  <2>4. /\ CoreOK'
        /\ orders'[key] # None => ~audit'[key].direct /\ ~audit'[key].recorded
        /\ \A other \in OrderKeys \ {key} :
             orders'[other] = orders[other] /\ audit'[other] = audit[other]
    BY <1>1 DEF FreshFor
  <2>5. QED
    BY <2>1, <2>2, <2>3, <2>4, OrdersPartKept
<1>5. QED
  BY <1>3, <1>4 DEF LendingInv

-----------------------------------------------------------------------------
(***************************************************************************)
(* Burning a user's custody, and lending.                                  *)
(***************************************************************************)

\* One user gets `amount` out of custody and positions, booked as principal out.
LEMMA OnePaid ==
  ASSUME LendingInv, NEW u \in Users, Registered(u), NEW amount \in Nat,
         users[u].principal_out + amount <= MaxU64,
         users' = [users EXCEPT ![u] = [users[u] EXCEPT !.principal_out = @ + amount]],
         UNCHANGED <<config, withdraws, cliffs, ovault, now, carried, struck>>,
         bal' \in Balances, PositionsOK(positions'),
         MintOf(u) \notin FeeBearing =>
           bal[u][MintOf(u)] + DebtTo(positions, u)
             <= bal'[u][MintOf(u)] + DebtTo(positions', u) + amount,
         \A v \in Users \ {u} : /\ DebtTo(positions', v) = DebtTo(positions, v)
                                /\ \A m \in Mints : bal[v][m] <= bal'[v][m]
  PROVE  UsersPart'
<1> DEFINE paid == [v \in Users |-> IF v = u THEN amount ELSE 0]
<1>1. /\ UsersTypeOK /\ PositionsOK(positions) /\ bal \in Balances
      /\ config' \in Config /\ config'.mints # {}
  BY InvFacts
<1>2. paid \in [Users -> Nat] /\ paid[u] = amount /\ \A v \in Users \ {u} : paid[v] = 0
  OBVIOUS
<1> HIDE DEF paid
<1>3. users[u] \in User /\ users[u].principal_out \in Nat
  BY <1>1, UserFacts
<1>4. /\ users' \in [Users -> User \cup {None}] /\ \A v \in Users \ {u} : users'[v] = users[v]
      /\ users'[u] = [users[u] EXCEPT !.principal_out = @ + amount]
  <2>1. users \in [Users -> User \cup {None}]
    BY <1>1 DEF UsersTypeOK
  <2>2. [users[u] EXCEPT !.principal_out = @ + amount] \in User
    BY <1>3, WidthAssumption DEF User, U64
  <2>3. QED
    BY <2>1, <2>2
<1>5. ASSUME NEW v \in Users, Registered(v)'
      PROVE  /\ Registered(v)
             /\ users'[v].user_type = users[v].user_type
             /\ users'[v].allowed_mint = users[v].allowed_mint
             /\ users'[v].max_principal = users[v].max_principal
             /\ users'[v].principal_in = users[v].principal_in
             /\ users'[v].principal_out = users[v].principal_out + paid[v]
  <2>1. CASE v = u
    BY <1>2, <1>3, <1>4, <2>1 DEF User
  <2>2. CASE v # u
    <3>1. users'[v] = users[v] /\ paid[v] = 0 /\ Registered(v)
      BY <1>2, <1>4, <1>5, <2>2 DEF Registered
    <3>2. users[v].principal_out \in Nat
      BY <1>1, <3>1, UserFacts
    <3>3. users[v].principal_out = users[v].principal_out + paid[v]
      BY <3>1, <3>2
    <3>4. QED
      BY <3>1, <3>3, Zenon
  <2>3. QED
    BY <2>1, <2>2
<1>6. ASSUME NEW v \in Users, Registered(v), users[v].user_type = "ICV",
             MintOf(v) \notin FeeBearing
      PROVE  bal[v][MintOf(v)] + DebtTo(positions, v)
               <= bal'[v][MintOf(v)] + DebtTo(positions', v) + paid[v]
  <2>1. CASE v = u
    BY <1>2, <1>6, <2>1
  <2>2. CASE v # u
    <3>1. /\ MintOf(v) \in Mints /\ paid[v] = 0
          /\ DebtTo(positions', v) = DebtTo(positions, v)
      BY <1>1, <1>2, <1>6, <2>2, UserFacts
    <3>2. /\ bal[v][MintOf(v)] <= bal'[v][MintOf(v)]
          /\ bal[v][MintOf(v)] \in Nat /\ bal'[v][MintOf(v)] \in Nat
          /\ DebtTo(positions, v) \in Nat
      BY <1>1, <2>2, <3>1, OwnerSets, DebtNat DEF Balances, BalancesOf
    <3>3. QED
      BY <3>1, <3>2
  <2>3. QED
    BY <2>1, <2>2
<1>7. QED
  BY <1>1, <1>2, <1>4, <1>5, <1>6, UsersPartKept

LEMMA CctpStep ==
  ASSUME LendingInv, NEW signer \in Keys, NEW u \in Users, NEW amount \in Amounts,
         NEW recipient \in Recipients, NEW key \in OrderKeys, NEW zov \in Zovs,
         CctpFromUser(signer, u, amount, recipient, key, zov)
  PROVE  LendingInv'
<1> DEFINE burnt == Burn(bal, u, MintOf(u), amount)
<1>1. /\ Registered(u) /\ amount <= bal[u][MintOf(u)]
      /\ users[u].principal_out + amount <= MaxU64
      /\ users' = [users EXCEPT ![u] = [users[u] EXCEPT !.principal_out = @ + amount]]
      /\ UNCHANGED <<withdraws, cliffs, ovault, now, carried, positions, approved, touched,
                     struck>>
  BY DEF CctpFromUser, CctpAccounts, BurnBooked, lendingVars
<1>2. /\ amount \in U64 /\ amount \in Nat /\ MintOf(u) \in Mints
      /\ u \in Holders /\ bal \in Balances
  BY <1>1, InvFacts, UserFacts, UsersAssumption, OwnerSets DEF U64
<1>3. burnt \in Balances
  BY <1>1, <1>2 DEF Burn, Balances, BalancesOf
<1>4. /\ burnt[u][MintOf(u)] = bal[u][MintOf(u)] - amount
      /\ \A v \in Users \ {u} : burnt[v] = bal[v]
  BY <1>2, OwnerSets DEF Burn, Balances, BalancesOf
<1>5. Creates(burnt, key, MintOf(u), 0)
  <2> SUFFICES \E one \in Keys, byOrbit, transient \in BOOLEAN, vault \in Zovs,
                  to \in Wallets \cup {None}, out \in U64, meta \in U64 \cup {None} :
                 /\ ~transient
                 /\ Core!CreateOrderFrom(burnt, one, byOrbit, key, vault, to, MintOf(u),
                                         transient, out, meta, 0)
    BY DEF Creates
  <2> 0 \in U64
    BY WidthAssumption DEF U64
  <2> USE <1>2
  <2> WITNESS signer \in Keys, FALSE \in BOOLEAN, FALSE \in BOOLEAN, zov \in Zovs,
              None \in Wallets \cup {None}, 0 \in U64, amount \in U64 \cup {None}
  <2>1. QED
    BY DEF CctpFromUser
<1> HIDE DEF burnt
<1>6. 0 \in U64
  BY WidthAssumption DEF U64
<1>7. /\ CoreOK' /\ UNCHANGED config
      /\ \A other \in OrderKeys \ {key} :
           orders'[other] = orders[other] /\ audit'[other] = audit[other]
      /\ LentOn(orders', key) = LentOn(orders, key) + 0
      /\ ~audit'[key].direct /\ ~audit'[key].recorded
      /\ \A v \in Users, m \in Mints : burnt[v][m] <= bal'[v][m]
  BY <1>2, <1>3, <1>5, <1>6, CreatedOrder
<1>8. bal' \in Balances
  BY <1>7, BalancesNext
<1>9. UsersPart'
  <2>1. bal[u][MintOf(u)] + DebtTo(positions, u)
          <= bal'[u][MintOf(u)] + DebtTo(positions', u) + amount
    <3>1. /\ bal[u][MintOf(u)] \in Nat /\ bal'[u][MintOf(u)] \in Nat
          /\ bal[u][MintOf(u)] - amount <= bal'[u][MintOf(u)]
      BY <1>2, <1>4, <1>7, <1>8 DEF Balances, BalancesOf
    <3>2. DebtTo(positions, u) \in Nat /\ positions' = positions
      BY <1>1, InvFacts, DebtNat
    <3>3. QED
      BY <1>2, <3>1, <3>2
  <2>2. \A v \in Users \ {u} : /\ DebtTo(positions', v) = DebtTo(positions, v)
                               /\ \A m \in Mints : bal[v][m] <= bal'[v][m]
    BY <1>1, <1>4, <1>7
  <2>3. PositionsOK(positions') /\ UNCHANGED config
    BY <1>1, <1>7, InvFacts
  <2>4. QED
    BY <1>1, <1>2, <1>8, <2>1, <2>2, <2>3, OnePaid
<1>10. OrdersPart'
  <2>1. /\ Nothing \in [Users -> Int] /\ SumFunctionOnSet(Nothing, Users) = 0
        /\ MovedBy(positions, positions', key, Nothing) /\ PositionsOK(positions')
    BY <1>1, InvFacts, NoneMoved
  <2>2. /\ approved' \in [UserWallets -> Approval] /\ struck' = struck
        /\ touched \subseteq touched' /\ touched' \subseteq OrderKeys
    BY <1>1, InvFacts
  <2>3. LentOn(orders', key) = LentOn(orders, key) + SumFunctionOnSet(Nothing, Users)
    BY <1>7, <2>1
  <2>4. /\ CoreOK' /\ ~audit'[key].direct /\ ~audit'[key].recorded
        /\ \A other \in OrderKeys \ {key} :
             orders'[other] = orders[other] /\ audit'[other] = audit[other]
    BY <1>7
  <2>5. QED
    BY <2>1, <2>2, <2>3, <2>4, OrdersPartKept
<1>11. QED
  BY <1>9, <1>10 DEF LendingInv

SourcesAllowed(lenders, source) ==
  \A u \in lenders : MaySpend(u, source[u])

\* A lender's custody gives its own loan at most: nobody else's loan is taken from it.
LEMMA LoanTaken ==
  ASSUME NEW lenders \in SUBSET Users, NEW loans \in [lenders -> U64],
         NEW source, SourcesAllowed(lenders, source)
  PROVE  /\ \A owner : TakenFrom(owner, loans, source) \in Nat
         /\ \A u \in Users :
              TakenFrom(u, loans, source) <= IF u \in lenders THEN loans[u] ELSE 0
<1> DEFINE from(owner) == {u \in lenders : source[u] = owner}
<1>1. /\ IsFiniteSet(lenders) /\ \A owner : IsFiniteSet(from(owner))
      /\ \A u \in lenders : loans[u] \in Nat
  <2>1. IsFiniteSet(lenders)
    BY Finite, FS_Subset
  <2>2. \A owner : IsFiniteSet(from(owner))
    BY <2>1, FS_Subset
  <2>3. \A u \in lenders : loans[u] \in Nat
    BY DEF U64
  <2>4. QED
    BY <2>1, <2>2, <2>3
<1>2. \A owner : TakenFrom(owner, loans, source) = SumFunctionOnSet(loans, from(owner))
  BY DEF TakenFrom
<1>3. ASSUME NEW owner PROVE TakenFrom(owner, loans, source) \in Nat
  <2>1. IsFiniteSet(from(owner)) /\ \A u \in from(owner) : loans[u] \in Nat
    BY <1>1
  <2>2. TakenFrom(owner, loans, source) = SumFunctionOnSet(loans, from(owner))
    BY <1>2
  <2> HIDE DEF from
  <2>3. QED
    BY <2>1, <2>2, SumNat
<1>4. ASSUME NEW u \in Users
      PROVE  TakenFrom(u, loans, source) <= IF u \in lenders THEN loans[u] ELSE 0
  <2>1. \A v \in from(u) : v = u
    BY OwnerSets DEF SourcesAllowed, MaySpend
  <2>2. CASE u \in from(u)
    <3>1. from(u) = {u} /\ u \in lenders /\ loans[u] \in Int /\ loans[u] <= loans[u]
      BY <1>1, <2>1, <2>2
    <3>2. TakenFrom(u, loans, source) = SumFunctionOnSet(loans, {u})
      BY <1>2, <3>1
    <3>3. QED
      BY <3>1, <3>2, SumSingle
  <2>3. CASE u \notin from(u)
    <3>1. from(u) = {}
      BY <2>1, <2>3
    <3>2. TakenFrom(u, loans, source) = 0
      BY <1>2, <3>1, SumEmpty
    <3>3. QED
      BY <1>1, <3>2
  <2>4. QED
    BY <2>2, <2>3
<1>5. QED
  BY <1>3, <1>4

LentOut(b, taken, zov, mint, got) ==
  [owner \in Holders |-> [b[owner] EXCEPT ![mint] =
     @ - taken[owner] + IF owner = zov THEN got ELSE 0]]

\* The balances once the loans are in the ZOV.
LEMMA LentBalances ==
  ASSUME NEW b \in Balances, NEW taken \in [Holders -> Nat], NEW zov \in Zovs,
         NEW mint \in Mints, NEW got \in Nat, NEW lent,
         \A owner \in Holders : taken[owner] <= b[owner][mint],
         lent = LentOut(b, taken, zov, mint, got)
  PROVE  /\ lent \in Balances
         /\ \A u \in Users : /\ lent[u][mint] = b[u][mint] - taken[u]
                             /\ \A m \in Mints \ {mint} : lent[u][m] = b[u][m]
<1>1. b \in [Holders -> [Mints -> Nat]]
  BY DEF Balances, BalancesOf
<1>2. ASSUME NEW owner \in Holders
      PROVE  lent[owner] \in [Mints -> Nat]
  <2>1. b[owner][mint] - taken[owner] + (IF owner = zov THEN got ELSE 0) \in Nat
    BY <1>1
  <2>2. QED
    BY <1>1, <2>1 DEF LentOut
<1>3. ASSUME NEW u \in Users
      PROVE  /\ lent[u][mint] = b[u][mint] - taken[u]
             /\ \A m \in Mints \ {mint} : lent[u][m] = b[u][m]
  <2>1. u \in Holders /\ u # zov
    BY OwnerSets
  <2>2. lent[u] = [b[u] EXCEPT ![mint] = b[u][mint] - taken[u] + 0]
    BY <2>1 DEF LentOut
  <2>3. QED
    BY <1>1, <2>1, <2>2
<1>4. QED
  BY <1>2, <1>3 DEF Balances, BalancesOf, LentOut

LEMMA BorrowStep ==
  ASSUME LendingInv, NEW signer \in Keys, NEW key \in OrderKeys, NEW zov \in Zovs,
         NEW wallet \in Wallets, NEW mint \in Mints, NEW amount \in Amounts,
         NEW lenders \in SUBSET Users, NEW loans \in [lenders -> Amounts],
         NEW source \in [lenders -> Users \cup UserWallets],
         Borrow(signer, key, zov, wallet, mint, amount, loans, source)
  PROVE  LendingInv'
<1> DEFINE total == SumFunction(loans)
           taken == [owner \in Holders |-> TakenFrom(owner, loans, source)]
           arriving == [u \in lenders |-> Arrives(mint, loans[u])]
           lent == Lent(loans, source, zov, mint)
           moved == [u \in Users |-> IF u \in lenders THEN loans[u] ELSE 0]
<1>1. /\ UsersTypeOK /\ PositionsOK(positions) /\ bal \in Balances
      /\ amount \in U64 /\ loans \in [lenders -> U64] /\ DOMAIN loans = lenders
      /\ \A u \in lenders : loans[u] \in Nat
      /\ IsFiniteSet(lenders) /\ key[1] \in Partners /\ key[2] \in OrderIds
  <2>1. UsersTypeOK /\ PositionsOK(positions) /\ bal \in Balances
    BY InvFacts
  <2>2. amount \in U64 /\ loans \in [lenders -> U64] /\ DOMAIN loans = lenders
    BY UsersAssumption
  <2>3. IsFiniteSet(lenders)
    BY Finite, FS_Subset
  <2>4. QED
    BY <2>1, <2>2, <2>3 DEF U64, OrderKeys
<1>2. /\ total <= amount
      /\ \A u \in lenders :
           /\ loans[u] > 0 /\ Registered(u) /\ MintOf(u) = mint
           /\ MaySpend(u, source[u])
           /\ positions[<<key[2], u>>] = None
      /\ \A owner \in Holders : TakenFrom(owner, loans, source) <= bal[owner][mint]
      /\ \A w \in UserWallets : TakenFrom(w, loans, source) <= approved[w].amount
      /\ Core!CreateOrderFrom(lent, signer, TRUE, key, zov, wallet, mint, FALSE, amount,
                              None, total)
      /\ positions' = [p \in OrderIds \X Users |->
           IF p[1] = key[2] /\ p[2] \in lenders
             THEN [partner |-> key[1], amount_borrowed |-> loans[p[2]], amount_repaid |-> 0]
             ELSE positions[p]]
      /\ approved' = [w \in UserWallets |->
                         Spent(approved[w], TakenFrom(w, loans, source))]
      /\ UNCHANGED <<userVars, touched, struck>>
  BY <1>1 DEF Borrow, MayLend, HasPosition
<1>3. /\ \A owner : TakenFrom(owner, loans, source) \in Nat
      /\ \A u \in Users :
           TakenFrom(u, loans, source) <= IF u \in lenders THEN loans[u] ELSE 0
  <2>1. SourcesAllowed(lenders, source)
    BY <1>2 DEF SourcesAllowed
  <2>2. QED
    BY <1>1, <2>1, LoanTaken
<1>4. total \in U64 /\ total = SumFunctionOnSet(moved, Users) /\ moved \in [Users -> Int]
  <2>1. total = SumFunctionOnSet(loans, lenders)
    BY <1>1 DEF SumFunction
  <2>2. \A u \in lenders : moved[u] = loans[u] /\ moved[u] \in Int /\ loans[u] \in Int
    BY <1>1
  <2>3. moved \in [Users -> Int] /\ \A u \in Users \ lenders : moved[u] = 0
    BY <1>1
  <2> HIDE DEF moved, total
  <2>4. SumFunctionOnSet(loans, lenders) \in Nat
    BY <1>1, SumNat
  <2>5. SumFunctionOnSet(moved, Users) = SumFunctionOnSet(moved, lenders)
    BY <2>2, <2>3, Finite, SumPart
  <2>6. SumFunctionOnSet(moved, lenders) = SumFunctionOnSet(loans, lenders)
    BY <1>1, <2>2, SumSame
  <2>7. total \in U64
    BY <1>1, <1>2, <2>1, <2>4, WidthAssumption DEF U64, total
  <2>8. QED
    BY <2>1, <2>3, <2>5, <2>6, <2>7
<1>5. /\ lent \in Balances
      /\ \A u \in Users : /\ lent[u][mint] = bal[u][mint] - taken[u]
                          /\ \A m \in Mints \ {mint} : lent[u][m] = bal[u][m]
  <2>1. taken \in [Holders -> Nat] /\ \A owner \in Holders : taken[owner] <= bal[owner][mint]
    BY <1>2, <1>3
  <2>2. SumFunction(arriving) \in Nat
    <3>1. arriving \in [lenders -> Nat]
      BY <1>1, ArrivesBounds
    <3>2. QED
      BY <1>1, <3>1, SumBounds
  <2>3. lent = LentOut(bal, taken, zov, mint, SumFunction(arriving))
    BY <1>1 DEF Lent, LentOut
  <2> HIDE DEF taken, arriving, lent
  <2>4. QED
    BY <1>1, <2>1, <2>2, <2>3, LentBalances
<1>6. Creates(lent, key, mint, total)
  <2> SUFFICES \E one \in Keys, byOrbit, transient \in BOOLEAN, vault \in Zovs,
                  to \in Wallets \cup {None}, out \in U64, meta \in U64 \cup {None} :
                 /\ ~transient
                 /\ Core!CreateOrderFrom(lent, one, byOrbit, key, vault, to, mint,
                                         transient, out, meta, total)
    BY DEF Creates
  <2> USE <1>1
  <2> WITNESS signer \in Keys, TRUE \in BOOLEAN, FALSE \in BOOLEAN, zov \in Zovs,
              wallet \in Wallets \cup {None}, amount \in U64, None \in U64 \cup {None}
  <2>1. QED
    BY <1>2
<1> HIDE DEF lent, total, moved
<1>7. /\ CoreOK' /\ UNCHANGED config
      /\ \A other \in OrderKeys \ {key} :
           orders'[other] = orders[other] /\ audit'[other] = audit[other]
      /\ LentOn(orders', key) = LentOn(orders, key) + total
      /\ ~audit'[key].direct /\ ~audit'[key].recorded
      /\ \A v \in Users, m \in Mints : lent[v][m] <= bal'[v][m]
  BY <1>4, <1>5, <1>6, CreatedOrder
<1>8. PositionsOK(positions')
  <2> DEFINE opened(u) == [partner |-> key[1], amount_borrowed |-> loans[u],
                           amount_repaid |-> 0]
  <2>1. \A u \in lenders : opened(u) \in Position /\ Left(opened(u)) > 0
    <3>1. \A u \in lenders : opened(u) \in Position
      BY <1>1, WidthAssumption DEF Position, U64
    <3>2. \A u \in lenders : opened(u) # None
      BY <3>1, LendingAssumption
    <3>3. ASSUME NEW u \in lenders PROVE Left(opened(u)) > 0
      <4>1. loans[u] \in Nat /\ loans[u] > 0 /\ opened(u) # None
        BY <1>1, <1>2, <3>2
      <4>2. Left(opened(u)) = loans[u] - 0
        BY <4>1 DEF Left
      <4>3. QED
        BY <4>1, <4>2
    <3>4. QED
      BY <3>1, <3>3
  <2>2. /\ DOMAIN positions' = OrderIds \X Users
        /\ positions' = [p \in OrderIds \X Users |-> positions'[p]]
        /\ \A p \in OrderIds \X Users :
             positions'[p] = IF p[1] = key[2] /\ p[2] \in lenders THEN opened(p[2])
                                                                 ELSE positions[p]
    BY <1>2
  <2> HIDE DEF opened
  <2>3. ASSUME NEW p \in OrderIds \X Users
        PROVE  /\ positions'[p] \in Position \cup {None}
               /\ positions'[p] # None => Left(positions'[p]) > 0
    <3>1. p = <<p[1], p[2]>> /\ p[1] \in OrderIds /\ p[2] \in Users
      OBVIOUS
    <3>2. /\ positions[p] \in Position \cup {None}
          /\ positions[p] # None => Left(positions[p]) > 0
      BY <1>1, <3>1 DEF PositionsOK
    <3>3. QED
      BY <2>1, <2>2, <3>2
  <2>4. positions' \in [OrderIds \X Users -> Position \cup {None}]
    BY <2>2, <2>3
  <2>5. QED
    BY <2>3, <2>4 DEF PositionsOK
<1>9. MovedBy(positions, positions', key, moved)
  <2>1. \A o \in OrderIds \ {key[2]}, u \in Users : positions'[<<o, u>>] = positions[<<o, u>>]
    BY <1>2
  <2>2. ASSUME NEW u \in lenders
        PROVE  /\ positions[<<key[2], u>>] = None
               /\ positions'[<<key[2], u>>].partner = key[1]
               /\ Left(positions'[<<key[2], u>>]) = Left(positions[<<key[2], u>>]) + moved[u]
    <3>1. positions'[<<key[2], u>>]
            = [partner |-> key[1], amount_borrowed |-> loans[u], amount_repaid |-> 0]
      BY <1>1, <1>2
    <3>2. Left(positions[<<key[2], u>>]) = 0 /\ moved[u] = loans[u] /\ loans[u] \in Nat
      BY <1>1, <1>2 DEF Left, moved
    <3>3. positions'[<<key[2], u>>] # None
      <4>1. [partner |-> key[1], amount_borrowed |-> loans[u], amount_repaid |-> 0]
              \in Position
        BY <1>1, WidthAssumption DEF Position, U64
      <4>2. QED
        BY <3>1, <4>1, LendingAssumption
    <3>4. Left(positions'[<<key[2], u>>]) = loans[u]
      BY <3>1, <3>2, <3>3 DEF Left
    <3>5. QED
      BY <1>2, <3>1, <3>2, <3>4
  <2>3. ASSUME NEW u \in Users \ lenders
        PROVE  /\ positions'[<<key[2], u>>] = positions[<<key[2], u>>]
               /\ Left(positions'[<<key[2], u>>]) = Left(positions[<<key[2], u>>]) + moved[u]
    <3>1. positions'[<<key[2], u>>] = positions[<<key[2], u>>] /\ moved[u] = 0
      BY <1>1, <1>2 DEF moved
    <3>2. QED
      BY <1>1, <3>1, LeftNat
  <2>4. QED
    BY <2>1, <2>2, <2>3 DEF MovedBy
<1>10. OrdersPart'
  <2>1. approved' \in [UserWallets -> Approval]
    <3>1. ASSUME NEW w \in UserWallets
          PROVE  Spent(approved[w], TakenFrom(w, loans, source)) \in Approval
      <4>1. /\ approved[w] \in Approval /\ TakenFrom(w, loans, source) \in Nat
            /\ TakenFrom(w, loans, source) <= approved[w].amount
        BY <1>2, <1>3, InvFacts
      <4>2. NoApproval \in Approval
        BY WidthAssumption DEF NoApproval, Approval, U64
      <4>3. [approved[w] EXCEPT !.amount = @ - TakenFrom(w, loans, source)] \in Approval
        BY <4>1, WidthAssumption DEF Approval, U64
      <4>4. QED
        BY <4>2, <4>3 DEF Spent
    <3>2. QED
      BY <1>2, <3>1
  <2>2. /\ touched \subseteq touched' /\ touched' \subseteq OrderKeys /\ struck' = struck
    BY <1>2, InvFacts
  <2>3. /\ CoreOK' /\ ~audit'[key].direct /\ ~audit'[key].recorded
        /\ LentOn(orders', key) = LentOn(orders, key) + SumFunctionOnSet(moved, Users)
        /\ \A other \in OrderKeys \ {key} :
             orders'[other] = orders[other] /\ audit'[other] = audit[other]
    BY <1>4, <1>7
  <2>4. QED
    BY <1>4, <1>8, <1>9, <2>1, <2>2, <2>3, OrdersPartKept
<1>11. UsersPart'
  <2>1. ASSUME NEW u \in Users, Registered(u), users[u].user_type = "ICV"
        PROVE  bal[u][MintOf(u)] + DebtTo(positions, u)
                 <= bal'[u][MintOf(u)] + DebtTo(positions', u) + Nothing[u]
    <3>1. /\ MintOf(u) \in Mints /\ DebtTo(positions, u) \in Nat /\ Nothing[u] = 0
          /\ DebtTo(positions', u) = DebtTo(positions, u) + moved[u]
      BY <1>1, <1>4, <1>8, <1>9, <2>1, UserFacts, DebtNat, DebtsMove DEF Nothing
    <3>2. /\ bal'[u][MintOf(u)] \in Nat /\ bal[u][MintOf(u)] \in Nat
          /\ lent[u][MintOf(u)] <= bal'[u][MintOf(u)] /\ lent[u][MintOf(u)] \in Nat
      BY <1>1, <1>5, <1>7, <3>1, BalancesNext, OwnerSets DEF Balances, BalancesOf
    <3>3. bal[u][MintOf(u)] <= lent[u][MintOf(u)] + moved[u] /\ moved[u] \in Int
      <4>1. taken[u] <= (IF u \in lenders THEN loans[u] ELSE 0) /\ taken[u] \in Nat
        BY <1>3, <2>1, OwnerSets
      <4>2. taken[u] <= moved[u] /\ taken[u] \in Nat /\ moved[u] \in Int
        BY <1>4, <4>1 DEF moved
      <4> HIDE DEF taken
      <4>3. CASE MintOf(u) = mint
        BY <1>5, <3>2, <4>2, <4>3
      <4>4. CASE MintOf(u) # mint
        <5>1. moved[u] = 0 /\ lent[u][MintOf(u)] = bal[u][MintOf(u)]
          BY <1>2, <1>5, <3>1, <4>4 DEF moved
        <5>2. QED
          BY <3>2, <5>1
      <4>5. QED
        BY <4>3, <4>4
    <3>4. QED
      BY <3>1, <3>2, <3>3
  <2>2. UNCHANGED <<config, users, withdraws, cliffs, ovault, now, carried, struck>>
    BY <1>2, <1>7 DEF userVars
  <2>3. bal' \in Balances
    BY <1>7, BalancesNext
  <2>4. QED
    BY <1>8, <2>1, <2>2, <2>3, UsersUntouched
<1>12. QED
  BY <1>10, <1>11 DEF LendingInv

-----------------------------------------------------------------------------
(***************************************************************************)
(* Repayments.                                                             *)
(***************************************************************************)
LEMMA SameShares ==
  ASSUME NEW pot, NEW amounts
  PROVE  /\ ShareP!Total(amounts) = Total(amounts)
         /\ ShareP!Undistributed(pot, amounts) = Undistributed(pot, amounts)
<1>1. ShareP!Total(amounts) = Total(amounts)
  BY DEF ShareP!Total, Total
<1>2. QED
  BY <1>1 DEF ShareP!Undistributed, Undistributed, ShareP!CeilDiv, CeilDiv, ShareP!Min, Min

LEMMA TotalIsNat ==
  ASSUME NEW amounts \in Seq(Nat)
  PROVE  Total(amounts) \in Nat
BY SameShares, ShareP!TotalNat

\* No position is given more than is owed on it.
LEMMA SharesWithin ==
  ASSUME NEW amounts \in Seq(Nat \ {0}), NEW pot \in 0..Total(amounts)
  PROVE  /\ Shares(pot, amounts) \in [1..Len(amounts) -> Nat]
         /\ \A i \in 1..Len(amounts) : Shares(pot, amounts)[i] <= amounts[i]
<1> DEFINE n == Len(amounts)
           left == Undistributed(pot, amounts)
<1>1. n \in Nat /\ amounts \in [1..n -> Nat \ {0}]
  BY LenProperties
<1>2. Shares(pot, amounts) = [i \in 1..n |-> IF pot = 0 THEN 0 ELSE left[i - 1] - left[i]]
  BY DEF Shares
<1>3. ASSUME NEW i \in 1..n
      PROVE  left[i - 1] - left[i] \in 0..amounts[i]
  <2>1. pot \in 0..ShareP!Total(amounts) /\ Len(amounts) # 0
    BY <1>1, SameShares
  <2>2. PICK gives \in [0..n -> Nat] :
          /\ gives = ShareP!Undistributed(pot, amounts)
          /\ \A k \in 1..n : gives[k - 1] - gives[k] \in 0..amounts[k]
    BY <2>1, ShareP!Distribution DEF n, ShareP!Spreads, ShareP!FairShare
  <2>3. gives = left
    BY <2>2, SameShares
  <2> HIDE DEF left
  <2>4. QED
    BY <2>2, <2>3
<1> HIDE DEF left
<1>4. ASSUME NEW i \in 1..n
      PROVE  /\ (IF pot = 0 THEN 0 ELSE left[i - 1] - left[i]) \in Nat
             /\ (IF pot = 0 THEN 0 ELSE left[i - 1] - left[i]) <= amounts[i]
  BY <1>1, <1>3
<1>5. QED
  BY <1>2, <1>4

\* The least of a few amounts is one of them, and none is below it.
LEMMA LeastOfFour ==
  ASSUME NEW a \in Int, NEW b \in Int, NEW c \in Int, NEW d \in Int
  PROVE  LET m == Min({a, b, c, d})
         IN  m \in {a, b, c, d} /\ m <= a /\ m <= b /\ m <= c /\ m <= d
<1> DEFINE S == {a, b, c, d}
<1>1. PICK x \in {a, b} : x <= a /\ x <= b
  BY Z3
<1>2. PICK y \in {c, d} : y <= c /\ y <= d
  BY Z3
<1>3. PICK z \in {x, y} : z <= x /\ z <= y
  BY <1>1, <1>2, Z3
<1>4. z \in S /\ z <= a /\ z <= b /\ z <= c /\ z <= d
  BY <1>1, <1>2, <1>3
<1>5. \E m \in S : \A other \in S : m <= other
  BY <1>4
<1>6. Min(S) \in S /\ \A other \in S : Min(S) <= other
  BY <1>5 DEF Min
<1>7. QED
  BY <1>6

LEMMA LeastOfThree ==
  ASSUME NEW a \in Int, NEW b \in Int, NEW c \in Int
  PROVE  LET m == Min({a, b, c})
         IN  m \in {a, b, c} /\ m <= a /\ m <= b /\ m <= c
<1>1. {a, b, c} = {a, b, c, c}
  OBVIOUS
<1>2. QED
  BY <1>1, LeastOfFour

LEMMA LeastOfTwo ==
  ASSUME NEW a \in Int, NEW b \in Int
  PROVE  LET m == Min({a, b}) IN m \in {a, b} /\ m <= a /\ m <= b
<1>1. {a, b} = {a, b, b, b}
  OBVIOUS
<1>2. QED
  BY <1>1, LeastOfFour

\* A repayment takes its part for the lenders off what is lent on an order that Orbit
\* alone has repaid; when it settles the order there was no more lent than that part.
RepaidFairly(t, h, repay, total) ==
  /\ Core!Ledger(t) /\ Core!Senior(t, h) /\ ~h.direct /\ ~h.recorded
  /\ repay \in Nat /\ repay > 0 /\ total \in Nat
  /\ Core!SharesAccepted(t, repay, total) /\ repay <= Core!Outstanding(t)
  /\ t.amount_repaid + total <= MaxU64 /\ t.amount_in + repay <= MaxU64

OwesLess(t, after, total) ==
  (IF after # None THEN Core!LentOutstanding(after) ELSE 0)
    = Core!LentOutstanding(t) - total

LEMMA RepaidOwes ==
  ASSUME NEW t \in Core!OrderTracker, NEW h, NEW repay, NEW total,
         RepaidFairly(t, h, repay, total)
  PROVE  OwesLess(t, Core!TrackerRepaid(t, repay, total), total)
<1> /\ Core!Ledger(t) /\ Core!Senior(t, h) /\ ~h.direct /\ ~h.recorded
    /\ repay \in Nat /\ repay > 0 /\ total \in Nat
    /\ Core!SharesAccepted(t, repay, total) /\ repay <= Core!Outstanding(t)
    /\ t.amount_repaid + total <= MaxU64 /\ t.amount_in + repay <= MaxU64
  BY DEF RepaidFairly
<1> DEFINE u == [t EXCEPT !.amount_repaid = @ + total, !.amount_in = @ + repay]
<1>1. /\ t.amount_in \in Nat /\ t.amount_out \in Nat
      /\ t.amount_borrowed \in Nat /\ t.amount_repaid \in Nat
  BY DEF Core!OrderTracker, Core!U64
<1>2. /\ u.amount_in = t.amount_in + repay /\ u.amount_out = t.amount_out
      /\ u.amount_borrowed = t.amount_borrowed /\ u.amount_repaid = t.amount_repaid + total
  BY DEF Core!OrderTracker
<1>3. u # None
  <2>1. u \in Core!OrderTracker
    <3>1. /\ t.amount_repaid + total \in Core!U64 /\ t.amount_in + repay \in Core!U64
      BY <1>1, WidthAssumption DEF Core!U64
    <3>2. QED
      BY <3>1 DEF Core!OrderTracker
  <2>2. QED
    BY <2>1, CoreAssumption DEF Core!NoneIsNoAccount
<1>4. Core!TrackerRepaid(t, repay, total)
        = IF u.amount_in = u.amount_out THEN None ELSE u
  BY DEF Core!TrackerRepaid
<1> HIDE DEF u
<1>5. CASE u.amount_in = u.amount_out
  <2>1. Core!LentOutstanding(t) = total
    BY <1>1, <1>2, <1>5
    DEF Core!Ledger, Core!Senior, Core!SharesAccepted, Core!LentOutstanding
  <2>2. QED
    BY <1>4, <1>5, <2>1 DEF OwesLess
<1>6. CASE u.amount_in # u.amount_out
  <2>1. Core!LentOutstanding(u) = Core!LentOutstanding(t) - total
    BY <1>1, <1>2 DEF Core!LentOutstanding
  <2>2. QED
    BY <1>3, <1>4, <1>6, <2>1 DEF OwesLess
<1>7. QED
  BY <1>5, <1>6

\* A repayment takes `amount` off what is left of a position, or all of it.
LEMMA RepaidPosition ==
  ASSUME NEW position \in Position, Left(position) > 0, NEW amount \in Nat, NEW after,
         after = PositionRepaid(position, amount)
  PROVE  /\ after \in Position \cup {None} /\ Left(after) \in Nat
         /\ after # None => after.partner = position.partner /\ Left(after) > 0
         /\ Left(after) + amount >= Left(position)
         /\ amount <= Left(position) => Left(after) = Left(position) - amount
<1> DEFINE repaid == [position EXCEPT !.amount_repaid = @ + amount]
<1>1. /\ position.amount_borrowed \in 0..MaxU64 /\ position.amount_repaid \in Nat
      /\ position.partner \in Partners
  BY DEF Position, U64
<1>2. position # None
  BY LendingAssumption
<1>3. Left(position) = position.amount_borrowed - position.amount_repaid
  BY <1>2 DEF Left
<1>4. /\ repaid.amount_borrowed = position.amount_borrowed
      /\ repaid.partner = position.partner
      /\ repaid.amount_repaid = position.amount_repaid + amount
  BY DEF Position
<1>5. after = IF repaid.amount_repaid >= repaid.amount_borrowed THEN None ELSE repaid
  BY DEF PositionRepaid
<1>6. CASE repaid.amount_repaid >= repaid.amount_borrowed
  <2>1. after = None /\ Left(after) = 0
    BY <1>5, <1>6 DEF Left
  <2> HIDE DEF repaid
  <2>2. QED
    BY <1>1, <1>3, <1>4, <1>6, <2>1
<1>7. CASE ~(repaid.amount_repaid >= repaid.amount_borrowed)
  <2>1. repaid \in Position
    <3>1. position.amount_repaid + amount \in U64
      BY <1>1, <1>4, <1>7, WidthAssumption DEF U64
    <3>2. QED
      BY <3>1 DEF Position
  <2>2. after = repaid /\ after # None
    BY <1>5, <1>7, <2>1, LendingAssumption
  <2>3. Left(after) = repaid.amount_borrowed - repaid.amount_repaid
    BY <2>2 DEF Left
  <2> HIDE DEF repaid
  <2>4. QED
    BY <1>1, <1>3, <1>4, <1>7, <2>1, <2>2, <2>3
<1>8. QED
  BY <1>6, <1>7

\* The positions on an order once `booked` is repaid to each of its lenders.
Repaid(ps, key, booked) ==
  [p \in OrderIds \X Users |->
     IF p[1] = key[2] /\ booked[p[2]] > 0 THEN PositionRepaid(ps[p], booked[p[2]]) ELSE ps[p]]

Moved(ps, qs, key) ==
  [u \in Users |-> Left(qs[<<key[2], u>>]) - Left(ps[<<key[2], u>>])]

Lending(ps, key, u) ==
  ps[<<key[2], u>>] # None /\ ps[<<key[2], u>>].partner = key[1]

LendersOnly(ps, key, booked) == \A u \in Users : booked[u] > 0 => Lending(ps, key, u)

RepaidAs(ps, qs, key, booked) ==
  /\ PositionsOK(qs) /\ Moved(ps, qs, key) \in [Users -> Int]
  /\ MovedBy(ps, qs, key, Moved(ps, qs, key))
  /\ \A u \in Users :
       /\ Moved(ps, qs, key)[u] + booked[u] >= 0
       /\ booked[u] <= Left(ps[<<key[2], u>>]) => Moved(ps, qs, key)[u] = -booked[u]

LEMMA RepaidPositions ==
  ASSUME NEW ps, PositionsOK(ps), NEW key \in OrderKeys, NEW booked \in [Users -> Nat],
         LendersOnly(ps, key, booked), NEW qs, qs = Repaid(ps, key, booked)
  PROVE  RepaidAs(ps, qs, key, booked)
<1> DEFINE moved == Moved(ps, qs, key)
<1> \A u \in Users : booked[u] > 0 => Lending(ps, key, u)
  BY DEF LendersOnly
<1>1. key[1] \in Partners /\ key[2] \in OrderIds
  BY DEF OrderKeys
<1>2. \A o \in OrderIds \ {key[2]}, u \in Users : qs[<<o, u>>] = ps[<<o, u>>]
  BY DEF Repaid
<1>3. ASSUME NEW u \in Users
      PROVE  LET before == ps[<<key[2], u>>]
                 after  == qs[<<key[2], u>>]
             IN  /\ after \in Position \cup {None} /\ Left(after) \in Nat
                 /\ Left(before) \in Nat
                 /\ after # None => Left(after) > 0
                 /\ before = after \/ /\ before # None => before.partner = key[1]
                                      /\ after # None => after.partner = key[1]
                 /\ Left(after) + booked[u] >= Left(before)
                 /\ booked[u] <= Left(before) => Left(after) = Left(before) - booked[u]
  <2> DEFINE before == ps[<<key[2], u>>]
             after == qs[<<key[2], u>>]
  <2>1. /\ before \in Position \cup {None} /\ Left(before) \in Nat /\ booked[u] \in Nat
        /\ before # None => Left(before) > 0
    BY <1>1, LeftNat DEF PositionsOK
  <2>2. after = IF booked[u] > 0 THEN PositionRepaid(before, booked[u]) ELSE before
    BY <1>1 DEF Repaid
  <2>3. CASE booked[u] > 0
    <3>1. before # None /\ before.partner = key[1] /\ after = PositionRepaid(before, booked[u])
      BY <2>2, <2>3 DEF Lending
    <3> HIDE DEF before, after
    <3>2. before \in Position /\ Left(before) > 0
      BY <2>1, <3>1
    <3>3. /\ after \in Position \cup {None} /\ Left(after) \in Nat
          /\ after # None => after.partner = before.partner /\ Left(after) > 0
          /\ Left(after) + booked[u] >= Left(before)
          /\ booked[u] <= Left(before) => Left(after) = Left(before) - booked[u]
      BY <2>1, <3>1, <3>2, RepaidPosition
    <3>4. QED
      BY <2>1, <3>1, <3>3 DEF before, after
  <2>4. CASE ~(booked[u] > 0)
    <3>1. booked[u] = 0 /\ after = before
      BY <2>1, <2>2, <2>4
    <3> HIDE DEF before, after
    <3>2. QED
      BY <2>1, <3>1 DEF before, after
  <2>5. QED
    BY <2>3, <2>4
<1>4. ASSUME NEW u \in Users
      PROVE  /\ moved[u] = Left(qs[<<key[2], u>>]) - Left(ps[<<key[2], u>>])
             /\ moved[u] \in Int
             /\ Left(qs[<<key[2], u>>]) = Left(ps[<<key[2], u>>]) + moved[u]
             /\ moved[u] + booked[u] >= 0
             /\ booked[u] <= Left(ps[<<key[2], u>>]) => moved[u] = -booked[u]
  <2>1. moved[u] = Left(qs[<<key[2], u>>]) - Left(ps[<<key[2], u>>])
    BY DEF Moved
  <2>2. booked[u] \in Nat
    OBVIOUS
  <2> HIDE DEF moved
  <2>3. QED
    BY <1>3, <2>1, <2>2
<1>5. moved \in [Users -> Int]
  <2>1. \A u \in Users : Left(qs[<<key[2], u>>]) - Left(ps[<<key[2], u>>]) \in Int
    BY <1>3
  <2>2. QED
    BY <2>1 DEF Moved
<1>6. PositionsOK(qs)
  <2>1. ASSUME NEW o \in OrderIds, NEW u \in Users
        PROVE  /\ qs[<<o, u>>] \in Position \cup {None}
               /\ qs[<<o, u>>] # None => Left(qs[<<o, u>>]) > 0
    <3>1. CASE o = key[2]
      BY <1>3, <3>1
    <3>2. CASE o # key[2]
      BY <1>2, <3>2 DEF PositionsOK
    <3>3. QED
      BY <3>1, <3>2
  <2>2. qs \in [OrderIds \X Users -> Position \cup {None}]
    <3>1. DOMAIN qs = OrderIds \X Users /\ qs = [p \in OrderIds \X Users |-> qs[p]]
      BY DEF Repaid
    <3>2. ASSUME NEW p \in OrderIds \X Users PROVE qs[p] \in Position \cup {None}
      <4>1. p = <<p[1], p[2]>> /\ p[1] \in OrderIds /\ p[2] \in Users
        OBVIOUS
      <4>2. QED
        BY <2>1, <4>1
    <3>3. QED
      BY <3>1, <3>2
  <2>3. QED
    BY <2>1, <2>2 DEF PositionsOK
<1>7. MovedBy(ps, qs, key, moved)
  <2> HIDE DEF moved
  <2>1. QED
    BY <1>2, <1>3, <1>4 DEF MovedBy
<1>8. QED
  BY <1>4, <1>5, <1>6, <1>7 DEF RepaidAs

\* A sequence of at most so many elements is a function on 1..n, and a sequence.
LEMMA SequencesOf ==
  ASSUME NEW S, NEW s \in SeqOf(S, MaxOperations)
  PROVE  s \in Seq(S) /\ Len(s) \in Nat /\ s \in [1..Len(s) -> S] /\ DOMAIN s = 1..Len(s)
<1>1. PICK n \in 0..MaxOperations : s \in [1..n -> S]
  BY DEF SeqOf
<1>2. n \in Nat
  BY LendingAssumption
<1>3. s \in Seq(S)
  BY <1>1, <1>2, SeqDef
<1>4. QED
  BY <1>3, LenProperties

\* Shares of a call, and what they come to by position and by destination.
Shared(n, shares, supplied, payee, booked, paid) ==
  /\ n \in Nat /\ shares \in [1..n -> Nat] /\ supplied \in [1..n -> Users]
  /\ payee \in [1..n -> Payees]
  /\ booked = SumsBy(shares, 1..n, supplied, Users)
  /\ paid = SumsBy(shares, 1..n, payee, Payees)

PaysAsBooked(n, shares, supplied, booked, paid) ==
  /\ booked \in [Users -> Nat] /\ paid \in [Payees -> Nat]
  /\ SumFunction(paid) \in Nat /\ SumFunction(paid) = SumFunctionOnSet(booked, Users)
  /\ \A owner \in Payees : paid[owner] <= SumFunction(paid)
  /\ \A u \in Users : booked[u] > 0 => \E i \in 1..n : supplied[i] = u
  /\ (\A i, j \in 1..n : supplied[i] = supplied[j] => i = j) =>
       \A i \in 1..n : booked[supplied[i]] = shares[i]

LEMMA PaidOut ==
  ASSUME NEW n, NEW shares, NEW supplied, NEW payee, NEW booked, NEW paid,
         Shared(n, shares, supplied, payee, booked, paid)
  PROVE  PaysAsBooked(n, shares, supplied, booked, paid)
<1> /\ n \in Nat /\ shares \in [1..n -> Nat] /\ supplied \in [1..n -> Users]
    /\ payee \in [1..n -> Payees]
    /\ booked = SumsBy(shares, 1..n, supplied, Users)
    /\ paid = SumsBy(shares, 1..n, payee, Payees)
  BY DEF Shared
<1> DEFINE I == 1..n
           to(u) == {i \in I : supplied[i] = u}
           at(owner) == {i \in I : payee[i] = owner}
<1>1. /\ IsFiniteSet(I) /\ \A u : IsFiniteSet(to(u)) /\ \A owner : IsFiniteSet(at(owner))
  <2>1. IsFiniteSet(I)
    BY FS_Interval
  <2>2. QED
    BY <2>1, FS_Subset
<1>2. booked \in [Users -> Nat]
  <2>1. ASSUME NEW u \in Users PROVE SumFunctionOnSet(shares, to(u)) \in Nat
    <3>1. IsFiniteSet(to(u)) /\ \A i \in to(u) : shares[i] \in Nat
      BY <1>1
    <3> HIDE DEF to
    <3>2. QED
      BY <3>1, SumNat
  <2>2. QED
    BY <2>1 DEF SumsBy
<1>3. paid \in [Payees -> Nat]
  <2>1. ASSUME NEW owner \in Payees PROVE SumFunctionOnSet(shares, at(owner)) \in Nat
    <3>1. IsFiniteSet(at(owner)) /\ \A i \in at(owner) : shares[i] \in Nat
      BY <1>1
    <3> HIDE DEF at
    <3>2. QED
      BY <3>1, SumNat
  <2>2. QED
    BY <2>1 DEF SumsBy
<1>4. /\ SumFunctionOnSet(booked, Users) = SumFunctionOnSet(shares, I)
      /\ SumFunctionOnSet(paid, Payees) = SumFunctionOnSet(shares, I)
  <2>1. \A i \in I : shares[i] \in Int /\ supplied[i] \in Users /\ payee[i] \in Payees
    OBVIOUS
  <2>2. /\ booked = SumsBy(shares, I, supplied, Users)
        /\ paid = SumsBy(shares, I, payee, Payees)
    OBVIOUS
  <2> HIDE DEF I
  <2>3. SumFunctionOnSet(SumsBy(shares, I, supplied, Users), Users)
          = SumFunctionOnSet(shares, I)
    BY <1>1, <2>1, Finite, SumGrouped
  <2>4. SumFunctionOnSet(SumsBy(shares, I, payee, Payees), Payees)
          = SumFunctionOnSet(shares, I)
    BY <1>1, <2>1, Finite, SumGrouped
  <2>5. QED
    BY <2>2, <2>3, <2>4
<1>6. SumFunction(paid) = SumFunctionOnSet(paid, Payees)
  BY <1>3 DEF SumFunction
<1>7. SumFunction(paid) \in Nat /\ \A owner \in Payees : paid[owner] <= SumFunction(paid)
  BY <1>3, Finite, SumBounds
<1>8. ASSUME NEW u \in Users, booked[u] > 0
      PROVE  \E i \in 1..n : supplied[i] = u
  <2> SUFFICES ASSUME to(u) = {} PROVE FALSE
    OBVIOUS
  <2>1. booked[u] = SumFunctionOnSet(shares, {})
    BY DEF SumsBy
  <2>2. QED
    BY <1>8, <2>1, SumEmpty
<1>9. ASSUME \A i, j \in 1..n : supplied[i] = supplied[j] => i = j, NEW i \in 1..n
      PROVE  booked[supplied[i]] = shares[i]
  <2>1. to(supplied[i]) = {i}
    BY <1>9
  <2>2. booked[supplied[i]] = SumFunctionOnSet(shares, {i})
    BY <2>1 DEF SumsBy
  <2>3. shares[i] \in Int
    OBVIOUS
  <2>4. QED
    BY <2>2, <2>3, SumSingle
<1>10. QED
  BY <1>2, <1>3, <1>4, <1>6, <1>7, <1>8, <1>9 DEF PaysAsBooked

\* What moves one book down by what is booked moves its sum down by the sum.
Opposite(f, g) == \A u \in Users : f[u] \in Nat /\ g[u] \in Int /\ g[u] = -f[u]

LEMMA SumOpposite ==
  ASSUME NEW f, NEW g, Opposite(f, g)
  PROVE  /\ SumFunctionOnSet(f, Users) \in Int /\ SumFunctionOnSet(g, Users) \in Int
         /\ SumFunctionOnSet(g, Users) = -SumFunctionOnSet(f, Users)
<1> DEFINE zero == [u \in Users |-> 0]
<1>1. \A u \in Users : f[u] \in Int /\ g[u] \in Int /\ zero[u] = g[u] + f[u]
  BY DEF Opposite
<1>2. \A u \in Users : zero[u] = 0
  OBVIOUS
<1> HIDE DEF zero
<1>3. SumFunctionOnSet(zero, Users) = SumFunctionOnSet(g, Users) + SumFunctionOnSet(f, Users)
  BY <1>1, Finite, SumPlus
<1>4. SumFunctionOnSet(zero, Users) = 0
  BY <1>2, Finite, SumZero
<1>5. SumFunctionOnSet(f, Users) \in Int /\ SumFunctionOnSet(g, Users) \in Int
  BY <1>1, Finite, SumInt
<1>6. QED
  BY <1>3, <1>4, <1>5

\* Shares that stay within what is left of the positions named can be paid out and
\* booked: the two books go down by the same sum, a lender with custody gets in it
\* what its position loses.
NamedOnce(n, supplied) == \A i, j \in 1..n : supplied[i] = supplied[j] => i = j

SharesOwed(key, n, supplied, payee, shares) ==
  /\ \A i \in 1..n : /\ Lending(positions, key, supplied[i])
                     /\ MintOf(supplied[i]) = orders[key].mint
                     /\ shares[i] <= Left(positions[<<key[2], supplied[i]>>])
  /\ \A u \in Users : Registered(u) /\ users[u].user_type = "ICV" =>
       \A i \in 1..n : payee[i] = u <=> supplied[i] = u

LEMMA PayOutStep ==
  ASSUME LendingInv, NEW key \in OrderKeys, NEW amount \in U64, NEW repay \in U64, NEW n,
         NEW shares, NEW supplied, NEW payee, NEW booked, NEW paid,
         Shared(n, shares, supplied, payee, booked, paid),
         SharesOwed(key, n, supplied, payee, shares),
         Core!ReplenishAndRepay(key, amount, repay, paid),
         positions' = Repaid(positions, key, booked),
         touched' = IF NamedOnce(n, supplied) THEN touched ELSE touched \cup {key},
         UNCHANGED <<userVars, approved, struck>>
  PROVE  LendingInv'
<1> DEFINE t == orders[key]
           total == SumFunction(paid)
           moved == Moved(positions, positions', key)
<1> /\ n \in Nat /\ shares \in [1..n -> Nat] /\ supplied \in [1..n -> Users]
    /\ payee \in [1..n -> Payees]
    /\ booked = SumsBy(shares, 1..n, supplied, Users)
    /\ paid = SumsBy(shares, 1..n, payee, Payees)
  BY DEF Shared
<1> /\ \A i \in 1..n : /\ Lending(positions, key, supplied[i])
                       /\ MintOf(supplied[i]) = orders[key].mint
                       /\ shares[i] <= Left(positions[<<key[2], supplied[i]>>])
    /\ \A u \in Users : Registered(u) /\ users[u].user_type = "ICV" =>
         \A i \in 1..n : payee[i] = u <=> supplied[i] = u
    /\ touched' = IF \A i, j \in 1..n : supplied[i] = supplied[j] => i = j
                    THEN touched ELSE touched \cup {key}
  BY DEF SharesOwed, NamedOnce
<1>1. /\ UsersTypeOK /\ PositionsOK(positions) /\ bal \in Balances
      /\ Core!TypeOK /\ CoreOK /\ amount \in Nat /\ repay \in Nat
  BY InvFacts DEF U64
<1>2. /\ booked \in [Users -> Nat] /\ paid \in [Payees -> Nat]
      /\ total \in Nat /\ total = SumFunctionOnSet(booked, Users)
      /\ \A owner \in Payees : paid[owner] <= total
      /\ \A u \in Users : booked[u] > 0 => \E i \in 1..n : supplied[i] = u
      /\ (\A i, j \in 1..n : supplied[i] = supplied[j] => i = j) =>
           \A i \in 1..n : booked[supplied[i]] = shares[i]
  <2>1. PaysAsBooked(n, shares, supplied, booked, paid)
    BY PaidOut
  <2>2. QED
    BY <2>1 DEF PaysAsBooked
<1>3. /\ Core!Running /\ Open(key) /\ Core!Repayable(bal, key, t, amount, repay, paid)
      /\ bal' = Core!BalancesRepaid(bal, key, t, amount, paid)
      /\ orders' = [orders EXCEPT ![key] = Core!TrackerRepaid(t, repay, total)]
      /\ audit' = [audit EXCEPT ![key].arrived = @ + Core!Arrives(t.mint, amount),
                                ![key].paid = @ + total]
      /\ UNCHANGED <<config, beneficiaries>>
  BY SameSum DEF Core!ReplenishAndRepay, Core!Open, Open
<1>4. paid \in [Payees -> U64]
  <2>1. total <= MaxU64
    <3>1. total \in Core!U64
      BY <1>3, SameSum DEF Core!Repayable
    <3>2. QED
      BY <3>1, WidthAssumption DEF Core!U64
  <2> HIDE DEF total
  <2>2. \A owner \in Payees : paid[owner] \in U64
    BY <1>2, <2>1, WidthAssumption DEF U64
  <2>3. QED
    BY <1>2, <2>2
<1> HIDE DEF total
<1>5. CoreOK'
  BY <1>1, <1>4, CoreRepays
<1>6. /\ t \in Core!OrderTracker /\ audit[key] \in Core!History
      /\ Core!Ledger(t) /\ Core!Senior(t, audit[key])
  BY <1>3, OpenFacts
<1>7. /\ t.mint \in Mints
      /\ \A u \in Users, mint \in Mints :
           bal'[u][mint] = bal[u][mint]
                             + (IF mint = t.mint THEN Arrives(mint, paid[u]) ELSE 0)
  BY <1>1, <1>3, <1>4, <1>6, CoreRepayment
<1>8. bal' \in Balances
  BY <1>5, BalancesNext
<1>9. /\ PositionsOK(positions') /\ moved \in [Users -> Int]
      /\ MovedBy(positions, positions', key, moved)
      /\ \A u \in Users :
           /\ moved[u] + booked[u] >= 0
           /\ booked[u] <= Left(positions[<<key[2], u>>]) => moved[u] = -booked[u]
  <2>1. LendersOnly(positions, key, booked)
    BY <1>2 DEF LendersOnly
  <2>2. RepaidAs(positions, positions', key, booked)
    BY <1>1, <1>2, <2>1, RepaidPositions
  <2>3. QED
    BY <2>2 DEF RepaidAs
<1> HIDE DEF moved
<1>10. UsersPart'
  <2>1. ASSUME NEW u \in Users, Registered(u), users[u].user_type = "ICV",
               MintOf(u) \notin FeeBearing
        PROVE  bal[u][MintOf(u)] + DebtTo(positions, u)
                 <= bal'[u][MintOf(u)] + DebtTo(positions', u) + Nothing[u]
    <3>1. /\ MintOf(u) \in Mints /\ DebtTo(positions, u) \in Nat /\ Nothing[u] = 0
          /\ DebtTo(positions', u) = DebtTo(positions, u) + moved[u]
          /\ moved[u] \in Int /\ booked[u] \in Nat /\ moved[u] + booked[u] >= 0
      <4>1. MintOf(u) \in Mints
        BY <1>1, <2>1, UserFacts
      <4>2. DebtTo(positions, u) \in Nat
        BY <1>1, DebtNat
      <4>3. DebtTo(positions', u) = DebtTo(positions, u) + moved[u]
        BY <1>1, <1>9, DebtsMove
      <4>4. moved[u] \in Int /\ booked[u] \in Nat /\ moved[u] + booked[u] >= 0
        BY <1>2, <1>9
      <4>5. Nothing[u] = 0
        BY DEF Nothing
      <4>6. QED
        BY <4>1, <4>2, <4>3, <4>4, <4>5
    <3>2. bal[u][MintOf(u)] \in Nat /\ u \in Payees /\ paid[u] \in Nat
      <4>1. u \in Payees
        BY DEF Payees
      <4>2. bal[u][MintOf(u)] \in Nat
        BY <1>1, <3>1, OwnerSets DEF Balances, BalancesOf
      <4>3. QED
        BY <1>2, <4>1, <4>2
    <3>3. paid[u] = booked[u]
      <4>1. {i \in 1..n : payee[i] = u} = {i \in 1..n : supplied[i] = u}
        BY <2>1
      <4>2. QED
        BY <3>2, <4>1 DEF SumsBy
    <3>4. bal'[u][MintOf(u)] >= bal[u][MintOf(u)] + booked[u]
      <4>1. CASE MintOf(u) = t.mint
        <5>1. Arrives(MintOf(u), paid[u]) = booked[u]
          BY <2>1, <3>2, <3>3, ArrivesBounds
        <5>2. QED
          BY <1>7, <3>1, <3>2, <4>1, <5>1
      <4>2. CASE MintOf(u) # t.mint
        <5>1. ~(booked[u] > 0)
          <6> SUFFICES ASSUME booked[u] > 0 PROVE FALSE
            OBVIOUS
          <6>1. PICK i \in 1..n : supplied[i] = u
            BY <1>2
          <6>2. QED
            BY <4>2, <6>1
        <5>2. QED
          BY <1>7, <3>1, <3>2, <4>2, <5>1
      <4>3. QED
        BY <4>1, <4>2
    <3>5. bal'[u][MintOf(u)] \in Nat
      BY <1>8, <3>1, OwnerSets DEF Balances, BalancesOf
    <3>6. QED
      BY ONLY <3>1, <3>2, <3>4, <3>5
  <2>2. UNCHANGED <<config, users, withdraws, cliffs, ovault, now, carried, struck>>
    BY <1>3 DEF userVars
  <2>3. QED
    BY <1>8, <1>9, <2>1, <2>2, UsersUntouched
<1>11. OrdersPart'
  <2>1. /\ orders'[key] = Core!TrackerRepaid(t, repay, total)
        /\ audit'[key].direct = audit[key].direct /\ audit'[key].recorded = audit[key].recorded
        /\ \A other \in OrderKeys \ {key} :
             orders'[other] = orders[other] /\ audit'[other] = audit[other]
    BY <1>3, <1>6, InvFacts DEF Core!History
  <2>2. ASSUME key \notin touched'
        PROVE  /\ LentOn(orders', key) = LentOn(orders, key) + SumFunctionOnSet(moved, Users)
               /\ orders'[key] # None => ~audit'[key].direct /\ ~audit'[key].recorded
    <3>1. key \notin touched /\ \A i, j \in 1..n : supplied[i] = supplied[j] => i = j
      BY <2>2
    <3>2. ~audit[key].direct /\ ~audit[key].recorded
      BY <1>3, <3>1 DEF LendingInv, OrdersPart, Clean, Open
    <3>3. SumFunctionOnSet(moved, Users) = -total
      <4>1. \A u \in Users : moved[u] = -booked[u]
        <5> SUFFICES ASSUME NEW u \in Users PROVE booked[u] <= Left(positions[<<key[2], u>>])
          BY <1>9
        <5>1. CASE booked[u] > 0
          <6>1. PICK i \in 1..n : supplied[i] = u
            BY <1>2, <5>1
          <6>2. booked[u] = shares[i] /\ shares[i] <= Left(positions[<<key[2], u>>])
            BY <1>2, <3>1, <6>1
          <6>3. QED
            BY <6>2
        <5>2. CASE ~(booked[u] > 0)
          <6>1. booked[u] = 0 /\ key[2] \in OrderIds
            BY <1>2, <5>2 DEF OrderKeys
          <6>2. Left(positions[<<key[2], u>>]) \in Nat
            BY <1>1, <6>1, LeftNat
          <6>3. QED
            BY <6>1, <6>2
        <5>3. QED
          BY <5>1, <5>2
      <4>2. Opposite(booked, moved)
        BY <1>2, <1>9, <4>1 DEF Opposite
      <4>3. QED
        BY <1>2, <4>2, SumOpposite
    <3>4. (IF orders'[key] # None THEN Core!LentOutstanding(orders'[key]) ELSE 0)
            = Core!LentOutstanding(t) - total
      <4>1. /\ repay > 0 /\ Core!SharesAccepted(t, repay, total)
            /\ repay <= Core!Outstanding(t)
            /\ t.amount_repaid + total <= MaxU64 /\ t.amount_in + repay <= MaxU64
        BY <1>3, SameSum DEF Core!Repayable, total
      <4>2. RepaidFairly(t, audit[key], repay, total)
        BY <1>1, <1>2, <1>6, <3>2, <4>1 DEF RepaidFairly
      <4>3. OwesLess(t, Core!TrackerRepaid(t, repay, total), total)
        BY <1>6, <4>2, RepaidOwes
      <4>4. QED
        BY <2>1, <4>3 DEF OwesLess
    <3>5. LentOn(orders, key) = Core!LentOutstanding(t) /\ Core!LentOutstanding(t) \in Int
      <4>1. t.amount_borrowed \in Int /\ t.amount_repaid \in Int
        BY <1>6 DEF Core!OrderTracker, Core!U64
      <4>2. QED
        BY <1>3, <4>1 DEF LentOn, Open, Core!LentOutstanding
    <3>6. LentOn(orders', key) = LentOn(orders, key) + SumFunctionOnSet(moved, Users)
      BY <1>2, <3>3, <3>4, <3>5 DEF LentOn
    <3>7. QED
      BY <2>1, <3>2, <3>6
  <2>3. /\ approved' \in [UserWallets -> Approval] /\ struck' = struck
        /\ touched \subseteq touched' /\ touched' \subseteq OrderKeys
    BY InvFacts
  <2>4. QED
    BY <1>5, <1>9, <2>1, <2>2, <2>3, OrdersPartKept
<1>12. QED
  BY <1>10, <1>11 DEF LendingInv

\* What a call books on each position is what it books for each lender of the order.
BookedOn(shares, n, key, supplied) ==
  [p \in OrderIds \X Users |->
     SumFunctionOnSet(shares, {i \in 1..n : <<key[2], supplied[i]>> = p})]

AllRepaid(ps, booked) ==
  [p \in OrderIds \X Users |->
     IF booked[p] > 0 THEN PositionRepaid(ps[p], booked[p]) ELSE ps[p]]

LEMMA BookedAsRepaid ==
  ASSUME NEW key \in OrderKeys, NEW n \in Nat, NEW shares \in [1..n -> Nat],
         NEW supplied \in [1..n -> Users], NEW ps
  PROVE  AllRepaid(ps, BookedOn(shares, n, key, supplied))
           = Repaid(ps, key, SumsBy(shares, 1..n, supplied, Users))
<1> DEFINE to == SumsBy(shares, 1..n, supplied, Users)
           booked == BookedOn(shares, n, key, supplied)
           after == AllRepaid(ps, booked)
<1>1. ASSUME NEW p \in OrderIds \X Users
      PROVE  after[p] = IF p[1] = key[2] /\ to[p[2]] > 0
                          THEN PositionRepaid(ps[p], to[p[2]]) ELSE ps[p]
  <2>1. p = <<p[1], p[2]>> /\ p[2] \in Users
    OBVIOUS
  <2>2. CASE p[1] = key[2]
    <3>1. {i \in 1..n : <<key[2], supplied[i]>> = p} = {i \in 1..n : supplied[i] = p[2]}
      BY <2>1, <2>2
    <3>2. booked[p] = to[p[2]]
      BY <2>1, <3>1 DEF SumsBy, BookedOn
    <3> HIDE DEF to, booked
    <3>3. QED
      BY <2>2, <3>2 DEF AllRepaid
  <2>3. CASE p[1] # key[2]
    <3>1. {i \in 1..n : <<key[2], supplied[i]>> = p} = {}
      BY <2>1, <2>3
    <3>2. booked[p] = SumFunctionOnSet(shares, {})
      BY <3>1 DEF BookedOn
    <3>3. booked[p] = 0
      BY <3>2, SumEmpty
    <3> HIDE DEF to, booked
    <3>4. QED
      BY <2>3, <3>3 DEF AllRepaid
  <2>4. QED
    BY <2>2, <2>3
<1> HIDE DEF to, booked
<1>2. Repaid(ps, key, to) = [p \in OrderIds \X Users |->
         IF p[1] = key[2] /\ to[p[2]] > 0 THEN PositionRepaid(ps[p], to[p[2]]) ELSE ps[p]]
  BY DEF Repaid
<1>3. QED
  BY <1>1, <1>2 DEF to, booked, AllRepaid

\* What repay may give to positions, and what it settles in all.
LEMMA RepayAmounts ==
  ASSUME NEW amount \in U64, NEW owed \in Nat, NEW lent \in Nat, owed \in U64,
         NEW remaining \in Seq(Nat \ {0}), NEW prepared, NEW cap,
         prepared = Min({amount, owed}), cap = RepayCap(prepared, remaining, lent)
  PROVE  /\ cap \in 0..Total(remaining)
         /\ cap + HouseShare(prepared, cap, lent) \in U64
<1>1. Total(remaining) \in Nat
  <2>1. remaining \in Seq(Nat)
    BY SeqDef
  <2>2. QED
    BY <2>1, TotalIsNat
<1>2. prepared \in Nat /\ prepared <= MaxU64
  <2>1. amount \in Int /\ owed \in Int /\ amount \in Nat /\ amount <= MaxU64
    BY WidthAssumption DEF U64
  <2>2. prepared \in {amount, owed} /\ prepared <= amount
    BY <2>1, LeastOfTwo
  <2>3. prepared \in Nat
    BY <2>1, <2>2
  <2>4. QED
    BY <2>1, <2>2, <2>3, WidthAssumption
<1>3. cap \in {Total(remaining), lent, prepared} /\ cap <= Total(remaining) /\ cap <= prepared
  <2>1. Total(remaining) \in Int /\ lent \in Int /\ prepared \in Int
    BY <1>1, <1>2
  <2>2. cap = Min({Total(remaining), lent, prepared})
    BY DEF RepayCap
  <2> DEFINE all == Total(remaining)
  <2> HIDE DEF all
  <2>3. all \in Int /\ cap = Min({all, lent, prepared})
    BY <2>1, <2>2 DEF all
  <2>4. LET m == Min({all, lent, prepared})
        IN  m \in {all, lent, prepared} /\ m <= all /\ m <= lent /\ m <= prepared
    <3>1. lent \in Int /\ prepared \in Int /\ all \in Int
      BY <2>1, <2>3
    <3>2. QED
      BY ONLY <3>1, LeastOfThree
  <2>5. QED
    BY <2>3, <2>4 DEF all
<1>4. cap \in Nat
  BY <1>1, <1>2, <1>3
<1>5. HouseShare(prepared, cap, lent) \in 0..(prepared - cap)
  BY <1>2, <1>3, <1>4 DEF HouseShare
<1>6. QED
  BY <1>1, <1>2, <1>3, <1>4, <1>5, WidthAssumption DEF U64

\* A repayment settles `repay` and gives shares within what positions are owed, to the
\* custody account of an ICV lender or to a wallet of another one.
PaysLenders(n, shares, supplied, payee) ==
  \A i \in 1..n :
    shares[i] > 0 =>
      /\ Registered(supplied[i])
      /\ IF users[supplied[i]].user_type = "ICV" THEN payee[i] = supplied[i]
                                                 ELSE payee[i] \in users[supplied[i]].wallets

RepayPays(key, amount, supplied, repay, n, shares, payee, booked, paid) ==
  /\ repay \in U64
  /\ Shared(n, shares, supplied, payee, booked, paid)
  /\ SharesOwed(key, n, supplied, payee, shares)
  /\ PaysLenders(n, shares, supplied, payee)
  /\ Core!ReplenishAndRepay(key, amount, repay, paid)
  /\ positions' = Repaid(positions, key, booked)
  /\ touched' = IF NamedOnce(n, supplied) THEN touched ELSE touched \cup {key}
  /\ UNCHANGED <<userVars, approved, struck>>

LEMMA RepayMeans ==
  ASSUME LendingInv, NEW signer \in Keys, NEW key \in OrderKeys, NEW amount \in Amounts,
         NEW supplied \in SeqOf(Users, MaxOperations),
         NEW wallets \in [DOMAIN supplied -> UserWallets],
         Repay(signer, key, supplied, wallets, amount)
  PROVE  \E repay, n, shares, payee, booked, paid :
           RepayPays(key, amount, supplied, repay, n, shares, payee, booked, paid)
<1> DEFINE n == Len(supplied)
           t == orders[key]
           owed == Core!Outstanding(t)
           lent == Core!LentOutstanding(t)
           remaining == [i \in 1..n |-> Remaining(key[2], supplied[i])]
           prepared == Min({amount, owed})
           cap == RepayCap(prepared, remaining, lent)
           repay == cap + HouseShare(prepared, cap, lent)
           shares == Shares(cap, remaining)
           payee == [i \in 1..n |-> IF users[supplied[i]].user_type = "ICV"
                                      THEN supplied[i] ELSE wallets[i]]
           on == BookedOn(shares, n, key, supplied)
           booked == SumsBy(shares, 1..n, supplied, Users)
           paid == SumsBy(shares, 1..n, payee, Payees)
<1>1. /\ n \in Nat /\ supplied \in [1..n -> Users] /\ DOMAIN supplied = 1..n
      /\ wallets \in [1..n -> UserWallets]
      /\ amount \in U64 /\ key[1] \in Partners /\ key[2] \in OrderIds
      /\ PositionsOK(positions)
  BY SequencesOf, UsersAssumption, InvFacts DEF OrderKeys
<1>2. /\ Open(key) /\ t.amount_in <= t.amount_out /\ lent >= 0
      /\ \A i \in 1..n : /\ MintOf(supplied[i]) = t.mint /\ Lends(key, supplied[i])
                         /\ Registered(supplied[i])
      /\ touched' = IF IsInjective(supplied) THEN touched ELSE touched \cup {key}
      /\ UNCHANGED <<userVars, approved, struck>>
      /\ PayOut(key, supplied, wallets, amount, repay, shares)
  BY <1>1 DEF Repay, RepayAccounts
<1>3. /\ t \in Core!OrderTracker /\ owed \in Nat /\ owed \in U64 /\ lent \in Nat
  <2>1. t \in Core!OrderTracker
    BY <1>2, OpenFacts
  <2>2. /\ t.amount_in \in Nat /\ t.amount_out \in Nat /\ t.amount_out <= MaxU64
        /\ t.amount_borrowed \in Nat /\ t.amount_repaid \in Nat
    BY <2>1, WidthAssumption DEF Core!OrderTracker, Core!U64
  <2>3. owed \in 0..MaxU64
    BY <1>2, <2>2, WidthAssumption DEF Core!Outstanding
  <2>4. lent \in Nat
    BY <1>2, <2>2 DEF Core!LentOutstanding
  <2>5. QED
    BY <2>1, <2>3, <2>4, WidthAssumption DEF U64
<1>4. ASSUME NEW i \in 1..n
      PROVE  /\ Lending(positions, key, supplied[i])
             /\ remaining[i] = Left(positions[<<key[2], supplied[i]>>])
             /\ remaining[i] \in Nat \ {0}
  <2>1. supplied[i] \in Users /\ Lending(positions, key, supplied[i])
    BY <1>1, <1>2 DEF Lends, HasPosition, Lending
  <2>2. remaining[i] = Left(positions[<<key[2], supplied[i]>>])
    BY <2>1 DEF Remaining, Left, Lending
  <2>3. Left(positions[<<key[2], supplied[i]>>]) \in Nat \ {0}
    <3>1. Left(positions[<<key[2], supplied[i]>>]) \in Nat
      BY <1>1, <2>1, LeftNat
    <3>2. Left(positions[<<key[2], supplied[i]>>]) > 0
      BY <1>1, <2>1 DEF Lending, PositionsOK
    <3>3. QED
      BY <3>1, <3>2
  <2>4. QED
    BY <2>1, <2>2, <2>3
<1>5. remaining \in Seq(Nat \ {0}) /\ Len(remaining) = n
  <2>1. remaining \in [1..n -> Nat \ {0}]
    BY <1>4
  <2> HIDE DEF remaining, n
  <2>2. QED
    BY <1>1, <2>1, SeqDef, LenProperties
<1>6. cap \in 0..Total(remaining) /\ repay \in U64
  <2> HIDE DEF remaining, owed, lent
  <2>1. QED
    BY <1>1, <1>3, <1>5, RepayAmounts
<1>7. shares \in [1..n -> Nat] /\ \A i \in 1..n : shares[i] <= remaining[i]
  <2> HIDE DEF remaining, cap
  <2>1. QED
    BY <1>5, <1>6, SharesWithin
<1>8. payee \in [1..n -> Payees]
  BY <1>1 DEF Payees
<1>9. \A u \in Users : Registered(u) /\ users[u].user_type = "ICV" =>
        \A i \in 1..n : payee[i] = u <=> supplied[i] = u
  BY <1>1, UsersAssumption, OwnerSets
<1>10. /\ positions' = AllRepaid(positions, on)
       /\ Core!ReplenishAndRepay(key, amount, repay, paid)
       /\ \A i \in 1..n :
            shares[i] > 0 /\ payee[i] # supplied[i] => payee[i] \in users[supplied[i]].wallets
  <2>1. DOMAIN shares = 1..n
    BY <1>7
  <2> HIDE DEF shares, remaining, cap, repay
  <2>2. QED
    BY <1>1, <1>2, <2>1 DEF PayOut, SumsBy, Payees, AllRepaid, BookedOn
<1>15. PaysLenders(n, shares, supplied, payee)
  <2>1. ASSUME NEW i \in 1..n, shares[i] > 0
        PROVE  /\ Registered(supplied[i])
               /\ IF users[supplied[i]].user_type = "ICV"
                    THEN payee[i] = supplied[i] ELSE payee[i] \in users[supplied[i]].wallets
    <3>1. Registered(supplied[i])
      BY <1>2
    <3>2. CASE users[supplied[i]].user_type = "ICV"
      BY <3>1, <3>2
    <3>3. CASE users[supplied[i]].user_type # "ICV"
      <4>1. payee[i] = wallets[i] /\ wallets[i] \in UserWallets /\ supplied[i] \in Users
        BY <1>1, <3>3
      <4>2. payee[i] # supplied[i]
        BY <4>1, OwnerSets
      <4>3. QED
        BY <1>10, <2>1, <3>1, <3>3, <4>2
    <3>4. QED
      BY <3>2, <3>3
  <2> HIDE DEF shares, payee, n
  <2>2. QED
    BY <2>1 DEF PaysLenders
<1> HIDE DEF shares, remaining, cap, repay, payee, n, prepared, owed, lent
<1>11. positions' = Repaid(positions, key, booked)
  BY <1>1, <1>7, <1>10, BookedAsRepaid
<1>12. Shared(n, shares, supplied, payee, booked, paid)
  BY <1>1, <1>7, <1>8 DEF Shared
<1>13. touched' = IF NamedOnce(n, supplied) THEN touched ELSE touched \cup {key}
  BY <1>1, <1>2 DEF IsInjective, NamedOnce
<1>14. SharesOwed(key, n, supplied, payee, shares)
  BY <1>2, <1>4, <1>7, <1>9 DEF SharesOwed
<1> HIDE DEF booked, paid, on
<1>16. RepayPays(key, amount, supplied, repay, n, shares, payee, booked, paid)
  BY <1>2, <1>6, <1>10, <1>11, <1>12, <1>13, <1>14, <1>15 DEF RepayPays
<1>17. QED
  BY <1>16

LEMMA RepayStep ==
  ASSUME LendingInv, NEW signer \in Keys, NEW key \in OrderKeys, NEW amount \in Amounts,
         NEW supplied \in SeqOf(Users, MaxOperations),
         NEW wallets \in [DOMAIN supplied -> UserWallets],
         Repay(signer, key, supplied, wallets, amount)
  PROVE  LendingInv'
<1>1. PICK repay, n, shares, payee, booked, paid :
        RepayPays(key, amount, supplied, repay, n, shares, payee, booked, paid)
  BY RepayMeans
<1>2. amount \in U64
  BY UsersAssumption
<1>3. QED
  BY <1>1, <1>2, PayOutStep DEF RepayPays
=============================================================================
