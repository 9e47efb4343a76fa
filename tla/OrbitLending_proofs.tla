------------------------ MODULE OrbitLending_proofs ------------------------
(***************************************************************************)
(* Theorems about OrbitLending.  LendingBooks_proofs shows of every step   *)
(* but a claim that it keeps the inductive invariant; a claim is a loop,   *)
(* with an invariant of its own, and comes here.                           *)
(***************************************************************************)
EXTENDS LendingBooks_proofs

-----------------------------------------------------------------------------
(***************************************************************************)
(* The ledger of OneLedger, as a function of any balances, orders and      *)
(* positions: the house's part of a debt, the whole of it, what a partner  *)
(* has to pay with and what a user holds.                                  *)
(***************************************************************************)
HouseOn(os, key) ==
  IF os[key] # None THEN Core!Outstanding(os[key]) - Core!LentOutstanding(os[key]) ELSE 0
AllOn(os, key) == IF os[key] # None THEN Core!Outstanding(os[key]) ELSE 0

PurseOf(b, owner) == SumFunctionOnSet(b[owner], Mints)
PursesOf(b) == [owner \in Holders |-> PurseOf(b, owner)]

HandOf(b, u) ==
  IF ~Registered(u) THEN 0
  ELSE SumFunctionOnSet(PursesOf(b), users[u].wallets)
         + IF users[u].user_type = "ICV" THEN PurseOf(b, u) ELSE 0

AllFalls(os, oss) == [key \in OrderKeys |-> AllOn(os, key) - AllOn(oss, key)]
LoanFalls(ps, qs, u) == [key \in OrderKeys |-> LoanOn(ps, key, u) - LoanOn(qs, key, u)]

\* The orders of one partner among `keys`.
OrdersOf(keys, partner) == {key \in keys : key[1] = partner}

\* No debt rises or falls below nothing, and the house comes after the lenders.
DebtsFall(keys, os, ps, oss, qs) ==
  \A key \in keys :
    /\ HouseOn(oss, key) <= HouseOn(os, key)
    /\ HouseOn(os, key) >= 0 => HouseOn(oss, key) >= 0
    /\ \A u \in Users : LoanOn(qs, key, u) <= LoanOn(ps, key, u)
    /\ HouseOn(oss, key) # HouseOn(os, key) => \A u \in Users : LoanOn(qs, key, u) = 0

\* Partners give, and lenders get, at least what the debts on `keys` fall by.
PartnersPay(keys, b, os, bb, oss) ==
  \A partner \in Partners :
    SumFunctionOnSet(AllFalls(os, oss), OrdersOf(keys, partner))
      <= PurseOf(b, partner) - PurseOf(bb, partner)
LendersGet(keys, b, ps, bb, qs) ==
  \A u \in Users :
    SumFunctionOnSet(LoanFalls(ps, qs, u), keys) <= HandOf(bb, u) - HandOf(b, u)

PaidOff(keys, b, os, ps, bb, oss, qs) ==
  /\ DebtsFall(keys, os, ps, oss, qs)
  /\ PartnersPay(keys, b, os, bb, oss)
  /\ LendersGet(keys, b, ps, bb, qs)

\* Orders, positions and balances of their types.
OrdersTyped(os) == os \in [OrderKeys -> Core!OrderTracker \cup {None}]
BooksTyped(b, os, ps) == b \in Balances /\ OrdersTyped(os) /\ PositionsOK(ps)

LEMMA FiniteKeys == IsFiniteSet(OrderKeys)
BY CoreAssumption, FS_Product DEF OrderKeys

LEMMA DebtsAreInt ==
  ASSUME NEW os, OrdersTyped(os), NEW key \in OrderKeys
  PROVE  HouseOn(os, key) \in Int /\ AllOn(os, key) \in Int
<1>1. CASE os[key] = None
  BY <1>1 DEF HouseOn, AllOn
<1>2. CASE os[key] # None
  <2>1. os[key] \in Core!OrderTracker
    BY <1>2 DEF OrdersTyped
  <2>2. /\ os[key].amount_in \in Int /\ os[key].amount_out \in Int
        /\ os[key].amount_borrowed \in Int /\ os[key].amount_repaid \in Int
    BY <2>1 DEF Core!OrderTracker, Core!U64
  <2>3. QED
    BY <1>2, <2>2 DEF HouseOn, AllOn, Core!Outstanding, Core!LentOutstanding
<1>3. QED
  BY <1>1, <1>2

LEMMA PursesAreNat ==
  ASSUME NEW b \in Balances, NEW owner \in Holders
  PROVE  PurseOf(b, owner) \in Nat
<1> DEFINE f == b[owner]
<1>1. \A m \in Mints : f[m] \in Nat
  BY DEF Balances, BalancesOf
<1> HIDE DEF f
<1>2. SumFunctionOnSet(f, Mints) \in Nat
  BY <1>1, CoreAssumption, SumNat
<1>3. QED
  BY <1>2 DEF PurseOf, f

LEMMA WalletSets ==
  ASSUME UsersTypeOK, NEW u \in Users, Registered(u)
  PROVE  users[u].wallets \subseteq Holders /\ IsFiniteSet(users[u].wallets)
<1>1. users[u].wallets \subseteq UserWallets
  BY UserFacts
<1>2. users[u].wallets \subseteq Payees
  BY <1>1 DEF Payees
<1>3. QED
  BY <1>1, <1>2, OwnerSets, Finite, FS_Subset

LEMMA HandsAreNat ==
  ASSUME UsersTypeOK, NEW b \in Balances, NEW u \in Users
  PROVE  HandOf(b, u) \in Nat
<1>1. CASE ~Registered(u)
  BY <1>1 DEF HandOf
<1>2. CASE Registered(u)
  <2> DEFINE ws == users[u].wallets
             f == PursesOf(b)
  <2>1. ws \subseteq Holders /\ IsFiniteSet(ws) /\ u \in Holders
    BY <1>2, WalletSets, OwnerSets
  <2>2. \A w \in ws : f[w] \in Nat
    BY <2>1, PursesAreNat DEF PursesOf
  <2> HIDE DEF f, ws
  <2>3. SumFunctionOnSet(f, ws) \in Nat
    BY <2>1, <2>2, SumNat
  <2>4. PurseOf(b, u) \in Nat
    BY <2>1, PursesAreNat
  <2>5. QED
    BY <1>2, <2>3, <2>4 DEF HandOf, f, ws
<1>3. QED
  BY <1>1, <1>2

\* What falls by nothing or in two steps.
LEMMA FallsAreInt ==
  ASSUME NEW b, NEW os, NEW ps, BooksTyped(b, os, ps),
         NEW bb, NEW oss, NEW qs, BooksTyped(bb, oss, qs)
  PROVE  /\ \A key \in OrderKeys : AllFalls(os, oss)[key] \in Int
         /\ \A u \in Users, key \in OrderKeys : LoanFalls(ps, qs, u)[key] \in Int
<1>1. ASSUME NEW key \in OrderKeys
      PROVE  AllFalls(os, oss)[key] \in Int
  <2>1. AllOn(os, key) \in Int /\ AllOn(oss, key) \in Int
    BY DebtsAreInt DEF BooksTyped
  <2>2. QED
    BY <2>1 DEF AllFalls
<1>2. ASSUME NEW u \in Users, NEW key \in OrderKeys
      PROVE  LoanFalls(ps, qs, u)[key] \in Int
  <2>1. LoanOn(ps, key, u) \in Nat /\ LoanOn(qs, key, u) \in Nat
    BY LeftNat DEF BooksTyped
  <2>2. QED
    BY <2>1 DEF LoanFalls
<1>3. QED
  BY <1>1, <1>2

\* No debt falls, partners give or keep what they have, and users do not lose.
LEMMA NothingPaid ==
  ASSUME UsersTypeOK, NEW keys \in SUBSET OrderKeys, NEW os, NEW ps, NEW b, NEW bb,
         BooksTyped(b, os, ps), BooksTyped(bb, os, ps),
         \A partner \in Partners : PurseOf(bb, partner) <= PurseOf(b, partner),
         \A u \in Users : HandOf(b, u) <= HandOf(bb, u)
  PROVE  PaidOff(keys, b, os, ps, bb, os, ps)
<1>1. DebtsFall(keys, os, ps, os, ps)
  <2>1. ASSUME NEW key \in keys
        PROVE  /\ HouseOn(os, key) <= HouseOn(os, key)
               /\ HouseOn(os, key) >= 0 => HouseOn(os, key) >= 0
               /\ \A u \in Users : LoanOn(ps, key, u) <= LoanOn(ps, key, u)
    <3>1. HouseOn(os, key) \in Int
      BY DebtsAreInt DEF BooksTyped
    <3>2. \A u \in Users : LoanOn(ps, key, u) \in Nat
      BY LeftNat DEF BooksTyped
    <3>3. QED
      BY <3>1, <3>2
  <2>2. QED
    BY <2>1 DEF DebtsFall
<1>2. PartnersPay(keys, b, os, bb, os)
  <2>1. ASSUME NEW partner \in Partners
        PROVE  SumFunctionOnSet(AllFalls(os, os), OrdersOf(keys, partner))
                 <= PurseOf(b, partner) - PurseOf(bb, partner)
    <3> DEFINE f == AllFalls(os, os)
               ks == OrdersOf(keys, partner)
    <3>1. IsFiniteSet(ks) /\ ks \subseteq OrderKeys
      BY FiniteKeys, FS_Subset DEF OrdersOf
    <3>2. \A key \in ks : f[key] = 0
      BY <3>1, DebtsAreInt DEF AllFalls, BooksTyped
    <3> HIDE DEF f, ks
    <3>3. SumFunctionOnSet(f, ks) = 0
      BY <3>1, <3>2, SumZero
    <3>4. PurseOf(b, partner) \in Nat /\ PurseOf(bb, partner) \in Nat
      BY PursesAreNat, OwnerSets DEF BooksTyped
    <3>5. QED
      BY <3>3, <3>4 DEF f, ks
  <2>2. QED
    BY <2>1 DEF PartnersPay
<1>3. LendersGet(keys, b, ps, bb, ps)
  <2>1. ASSUME NEW u \in Users
        PROVE  SumFunctionOnSet(LoanFalls(ps, ps, u), keys) <= HandOf(bb, u) - HandOf(b, u)
    <3> DEFINE f == LoanFalls(ps, ps, u)
    <3>1. IsFiniteSet(keys)
      BY FiniteKeys, FS_Subset
    <3>2. \A key \in keys : f[key] = 0
      BY LeftNat DEF LoanFalls, BooksTyped
    <3> HIDE DEF f
    <3>3. SumFunctionOnSet(f, keys) = 0
      BY <3>1, <3>2, SumZero
    <3>4. HandOf(b, u) \in Nat /\ HandOf(bb, u) \in Nat
      BY HandsAreNat DEF BooksTyped
    <3>5. QED
      BY <3>3, <3>4 DEF f
  <2>2. QED
    BY <2>1 DEF LendersGet
<1>4. QED
  BY <1>1, <1>2, <1>3 DEF PaidOff

\* What is paid in two steps is paid.
LEMMA PaidOffTwice ==
  ASSUME UsersTypeOK, NEW keys \in SUBSET OrderKeys,
         NEW b, NEW os, NEW ps, BooksTyped(b, os, ps),
         NEW b1, NEW os1, NEW ps1, BooksTyped(b1, os1, ps1),
         NEW b2, NEW os2, NEW ps2, BooksTyped(b2, os2, ps2),
         PaidOff(keys, b, os, ps, b1, os1, ps1),
         PaidOff(keys, b1, os1, ps1, b2, os2, ps2)
  PROVE  PaidOff(keys, b, os, ps, b2, os2, ps2)
<1>1. IsFiniteSet(keys)
  BY FiniteKeys, FS_Subset
<1>2. DebtsFall(keys, os, ps, os2, ps2)
  <2>1. ASSUME NEW key \in keys
        PROVE  /\ HouseOn(os2, key) <= HouseOn(os, key)
               /\ HouseOn(os, key) >= 0 => HouseOn(os2, key) >= 0
               /\ \A u \in Users : LoanOn(ps2, key, u) <= LoanOn(ps, key, u)
               /\ HouseOn(os2, key) # HouseOn(os, key)
                    => \A u \in Users : LoanOn(ps2, key, u) = 0
    <3>1. /\ HouseOn(os, key) \in Int /\ HouseOn(os1, key) \in Int /\ HouseOn(os2, key) \in Int
      BY DebtsAreInt DEF BooksTyped
    <3>2. \A u \in Users : /\ LoanOn(ps, key, u) \in Nat /\ LoanOn(ps1, key, u) \in Nat
                           /\ LoanOn(ps2, key, u) \in Nat
      BY LeftNat DEF BooksTyped
    <3>3. /\ HouseOn(os1, key) <= HouseOn(os, key) /\ HouseOn(os2, key) <= HouseOn(os1, key)
          /\ HouseOn(os, key) >= 0 => HouseOn(os1, key) >= 0
          /\ HouseOn(os1, key) >= 0 => HouseOn(os2, key) >= 0
          /\ \A u \in Users : /\ LoanOn(ps1, key, u) <= LoanOn(ps, key, u)
                              /\ LoanOn(ps2, key, u) <= LoanOn(ps1, key, u)
          /\ HouseOn(os1, key) # HouseOn(os, key) => \A u \in Users : LoanOn(ps1, key, u) = 0
          /\ HouseOn(os2, key) # HouseOn(os1, key) => \A u \in Users : LoanOn(ps2, key, u) = 0
      BY DEF PaidOff, DebtsFall
    <3>4. /\ HouseOn(os2, key) <= HouseOn(os, key)
          /\ HouseOn(os, key) >= 0 => HouseOn(os2, key) >= 0
      BY <3>1, <3>3
    <3>5. \A u \in Users : LoanOn(ps2, key, u) <= LoanOn(ps, key, u)
      BY <3>2, <3>3
    <3>6. ASSUME HouseOn(os2, key) # HouseOn(os, key), NEW u \in Users
          PROVE  LoanOn(ps2, key, u) = 0
      <4>1. HouseOn(os1, key) # HouseOn(os, key) \/ HouseOn(os2, key) # HouseOn(os1, key)
        BY <3>6
      <4>2. LoanOn(ps1, key, u) = 0 \/ LoanOn(ps2, key, u) = 0
        BY <3>3, <4>1
      <4>3. LoanOn(ps2, key, u) <= LoanOn(ps1, key, u)
        BY <3>3
      <4>4. QED
        BY <3>2, <4>2, <4>3
    <3>7. QED
      BY <3>4, <3>5, <3>6
  <2>2. QED
    BY <2>1 DEF DebtsFall
<1>3. PartnersPay(keys, b, os, b2, os2)
  <2>1. ASSUME NEW partner \in Partners
        PROVE  SumFunctionOnSet(AllFalls(os, os2), OrdersOf(keys, partner))
                 <= PurseOf(b, partner) - PurseOf(b2, partner)
    <3> DEFINE f == AllFalls(os, os1)
               g == AllFalls(os1, os2)
               h == AllFalls(os, os2)
               ks == OrdersOf(keys, partner)
    <3>1. IsFiniteSet(ks) /\ ks \subseteq OrderKeys
      BY <1>1, FS_Subset DEF OrdersOf
    <3>2. \A key \in ks : f[key] \in Int /\ g[key] \in Int /\ h[key] = f[key] + g[key]
      <4>1. ASSUME NEW key \in ks
            PROVE  f[key] \in Int /\ g[key] \in Int /\ h[key] = f[key] + g[key]
        <5>1. key \in OrderKeys
          BY <3>1
        <5>2. AllOn(os, key) \in Int /\ AllOn(os1, key) \in Int /\ AllOn(os2, key) \in Int
          BY <5>1, DebtsAreInt DEF BooksTyped
        <5>3. QED
          BY <5>1, <5>2 DEF AllFalls
      <4>2. QED
        BY <4>1
    <3>3. /\ SumFunctionOnSet(f, ks) <= PurseOf(b, partner) - PurseOf(b1, partner)
          /\ SumFunctionOnSet(g, ks) <= PurseOf(b1, partner) - PurseOf(b2, partner)
      BY DEF PaidOff, PartnersPay
    <3> HIDE DEF f, g, h, ks
    <3>4. SumFunctionOnSet(h, ks) = SumFunctionOnSet(f, ks) + SumFunctionOnSet(g, ks)
      BY <3>1, <3>2, SumPlus
    <3>5. SumFunctionOnSet(f, ks) \in Int /\ SumFunctionOnSet(g, ks) \in Int
      BY <3>1, <3>2, SumInt
    <3>6. /\ PurseOf(b, partner) \in Nat /\ PurseOf(b1, partner) \in Nat
          /\ PurseOf(b2, partner) \in Nat
      BY PursesAreNat, OwnerSets DEF BooksTyped
    <3>7. SumFunctionOnSet(h, ks) <= PurseOf(b, partner) - PurseOf(b2, partner)
      BY ONLY <3>3, <3>4, <3>5, <3>6
    <3>8. QED
      BY <3>7 DEF h, ks
  <2>2. QED
    BY <2>1 DEF PartnersPay
<1>4. LendersGet(keys, b, ps, b2, ps2)
  <2>1. ASSUME NEW u \in Users
        PROVE  SumFunctionOnSet(LoanFalls(ps, ps2, u), keys) <= HandOf(b2, u) - HandOf(b, u)
    <3> DEFINE f == LoanFalls(ps, ps1, u)
               g == LoanFalls(ps1, ps2, u)
               h == LoanFalls(ps, ps2, u)
    <3>1. \A key \in keys : f[key] \in Int /\ g[key] \in Int /\ h[key] = f[key] + g[key]
      <4>1. ASSUME NEW key \in keys
            PROVE  f[key] \in Int /\ g[key] \in Int /\ h[key] = f[key] + g[key]
        <5>1. /\ LoanOn(ps, key, u) \in Nat /\ LoanOn(ps1, key, u) \in Nat
              /\ LoanOn(ps2, key, u) \in Nat
          BY LeftNat DEF BooksTyped
        <5>2. QED
          BY <5>1 DEF LoanFalls
      <4>2. QED
        BY <4>1
    <3>2. /\ SumFunctionOnSet(f, keys) <= HandOf(b1, u) - HandOf(b, u)
          /\ SumFunctionOnSet(g, keys) <= HandOf(b2, u) - HandOf(b1, u)
      BY DEF PaidOff, LendersGet
    <3> HIDE DEF f, g, h
    <3>3. SumFunctionOnSet(h, keys) = SumFunctionOnSet(f, keys) + SumFunctionOnSet(g, keys)
      BY <1>1, <3>1, SumPlus
    <3>4. SumFunctionOnSet(f, keys) \in Int /\ SumFunctionOnSet(g, keys) \in Int
      BY <1>1, <3>1, SumInt
    <3>5. HandOf(b, u) \in Nat /\ HandOf(b1, u) \in Nat /\ HandOf(b2, u) \in Nat
      BY HandsAreNat DEF BooksTyped
    <3>6. SumFunctionOnSet(h, keys) <= HandOf(b2, u) - HandOf(b, u)
      BY ONLY <3>2, <3>3, <3>4, <3>5
    <3>7. QED
      BY <3>6 DEF h
  <2>2. QED
    BY <2>1 DEF LendersGet
<1>5. QED
  BY <1>2, <1>3, <1>4 DEF PaidOff

\* One order is paid: what its partner gives and its lenders get.
OthersKept(key, os, ps, oss, qs) ==
  \A other \in OrderKeys \ {key} :
    oss[other] = os[other] /\ \A u \in Users : LoanOn(qs, other, u) = LoanOn(ps, other, u)

OrderPaid(key, b, os, ps, bb, oss, qs) ==
  /\ DebtsFall({key}, os, ps, oss, qs)
  /\ AllOn(os, key) - AllOn(oss, key) <= PurseOf(b, key[1]) - PurseOf(bb, key[1])
  /\ \A u \in Users : LoanOn(ps, key, u) - LoanOn(qs, key, u) <= HandOf(bb, u) - HandOf(b, u)

LEMMA OneOrderPaid ==
  ASSUME UsersTypeOK, NEW keys \in SUBSET OrderKeys, NEW key \in OrderKeys,
         NEW b, NEW os, NEW ps, BooksTyped(b, os, ps),
         NEW bb, NEW oss, NEW qs, BooksTyped(bb, oss, qs),
         OthersKept(key, os, ps, oss, qs),
         key \in keys => OrderPaid(key, b, os, ps, bb, oss, qs),
         \A partner \in Partners : PurseOf(bb, partner) <= PurseOf(b, partner),
         \A u \in Users : HandOf(b, u) <= HandOf(bb, u)
  PROVE  PaidOff(keys, b, os, ps, bb, oss, qs)
<1>1. IsFiniteSet(keys)
  BY FiniteKeys, FS_Subset
<1>2. ASSUME NEW other \in OrderKeys \ {key}
      PROVE  /\ HouseOn(oss, other) = HouseOn(os, other) /\ AllOn(oss, other) = AllOn(os, other)
             /\ HouseOn(os, other) \in Int /\ AllOn(os, other) \in Int
             /\ \A u \in Users : /\ LoanOn(qs, other, u) = LoanOn(ps, other, u)
                                 /\ LoanOn(ps, other, u) \in Nat
  <2>1. oss[other] = os[other] /\ \A u \in Users : LoanOn(qs, other, u) = LoanOn(ps, other, u)
    BY DEF OthersKept
  <2>2. HouseOn(oss, other) = HouseOn(os, other) /\ AllOn(oss, other) = AllOn(os, other)
    BY <2>1 DEF HouseOn, AllOn
  <2>3. QED
    BY <2>1, <2>2, DebtsAreInt, LeftNat DEF BooksTyped
<1>3. DebtsFall(keys, os, ps, oss, qs)
  <2>1. ASSUME NEW k \in keys
        PROVE  /\ HouseOn(oss, k) <= HouseOn(os, k)
               /\ HouseOn(os, k) >= 0 => HouseOn(oss, k) >= 0
               /\ \A u \in Users : LoanOn(qs, k, u) <= LoanOn(ps, k, u)
               /\ HouseOn(oss, k) # HouseOn(os, k) => \A u \in Users : LoanOn(qs, k, u) = 0
    <3>1. CASE k = key
      BY <3>1 DEF OrderPaid, DebtsFall
    <3>2. CASE k # key
      BY <1>2, <3>2
    <3>3. QED
      BY <3>1, <3>2
  <2>2. QED
    BY <2>1 DEF DebtsFall
<1>4. PartnersPay(keys, b, os, bb, oss)
  <2>1. ASSUME NEW partner \in Partners
        PROVE  SumFunctionOnSet(AllFalls(os, oss), OrdersOf(keys, partner))
                 <= PurseOf(b, partner) - PurseOf(bb, partner)
    <3> DEFINE f == AllFalls(os, oss)
               ks == OrdersOf(keys, partner)
    <3>1. IsFiniteSet(ks) /\ ks \subseteq OrderKeys /\ ks \subseteq keys
      BY <1>1, FS_Subset DEF OrdersOf
    <3>2. PurseOf(b, partner) \in Nat /\ PurseOf(bb, partner) \in Nat
      BY PursesAreNat, OwnerSets DEF BooksTyped
    <3>3. \A k \in ks \ {key} : f[k] = 0
      BY <1>2, <3>1 DEF AllFalls
    <3>4. f[key] \in Int /\ f[key] = AllOn(os, key) - AllOn(oss, key)
      BY FallsAreInt DEF AllFalls
    <3>5. CASE key \in ks
      <4>1. partner = key[1] /\ key \in keys
        BY <3>5 DEF OrdersOf
      <4>2. f[key] <= PurseOf(b, partner) - PurseOf(bb, partner)
        BY <3>4, <4>1 DEF OrderPaid
      <4> HIDE DEF f, ks
      <4>3. SumFunctionOnSet(f, ks) = f[key]
        BY <3>1, <3>3, <3>4, <3>5, SumOnly
      <4>4. QED
        BY <4>2, <4>3 DEF f, ks
    <3>6. CASE key \notin ks
      <4>1. \A k \in ks : f[k] = 0
        BY <3>3, <3>6
      <4>2. PurseOf(bb, partner) <= PurseOf(b, partner)
        OBVIOUS
      <4> HIDE DEF f, ks
      <4>3. SumFunctionOnSet(f, ks) = 0
        BY <3>1, <4>1, SumZero
      <4>4. SumFunctionOnSet(f, ks) <= PurseOf(b, partner) - PurseOf(bb, partner)
        BY ONLY <3>2, <4>2, <4>3
      <4>5. QED
        BY <4>4 DEF f, ks
    <3>7. QED
      BY <3>5, <3>6
  <2>2. QED
    BY <2>1 DEF PartnersPay
<1>5. LendersGet(keys, b, ps, bb, qs)
  <2>1. ASSUME NEW u \in Users
        PROVE  SumFunctionOnSet(LoanFalls(ps, qs, u), keys) <= HandOf(bb, u) - HandOf(b, u)
    <3> DEFINE f == LoanFalls(ps, qs, u)
    <3>1. HandOf(b, u) \in Nat /\ HandOf(bb, u) \in Nat /\ HandOf(b, u) <= HandOf(bb, u)
      BY HandsAreNat DEF BooksTyped
    <3>2. \A k \in keys \ {key} : f[k] = 0
      BY <1>2 DEF LoanFalls
    <3>3. f[key] \in Int /\ f[key] = LoanOn(ps, key, u) - LoanOn(qs, key, u)
      BY FallsAreInt DEF LoanFalls
    <3>4. key \in keys => f[key] <= HandOf(bb, u) - HandOf(b, u)
      BY <3>3 DEF OrderPaid
    <3> HIDE DEF f
    <3>5. CASE key \in keys
      <4>1. SumFunctionOnSet(f, keys) = f[key]
        BY <1>1, <3>2, <3>3, <3>5, SumOnly
      <4>2. QED
        BY <3>4, <3>5, <4>1 DEF f
    <3>6. CASE key \notin keys
      <4>1. SumFunctionOnSet(f, keys) = 0
        BY <1>1, <3>2, <3>6, SumZero
      <4>2. SumFunctionOnSet(f, keys) <= HandOf(bb, u) - HandOf(b, u)
        BY ONLY <3>1, <4>1
      <4>3. QED
        BY <4>2 DEF f
    <3>7. QED
      BY <3>5, <3>6
  <2>2. QED
    BY <2>1 DEF LendersGet
<1>6. QED
  BY <1>3, <1>4, <1>5 DEF PaidOff

\* An account whose holding of one mint moves moves by as much in all.
HoldingMoves(b, bb, owner, mint, d) ==
  d \in Int /\ bb[owner] = [b[owner] EXCEPT ![mint] = @ + d]

LEMMA PurseMoves ==
  ASSUME NEW b \in Balances, NEW bb \in Balances, NEW owner \in Holders, NEW mint \in Mints,
         NEW d, HoldingMoves(b, bb, owner, mint, d)
  PROVE  PurseOf(bb, owner) = PurseOf(b, owner) + d
<1> DEFINE f == b[owner]
           g == [m \in Mints |-> IF m = mint THEN d ELSE 0]
           h == bb[owner]
<1>1. f \in [Mints -> Nat]
  BY DEF Balances, BalancesOf
<1>2. \A m \in Mints : f[m] \in Int /\ g[m] \in Int /\ h[m] = f[m] + g[m]
  BY <1>1 DEF HoldingMoves
<1>3. g[mint] = d /\ \A m \in Mints \ {mint} : g[m] = 0
  OBVIOUS
<1> HIDE DEF f, g, h
<1>4. SumFunctionOnSet(h, Mints) = SumFunctionOnSet(f, Mints) + SumFunctionOnSet(g, Mints)
  BY <1>2, CoreAssumption, SumPlus
<1>5. SumFunctionOnSet(g, Mints) = d
  BY <1>2, <1>3, CoreAssumption, SumOnly
<1>6. QED
  BY <1>4, <1>5 DEF PurseOf, f, h

\* What a transfer does to an owner's account in the mint.
Sent(from, to, mint, amount, owner) ==
  IF owner = from THEN -amount ELSE IF owner = to THEN Arrives(mint, amount) ELSE 0

LEMMA TransferMoves ==
  ASSUME NEW b \in Balances, NEW from \in Holders, NEW to \in Holders, from # to,
         NEW mint \in Mints, NEW amount \in Nat, NEW owner \in Holders
  PROVE  HoldingMoves(b, Transfer(b, from, to, mint, amount), owner, mint,
                      Sent(from, to, mint, amount, owner))
<1> DEFINE debited == [b EXCEPT ![from][mint] = @ - amount]
           arriving == Arrives(mint, amount)
           after == Transfer(b, from, to, mint, amount)
           d == Sent(from, to, mint, amount, owner)
<1>1. after = [debited EXCEPT ![to][mint] = @ + arriving]
  BY DEF Transfer
<1>2. /\ b \in [Holders -> [Mints -> Nat]] /\ b[owner] \in [Mints -> Nat]
      /\ b[owner][mint] \in Nat /\ arriving \in Nat
  BY ArrivesBounds DEF Balances, BalancesOf
<1>3. DOMAIN debited = Holders /\ DOMAIN b = Holders
  BY <1>2
<1>4. d = IF owner = from THEN -amount ELSE IF owner = to THEN arriving ELSE 0
  BY DEF Sent
<1> HIDE DEF arriving, after, d
<1>5. after[owner] = [b[owner] EXCEPT ![mint] = @ + d]
  <2>1. CASE owner = from
    <3>1. debited[owner] = [b[owner] EXCEPT ![mint] = @ - amount]
      BY <1>3, <2>1
    <3>2. after[owner] = debited[owner]
      BY <1>1, <1>3, <2>1
    <3>3. b[owner][mint] - amount = b[owner][mint] + d
      BY <1>2, <1>4, <2>1
    <3>4. QED
      BY <3>1, <3>2, <3>3
  <2>2. CASE owner = to
    <3>1. debited[owner] = b[owner] /\ d = arriving
      BY <1>3, <1>4, <2>2
    <3>2. after[owner] = [debited[owner] EXCEPT ![mint] = @ + arriving]
      BY <1>1, <1>3, <2>2
    <3>3. QED
      BY <3>1, <3>2
  <2>3. CASE owner # from /\ owner # to
    <3>1. after[owner] = b[owner] /\ d = 0
      BY <1>1, <1>3, <1>4, <2>3
    <3>2. [b[owner] EXCEPT ![mint] = @ + 0] = b[owner]
      BY <1>2
    <3>3. QED
      BY <3>1, <3>2
  <2>4. QED
    BY <2>1, <2>2, <2>3
<1>6. d \in Int
  BY <1>2, <1>4
<1>7. QED
  BY <1>5, <1>6 DEF HoldingMoves, after, d

\* What a repayment does to an owner's account in the order's mint.
Flow(key, t, amount, shares, owner) ==
  (IF owner = key[1] THEN -amount
   ELSE IF owner = t.zynk_op_vault THEN Arrives(t.mint, amount) - SumFunction(shares) ELSE 0)
  + (IF owner \in Payees THEN Arrives(t.mint, shares[owner]) ELSE 0)

LEMMA RepaymentFlows ==
  ASSUME Core!TypeOK, Core!Running, NEW b \in Balances, NEW key \in OrderKeys,
         NEW t \in Core!OrderTracker, Core!Ledger(t), NEW amount \in Nat, NEW repay \in Nat,
         NEW shares \in [Payees -> U64],
         Core!Repayable(b, key, t, amount, repay, shares), NEW owner \in Holders
  PROVE  HoldingMoves(b, Core!BalancesRepaid(b, key, t, amount, shares), owner, t.mint,
                      Flow(key, t, amount, shares, owner))
<1> DEFINE zov == t.zynk_op_vault
           mint == t.mint
           total == SumFunction(shares)
           pulled == Transfer(b, key[1], zov, mint, amount)
           paid == Core!BalancesRepaid(b, key, t, amount, shares)
           d1 == IF owner = key[1] THEN -amount
                 ELSE IF owner = zov THEN Arrives(mint, amount) ELSE 0
           d2 == IF owner = zov THEN total ELSE 0
           d3 == IF owner \in Payees THEN Arrives(mint, shares[owner]) ELSE 0
<1>1. mint \in Mints /\ zov \in Zovs
  <2>1. CoreP!Repayable(b, key, t, amount, repay, shares) /\ CoreP!TypeOK /\ CoreP!Running
        /\ CoreP!Ledger(t) /\ t \in CoreP!OrderTracker
    BY SameTypes, SameRepayment
  <2>2. QED
    BY <2>1, CoreP!PayableOrder, CoreAssumptions DEF CoreP!Repayable, CoreP!Running
<1>2. /\ key[1] \in Partners /\ key[1] \in Holders /\ zov \in Holders /\ key[1] # zov
  BY <1>1, OwnerSets, CoreAssumptions DEF OrderKeys
<1>3. b \in [Holders -> [Mints -> Nat]] /\ Arrives(mint, amount) \in Nat /\ total \in Nat
  BY CoreRepayment, ArrivesBounds DEF Balances, BalancesOf
<1>4. paid[owner] = [pulled[owner] EXCEPT ![mint] = @ - d2 + d3]
  <2>1. Holders = Core!Accounts
    BY LendingAssumption
  <2>2. Core!Transfer(b, key[1], zov, mint, amount) = pulled
    BY DEF Core!Transfer, Core!Arrives, Transfer, Arrives
  <2>3. paid = Core!PayShares(pulled, zov, mint, shares, total)
    BY <2>2, SameSum DEF Core!BalancesRepaid
  <2>4. (IF owner \in Users \cup UserWallets \cup {OrbitVault}
           THEN Core!Arrives(mint, shares[owner]) ELSE 0) = d3
    BY DEF Core!Arrives, Arrives, Payees
  <2> HIDE DEF pulled, paid, total, mint, zov, d3
  <2>5. QED
    BY <2>1, <2>3, <2>4 DEF Core!PayShares
<1>5. d3 \in Nat
  <2>1. CASE owner \in Payees
    <3>1. shares[owner] \in Nat
      BY <2>1, WidthAssumption DEF U64
    <3>2. QED
      BY <2>1, <3>1, ArrivesBounds
  <2>2. QED
    BY <2>1
<1>6. d1 \in Int /\ d2 \in Int
  BY <1>3
<1>7. pulled[owner] = [b[owner] EXCEPT ![mint] = @ + d1]
  <2>1. HoldingMoves(b, pulled, owner, mint, d1)
    BY <1>1, <1>2, TransferMoves DEF Sent
  <2>2. QED
    BY <2>1 DEF HoldingMoves
<1>8. Flow(key, t, amount, shares, owner) = d1 - d2 + d3
  <2> DEFINE arriving == Arrives(mint, amount)
             share == d3
  <2>1. Flow(key, t, amount, shares, owner)
          = (IF owner = key[1] THEN -amount ELSE IF owner = zov THEN arriving - total ELSE 0)
            + share
    BY DEF Flow
  <2>2. arriving \in Nat /\ total \in Nat /\ share \in Nat
    BY <1>3, <1>5
  <2>3. d1 = (IF owner = key[1] THEN -amount ELSE IF owner = zov THEN arriving ELSE 0)
    OBVIOUS
  <2> HIDE DEF arriving, total, share, zov, d1
  <2>4. (IF owner = key[1] THEN -amount ELSE IF owner = zov THEN arriving - total ELSE 0)
          = d1 - d2
    BY <1>2, <2>2, <2>3
  <2>5. QED
    BY <1>6, <2>1, <2>2, <2>4 DEF share
<1> DEFINE f == b[owner]
<1>9. f \in [Mints -> Nat]
  BY <1>3
<1> HIDE DEF pulled, paid, d1, d2, d3, mint, total, zov, f
<1>10. [[f EXCEPT ![mint] = @ + d1] EXCEPT ![mint] = @ - d2 + d3]
         = [f EXCEPT ![mint] = @ + (d1 - d2 + d3)]
  <2> DEFINE g == [f EXCEPT ![mint] = @ + d1]
             x == f[mint] + (d1 - d2 + d3)
  <2>1. f[mint] \in Nat
    BY <1>1, <1>9
  <2>2. g[mint] = f[mint] + d1
    BY <1>1, <1>9
  <2>3. g[mint] - d2 + d3 = x
    BY ONLY <2>1, <2>2, <1>5, <1>6
  <2> HIDE DEF x
  <2>4. [g EXCEPT ![mint] = x] = [f EXCEPT ![mint] = x]
    BY <1>9
  <2> HIDE DEF g
  <2>5. [g EXCEPT ![mint] = @ - d2 + d3] = [f EXCEPT ![mint] = x]
    BY <2>3, <2>4
  <2>6. QED
    BY <2>5 DEF g, x
<1>11. QED
  BY <1>4, <1>5, <1>6, <1>7, <1>8, <1>10 DEF f, paid, mint, HoldingMoves

\* Where transfers cost no fee and no lender is paid to a partner's vault.
Plain == FeeBearing = {} /\ Partners \cap Payees = {}

\* The partner of the order pays `amount`, and every payee gets its share.
PursesMoved(b, bb, key, amount, shares) ==
  /\ PurseOf(bb, key[1]) = PurseOf(b, key[1]) - amount
  /\ \A partner \in Partners : PurseOf(bb, partner) <= PurseOf(b, partner)
  /\ \A owner \in Payees : PurseOf(b, owner) + shares[owner] <= PurseOf(bb, owner)

LEMMA RepaymentPurses ==
  ASSUME Plain, Core!TypeOK, Core!Running, NEW b \in Balances, NEW key \in OrderKeys,
         NEW t \in Core!OrderTracker, Core!Ledger(t), NEW amount \in Nat, NEW repay \in Nat,
         NEW shares \in [Payees -> U64],
         Core!Repayable(b, key, t, amount, repay, shares)
  PROVE  PursesMoved(b, Core!BalancesRepaid(b, key, t, amount, shares), key, amount, shares)
<1> DEFINE bb == Core!BalancesRepaid(b, key, t, amount, shares)
           total == SumFunction(shares)
           F(owner) == Flow(key, t, amount, shares, owner)
<1>1. /\ bb \in Balances /\ t.mint \in Mints /\ total \in Nat
      /\ total <= repay /\ repay <= amount
  <2>1. Core!SharesAccepted(t, repay, total) /\ repay <= amount
    BY SameSum DEF Core!Repayable
  <2>2. bb \in Balances /\ t.mint \in Mints /\ total \in Nat
    BY CoreRepayment
  <2>3. QED
    BY <2>1, <2>2 DEF Core!SharesAccepted
<1>2. ASSUME NEW owner \in Holders
      PROVE  /\ F(owner) \in Int /\ PurseOf(b, owner) \in Nat
             /\ PurseOf(bb, owner) = PurseOf(b, owner) + F(owner)
  <2>1. HoldingMoves(b, bb, owner, t.mint, F(owner))
    BY RepaymentFlows
  <2>2. F(owner) \in Int
    BY <2>1 DEF HoldingMoves
  <2> HIDE DEF bb, F
  <2>3. QED
    BY <1>1, <2>1, <2>2, PurseMoves, PursesAreNat
<1>3. Arrives(t.mint, amount) = amount /\ \A owner \in Payees : Arrives(t.mint, shares[owner]) = shares[owner]
  BY DEF Arrives, Plain
<1>4. /\ key[1] \in Partners /\ Partners \subseteq Holders /\ Partners \cap Payees = {}
      /\ Payees \subseteq Holders /\ Partners \cap Zovs = {}
  <2>1. Payees \subseteq Holders
    BY LendingAssumption DEF Payees, Core!Accounts
  <2>2. QED
    BY <2>1, OwnerSets, CoreAssumptions DEF OrderKeys, Plain
<1>5. t.zynk_op_vault \in Zovs
  <2>1. CoreP!Repayable(b, key, t, amount, repay, shares) /\ CoreP!TypeOK /\ CoreP!Running
        /\ CoreP!Ledger(t) /\ t \in CoreP!OrderTracker
    BY SameTypes, SameRepayment
  <2>2. QED
    BY <2>1, CoreP!PayableOrder, CoreAssumptions DEF CoreP!Repayable, CoreP!Running
<1>6. PurseOf(bb, key[1]) = PurseOf(b, key[1]) - amount
  <2>1. F(key[1]) = -amount
    BY <1>4 DEF Flow
  <2>2. QED
    BY <1>2, <1>4, <2>1
<1>7. ASSUME NEW partner \in Partners
      PROVE  PurseOf(bb, partner) <= PurseOf(b, partner)
  <2>1. F(partner) = -amount \/ F(partner) = 0
    BY <1>4, <1>5 DEF Flow
  <2>2. PurseOf(b, partner) \in Nat /\ PurseOf(bb, partner) = PurseOf(b, partner) + F(partner)
    BY <1>2, <1>4
  <2> HIDE DEF bb, F
  <2>3. QED
    BY <2>1, <2>2
<1>8. ASSUME NEW owner \in Payees
      PROVE  PurseOf(b, owner) + shares[owner] <= PurseOf(bb, owner)
  <2>1. owner \in Holders /\ owner # key[1]
    BY <1>4
  <2>2. shares[owner] \in Nat
    BY WidthAssumption DEF U64
  <2>3. F(owner) = (IF owner = t.zynk_op_vault THEN amount - total ELSE 0) + shares[owner]
    BY <1>3, <2>1 DEF Flow
  <2>4. /\ PurseOf(b, owner) \in Nat /\ PurseOf(bb, owner) = PurseOf(b, owner) + F(owner)
        /\ F(owner) \in Int
    BY <1>2, <2>1
  <2> HIDE DEF bb, F, total
  <2>5. (IF owner = t.zynk_op_vault THEN amount - total ELSE 0) \in Nat
    BY <1>1
  <2>6. QED
    BY ONLY <2>2, <2>3, <2>4, <2>5
<1>9. QED
  BY <1>6, <1>7, <1>8 DEF PursesMoved

\* What a user's wallets hold.
WalletsOf(b, u) == SumFunctionOnSet(PursesOf(b), users[u].wallets)

\* Accounts that lose nothing, and one that gets `gain`.
LEMMA WalletsGrow ==
  ASSUME UsersTypeOK, NEW u \in Users, Registered(u), NEW b \in Balances, NEW bb \in Balances,
         NEW gain \in Nat,
         \A w \in users[u].wallets : PurseOf(b, w) <= PurseOf(bb, w),
         gain > 0 => \E w \in users[u].wallets : PurseOf(b, w) + gain <= PurseOf(bb, w)
  PROVE  /\ WalletsOf(b, u) \in Nat /\ WalletsOf(bb, u) \in Nat
         /\ WalletsOf(b, u) + gain <= WalletsOf(bb, u)
<1> DEFINE ws == users[u].wallets
           f == PursesOf(b)
           g == PursesOf(bb)
<1>1. IsFiniteSet(ws) /\ ws \subseteq Holders
  BY WalletSets
<1>2. \A w \in ws : f[w] \in Nat /\ g[w] \in Nat /\ f[w] = PurseOf(b, w) /\ g[w] = PurseOf(bb, w)
  BY <1>1, PursesAreNat DEF PursesOf
<1>3. \A w \in ws : f[w] <= g[w]
  BY <1>2
<1>4. gain > 0 => \E w \in ws : f[w] + gain <= g[w]
  BY <1>2
<1> HIDE DEF ws, f, g
<1>5. SumFunctionOnSet(f, ws) \in Nat /\ SumFunctionOnSet(g, ws) \in Nat
  BY <1>1, <1>2, SumNat
<1>6. CASE gain = 0
  <2>1. SumFunctionOnSet(f, ws) <= SumFunctionOnSet(g, ws)
    BY <1>1, <1>2, <1>3, SumLess
  <2>2. QED
    BY <1>5, <1>6, <2>1 DEF WalletsOf, f, g, ws
<1>7. CASE gain > 0
  <2>1. PICK w \in ws : f[w] + gain <= g[w]
    BY <1>4, <1>7
  <2> DEFINE rest == ws \ {w}
  <2>2. IsFiniteSet(rest) /\ \A x \in rest : f[x] \in Int /\ g[x] \in Int /\ f[x] <= g[x]
    BY <1>1, <1>2, <1>3, FS_Subset
  <2>3. /\ SumFunctionOnSet(f, ws) = f[w] + SumFunctionOnSet(f, rest)
        /\ SumFunctionOnSet(g, ws) = g[w] + SumFunctionOnSet(g, rest)
    BY <1>1, <1>2, SumRemove
  <2> HIDE DEF rest
  <2>4. SumFunctionOnSet(f, rest) <= SumFunctionOnSet(g, rest)
    BY <2>2, SumLess
  <2>5. SumFunctionOnSet(f, rest) \in Int /\ SumFunctionOnSet(g, rest) \in Int
    BY <2>2, SumInt
  <2>6. f[w] \in Nat /\ g[w] \in Nat
    BY <1>2
  <2>7. SumFunctionOnSet(f, ws) + gain <= SumFunctionOnSet(g, ws)
    BY ONLY <2>1, <2>3, <2>4, <2>5, <2>6, gain \in Nat
  <2>8. QED
    BY <1>5, <2>7 DEF WalletsOf, f, g, ws
<1>8. QED
  BY <1>6, <1>7

\* Where a user is paid: the custody account of an ICV user or one of its wallets.
AccountsOf(u) == users[u].wallets \cup (IF users[u].user_type = "ICV" THEN {u} ELSE {})

LEMMA HandGrows ==
  ASSUME UsersTypeOK, NEW u \in Users, NEW b \in Balances, NEW bb \in Balances,
         NEW gain \in Nat,
         \A owner \in Users \cup UserWallets : PurseOf(b, owner) <= PurseOf(bb, owner),
         gain > 0 => /\ Registered(u)
                     /\ \E owner \in AccountsOf(u) : PurseOf(b, owner) + gain <= PurseOf(bb, owner)
  PROVE  HandOf(b, u) + gain <= HandOf(bb, u)
<1>1. CASE ~Registered(u)
  BY <1>1 DEF HandOf
<1>2. CASE Registered(u)
  <2>1. users[u].wallets \subseteq UserWallets /\ \A w \in users[u].wallets : PurseOf(b, w) <= PurseOf(bb, w)
    BY <1>2, UserFacts
  <2>2. PurseOf(b, u) \in Nat /\ PurseOf(bb, u) \in Nat /\ PurseOf(b, u) <= PurseOf(bb, u)
    BY OwnerSets, PursesAreNat
  <2> DEFINE custody(x) == IF users[u].user_type = "ICV" THEN PurseOf(x, u) ELSE 0
  <2>3. /\ HandOf(b, u) = WalletsOf(b, u) + custody(b)
        /\ HandOf(bb, u) = WalletsOf(bb, u) + custody(bb)
    BY <1>2 DEF HandOf, WalletsOf
  <2>4. custody(b) \in Nat /\ custody(bb) \in Nat /\ custody(b) <= custody(bb)
    BY <2>2
  <2>5. CASE gain > 0 => \E w \in users[u].wallets : PurseOf(b, w) + gain <= PurseOf(bb, w)
    <3>1. /\ WalletsOf(b, u) \in Nat /\ WalletsOf(bb, u) \in Nat
          /\ WalletsOf(b, u) + gain <= WalletsOf(bb, u)
      BY <1>2, <2>1, <2>5, WalletsGrow
    <3> HIDE DEF custody
    <3>2. QED
      BY ONLY <2>3, <2>4, <3>1, gain \in Nat
  <2>6. CASE ~(gain > 0 => \E w \in users[u].wallets : PurseOf(b, w) + gain <= PurseOf(bb, w))
    <3>1. users[u].user_type = "ICV" /\ PurseOf(b, u) + gain <= PurseOf(bb, u)
      BY <2>6 DEF AccountsOf
    <3>2. custody(b) + gain <= custody(bb)
      BY <3>1
    <3>3. 0 \in Nat /\ ~(0 > 0)
      OBVIOUS
    <3>4. /\ WalletsOf(b, u) \in Nat /\ WalletsOf(bb, u) \in Nat
          /\ WalletsOf(b, u) + 0 <= WalletsOf(bb, u)
      BY <1>2, <2>1, <3>3, WalletsGrow
    <3> HIDE DEF custody
    <3>5. QED
      BY ONLY <2>3, <2>4, <3>2, <3>4, gain \in Nat
  <2>7. QED
    BY <2>5, <2>6
<1>3. QED
  BY <1>1, <1>2

\* A repayment takes `repay` off the whole debt, and what the lenders do not get of it
\* off the house's part.
HouseLess(os, oss, key, repay, total) ==
  /\ HouseOn(os, key) \in Int /\ HouseOn(oss, key) = HouseOn(os, key) - (repay - total)
  /\ AllOn(os, key) - AllOn(oss, key) = repay
  /\ total = repay \/ HouseOn(oss, key) >= 0

LEMMA RepaidHouse ==
  ASSUME NEW key \in OrderKeys, NEW os, OrdersTyped(os), NEW oss, os[key] # None,
         NEW h, NEW repay, NEW total, RepaidFairly(os[key], h, repay, total),
         oss[key] = Core!TrackerRepaid(os[key], repay, total)
  PROVE  HouseLess(os, oss, key, repay, total)
<1> DEFINE t == os[key]
           r == [t EXCEPT !.amount_repaid = @ + total, !.amount_in = @ + repay]
<1>1. /\ t \in Core!OrderTracker
      /\ t.amount_in \in Nat /\ t.amount_out \in Nat
      /\ t.amount_borrowed \in Nat /\ t.amount_repaid \in Nat
  <2>1. t \in Core!OrderTracker
    BY DEF OrdersTyped
  <2>2. QED
    BY <2>1, WidthAssumption DEF Core!OrderTracker, Core!U64
<1>2. /\ r.amount_in = t.amount_in + repay /\ r.amount_repaid = t.amount_repaid + total
      /\ r.amount_out = t.amount_out /\ r.amount_borrowed = t.amount_borrowed
  BY <1>1 DEF Core!OrderTracker
<1>3. oss[key] = IF r.amount_in = r.amount_out THEN None ELSE r
  BY DEF Core!TrackerRepaid
<1>4. repay \in Nat /\ total \in Nat
  BY DEF RepaidFairly
<1>5. OwesLess(t, oss[key], total)
  BY <1>1, RepaidOwes
<1>6. r # None
  <2>1. r \in Core!OrderTracker
    <3>1. t.amount_repaid + total \in Core!U64 /\ t.amount_in + repay \in Core!U64
      BY <1>1, WidthAssumption DEF Core!U64, RepaidFairly
    <3>2. QED
      BY <1>1, <3>1 DEF Core!OrderTracker
  <2>2. QED
    BY <2>1, CoreAssumption DEF Core!NoneIsNoAccount
<1>7. /\ AllOn(os, key) = t.amount_out - t.amount_in
      /\ HouseOn(os, key) = t.amount_out - t.amount_in - (t.amount_borrowed - t.amount_repaid)
  BY DEF AllOn, HouseOn, Core!Outstanding, Core!LentOutstanding
<1>11. /\ repay <= t.amount_out - t.amount_in /\ total <= repay
       /\ total < repay => total = t.amount_borrowed - t.amount_repaid
  BY DEF RepaidFairly, Core!SharesAccepted, Core!Outstanding, Core!LentOutstanding
<1> HIDE DEF r, t
<1>8. CASE r.amount_in = r.amount_out
  <2>1. oss[key] = None
    BY <1>3, <1>8
  <2>2. HouseOn(oss, key) = 0 /\ AllOn(oss, key) = 0
    BY <2>1 DEF HouseOn, AllOn
  <2>3. 0 = Core!LentOutstanding(t) - total
    BY <1>5, <2>1 DEF OwesLess
  <2>4. t.amount_borrowed - t.amount_repaid = total
    BY <1>1, <1>4, <2>3 DEF Core!LentOutstanding
  <2>5. QED
    BY <1>1, <1>2, <1>4, <1>7, <1>8, <2>2, <2>4 DEF HouseLess
<1>9. CASE r.amount_in # r.amount_out
  <2>1. oss[key] = r
    BY <1>3, <1>9
  <2>2. /\ AllOn(oss, key) = r.amount_out - r.amount_in
        /\ HouseOn(oss, key)
             = r.amount_out - r.amount_in - (r.amount_borrowed - r.amount_repaid)
    BY <1>6, <2>1 DEF AllOn, HouseOn, Core!Outstanding, Core!LentOutstanding
  <2>3. total = repay \/ HouseOn(oss, key) >= 0
    BY ONLY <1>1, <1>2, <1>4, <1>11, <2>2
  <2>4. QED
    BY <1>1, <1>2, <1>4, <1>7, <2>2, <2>3 DEF HouseLess
<1>10. QED
  BY <1>8, <1>9

\* The books agree on the order before and after it is repaid; so its debts fall.
AgreeOn(key, os, ps) == DebtOn(ps, key) = LentOn(os, key)

LEMMA RepaidDebts ==
  ASSUME NEW key \in OrderKeys, NEW os, OrdersTyped(os), NEW oss, os[key] # None,
         NEW h, NEW repay, NEW total, RepaidFairly(os[key], h, repay, total),
         oss[key] = Core!TrackerRepaid(os[key], repay, total),
         NEW ps, NEW qs, PositionsOK(qs), AgreeOn(key, oss, qs),
         \A u \in Users : LoanOn(qs, key, u) <= LoanOn(ps, key, u)
  PROVE  DebtsFall({key}, os, ps, oss, qs)
<1>1. HouseLess(os, oss, key, repay, total)
  BY RepaidHouse
<1>2. /\ repay \in Nat /\ total \in Nat /\ total <= repay
      /\ total < repay => total = Core!LentOutstanding(os[key])
  BY DEF RepaidFairly, Core!SharesAccepted
<1>3. /\ HouseOn(oss, key) <= HouseOn(os, key)
      /\ HouseOn(os, key) >= 0 => HouseOn(oss, key) >= 0
  BY ONLY <1>1, <1>2 DEF HouseLess
<1>4. ASSUME HouseOn(oss, key) # HouseOn(os, key), NEW u \in Users
      PROVE  LoanOn(qs, key, u) = 0
  <2>1. total # repay
    <3>1. SUFFICES ASSUME total = repay PROVE FALSE
      OBVIOUS
    <3>2. HouseOn(oss, key) = HouseOn(os, key)
      BY ONLY <1>1, <1>2, <3>1 DEF HouseLess
    <3>3. QED
      BY <1>4, <3>2
  <2>2. total = Core!LentOutstanding(os[key])
    BY <1>2, <2>1
  <2>3. OwesLess(os[key], oss[key], total)
    <3>1. os[key] \in Core!OrderTracker
      BY DEF OrdersTyped
    <3>2. QED
      BY <3>1, RepaidOwes
  <2>4. LentOn(oss, key) = 0
    <3>1. LentOn(oss, key) = Core!LentOutstanding(os[key]) - total
      BY <2>3 DEF OwesLess, LentOn
    <3>2. QED
      BY ONLY <1>2, <2>2, <3>1
  <2>5. DebtOn(qs, key) = 0
    BY <2>4 DEF AgreeOn
  <2> DEFINE f == LoansOn(qs, key)
  <2>6. \A v \in Users : f[v] \in Nat /\ f[v] = LoanOn(qs, key, v)
    BY LeftNat DEF LoansOn
  <2>7. SumFunctionOnSet(f, Users) = 0
    BY <2>5 DEF DebtOn
  <2> HIDE DEF f
  <2>8. \A v \in Users : f[v] <= SumFunctionOnSet(f, Users)
    BY <2>6, Finite, SumNat
  <2>9. f[u] \in Nat /\ f[u] <= 0 /\ f[u] = LoanOn(qs, key, u)
    BY <2>6, <2>7, <2>8
  <2>10. QED
    BY ONLY <2>9
<1>5. QED
  BY <1>3, <1>4 DEF DebtsFall

\* The state of the ledger, and that what the house is owed is never negative.
HouseSound == \A key \in OrderKeys \ touched : HouseOn(orders, key) >= 0

HouseDebtsOf == [key \in OrderKeys |-> HouseDebt(key)]
LoansOf == [key \in OrderKeys |-> [u \in Users |->
              IF Lends(key, u) THEN Remaining(key[2], u) ELSE 0]]
PursesNow == [partner \in Partners |-> AllMints(partner)]
HandsNow == [u \in Users |-> InHand(u)]

LedgerState ==
  /\ HouseDebtsOf = [key \in OrderKeys |-> HouseOn(orders, key)]
  /\ LoansOf = [key \in OrderKeys |-> LoansOn(positions, key)]
  /\ PursesNow = [partner \in Partners |-> PurseOf(bal, partner)]
  /\ HandsNow = [u \in Users |-> HandOf(bal, u)]

LEMMA LedgerStates == LendingInv => LedgerState
<1> SUFFICES ASSUME LendingInv PROVE LedgerState
  OBVIOUS
<1>1. bal \in Balances /\ UsersTypeOK
  BY InvFacts
<1>2. \A owner \in Holders : AllMints(owner) = PurseOf(bal, owner)
  <2>1. ASSUME NEW owner \in Holders
        PROVE  AllMints(owner) = PurseOf(bal, owner)
    <3>1. DOMAIN bal[owner] = Mints
      BY <1>1 DEF Balances, BalancesOf
    <3>2. QED
      BY <3>1 DEF AllMints, PurseOf, SumFunction
  <2>2. QED
    BY <2>1
<1>3. \A key \in OrderKeys : HouseDebt(key) = HouseOn(orders, key)
  BY DEF HouseDebt, HouseOn, Open
<1>4. \A key \in OrderKeys, u \in Users :
        (IF Lends(key, u) THEN Remaining(key[2], u) ELSE 0) = LoanOn(positions, key, u)
  BY DEF Lends, HasPosition, Remaining, LoanOn, Left
<1>5. \A key \in OrderKeys :
        [u \in Users |-> IF Lends(key, u) THEN Remaining(key[2], u) ELSE 0]
          = LoansOn(positions, key)
  BY <1>4 DEF LoansOn
<1>6. ASSUME NEW u \in Users
      PROVE  InHand(u) = HandOf(bal, u)
  <2>1. CASE ~Registered(u)
    BY <2>1 DEF InHand, HandOf
  <2>2. CASE Registered(u)
    <3> DEFINE ws == users[u].wallets
               f == [w \in ws |-> AllMints(w)]
               g == PursesOf(bal)
    <3>1. IsFiniteSet(ws) /\ ws \subseteq Holders /\ u \in Holders
      BY <1>1, <2>2, WalletSets, OwnerSets
    <3>2. \A w \in ws : f[w] = g[w] /\ g[w] \in Int
      BY <1>1, <1>2, <3>1, PursesAreNat DEF PursesOf
    <3>3. SumFunction(f) = SumFunctionOnSet(f, ws)
      BY DEF SumFunction
    <3> HIDE DEF f, g, ws
    <3>4. SumFunctionOnSet(f, ws) = SumFunctionOnSet(g, ws)
      BY <3>1, <3>2, SumSame
    <3>5. AllMints(u) = PurseOf(bal, u)
      BY <1>2, <3>1
    <3>6. QED
      BY <2>2, <3>3, <3>4, <3>5 DEF InHand, HandOf, f, g, ws
  <2>3. QED
    BY <2>1, <2>2
<1>7. QED
  BY <1>2, <1>3, <1>5, <1>6, OwnerSets DEF LedgerState, HouseDebtsOf, LoansOf, PursesNow, HandsNow

\* The debts of the ledger fall by what PaidOff speaks of.
FallOn(os, ps, oss, qs, key) ==
  HouseOn(os, key) - HouseOn(oss, key)
    + SumFunctionOnSet([u \in Users |-> LoanOn(ps, key, u) - LoanOn(qs, key, u)], Users)

LEMMA WholeFall ==
  ASSUME NEW key \in OrderKeys, NEW b, NEW os, NEW ps, BooksTyped(b, os, ps),
         NEW bb, NEW oss, NEW qs, BooksTyped(bb, oss, qs),
         AgreeOn(key, os, ps), AgreeOn(key, oss, qs)
  PROVE  FallOn(os, ps, oss, qs, key) = AllOn(os, key) - AllOn(oss, key)
<1> DEFINE f == LoansOn(ps, key)
           g == LoansOn(qs, key)
           d == [u \in Users |-> LoanOn(ps, key, u) - LoanOn(qs, key, u)]
<1>1. \A u \in Users : g[u] \in Int /\ d[u] \in Int /\ f[u] = g[u] + d[u]
  <2>1. \A u \in Users : LoanOn(ps, key, u) \in Nat /\ LoanOn(qs, key, u) \in Nat
    BY LeftNat DEF BooksTyped
  <2>2. QED
    BY <2>1 DEF LoansOn
<1> HIDE DEF f, g, d
<1>2. SumFunctionOnSet(f, Users) = SumFunctionOnSet(g, Users) + SumFunctionOnSet(d, Users)
  BY <1>1, Finite, SumPlus
<1>3. SumFunctionOnSet(g, Users) \in Int /\ SumFunctionOnSet(d, Users) \in Int
  BY <1>1, Finite, SumInt
<1>4. /\ SumFunctionOnSet(f, Users) = LentOn(os, key)
      /\ SumFunctionOnSet(g, Users) = LentOn(oss, key)
  BY DEF AgreeOn, DebtOn, f, g
<1>5. ASSUME NEW xs, OrdersTyped(xs)
      PROVE  HouseOn(xs, key) \in Int /\ LentOn(xs, key) \in Int
             /\ AllOn(xs, key) = HouseOn(xs, key) + LentOn(xs, key)
  <2>1. CASE xs[key] = None
    BY <2>1 DEF HouseOn, AllOn, LentOn
  <2>2. CASE xs[key] # None
    <3>1. xs[key] \in Core!OrderTracker
      BY <1>5, <2>2 DEF OrdersTyped
    <3>2. /\ xs[key].amount_in \in Int /\ xs[key].amount_out \in Int
          /\ xs[key].amount_borrowed \in Int /\ xs[key].amount_repaid \in Int
      BY <3>1 DEF Core!OrderTracker, Core!U64
    <3>3. QED
      BY <2>2, <3>2 DEF HouseOn, AllOn, LentOn, Core!Outstanding, Core!LentOutstanding
  <2>3. QED
    BY <2>1, <2>2
<1>6. /\ HouseOn(os, key) \in Int /\ HouseOn(oss, key) \in Int
      /\ AllOn(os, key) = HouseOn(os, key) + SumFunctionOnSet(f, Users)
      /\ AllOn(oss, key) = HouseOn(oss, key) + SumFunctionOnSet(g, Users)
  BY <1>4, <1>5 DEF BooksTyped
<1>7. FallOn(os, ps, oss, qs, key) = HouseOn(os, key) - HouseOn(oss, key) + SumFunctionOnSet(d, Users)
  BY DEF FallOn, d
<1>8. QED
  BY ONLY <1>2, <1>3, <1>6, <1>7

\* A step whose debts on untouched orders are paid off is one of the ledger's.
HandsKept ==
  \A u \in Users :
    /\ Registered(u)' <=> Registered(u)
    /\ Registered(u) => /\ users'[u].wallets = users[u].wallets
                        /\ users'[u].user_type = users[u].user_type

LEMMA HandsNext ==
  ASSUME HandsKept, NEW u \in Users
  PROVE  HandOf(bal, u)' = HandOf(bal', u)
BY DEF HandsKept, HandOf, WalletsOf, PursesOf, PurseOf, Registered

LEMMA BooksTypedNow == LendingInv => BooksTyped(bal, orders, positions)
BY InvFacts DEF BooksTyped, OrdersTyped

LEMMA LedgerSum == \A f : Ledger!SumFunction(f) = SumFunction(f)
BY DEF Ledger!SumFunction, Ledger!SumFunctionOnSet, Ledger!FoldFunctionOnSet,
       Ledger!MapThenFoldSet, SumFunction, SumFunctionOnSet, FoldFunctionOnSet, MapThenFoldSet

LEMMA LedgerPaysOff ==
  ASSUME LendingInv, LendingInv', LedgerState, LedgerState', HouseSound, HandsKept,
         touched \subseteq touched',
         PaidOff(OrderKeys \ touched', bal, orders, positions, bal', orders', positions')
  PROVE  Ledger!Next /\ HouseSound'
<1> DEFINE sound == OrderKeys \ touched'
           falls(key) == FallOn(orders, positions, orders', positions', key)
           all == AllFalls(orders, orders')
<1>1. /\ BooksTyped(bal, orders, positions) /\ BooksTyped(bal', orders', positions')
      /\ \A key \in sound : AgreeOn(key, orders, positions) /\ AgreeOn(key, orders', positions')
  <2>1. BooksTyped(bal, orders, positions)
    BY BooksTypedNow
  <2>2. BooksTyped(bal, orders, positions)'
    BY BooksTypedNow, PTL
  <2>3. BooksTyped(bal', orders', positions')
    BY <2>2 DEF BooksTyped, OrdersTyped, PositionsOK
  <2>4. \A key \in sound : AgreeOn(key, orders, positions) /\ AgreeOn(key, orders', positions')
    BY DEF LendingInv, OrdersPart, Agree, AgreeOn
  <2>5. QED
    BY <2>1, <2>3, <2>4
<1>2. ASSUME NEW key \in sound
      PROVE  /\ HouseOn(orders, key) \in Nat /\ HouseOn(orders', key) \in Nat
             /\ HouseOn(orders', key) <= HouseOn(orders, key)
             /\ \A u \in Users : /\ LoanOn(positions, key, u) \in Nat
                                 /\ LoanOn(positions', key, u) \in Nat
                                 /\ LoanOn(positions', key, u) <= LoanOn(positions, key, u)
             /\ HouseOn(orders', key) # HouseOn(orders, key) =>
                  \A u \in Users : LoanOn(positions', key, u) = 0
             /\ falls(key) = all[key] /\ all[key] \in Int
  <2>1. key \in OrderKeys /\ HouseOn(orders, key) \in Int /\ HouseOn(orders', key) \in Int
    BY <1>1, DebtsAreInt DEF BooksTyped
  <2>2. HouseOn(orders, key) >= 0
    BY DEF HouseSound
  <2>3. /\ HouseOn(orders', key) <= HouseOn(orders, key)
        /\ HouseOn(orders, key) >= 0 => HouseOn(orders', key) >= 0
        /\ \A u \in Users : LoanOn(positions', key, u) <= LoanOn(positions, key, u)
        /\ HouseOn(orders', key) # HouseOn(orders, key) =>
             \A u \in Users : LoanOn(positions', key, u) = 0
    BY DEF PaidOff, DebtsFall
  <2>4. \A u \in Users : LoanOn(positions, key, u) \in Nat /\ LoanOn(positions', key, u) \in Nat
    BY <1>1, <2>1, LeftNat DEF BooksTyped
  <2>5. falls(key) = AllOn(orders, key) - AllOn(orders', key)
    BY <1>1, <2>1, WholeFall
  <2>6. all[key] = AllOn(orders, key) - AllOn(orders', key) /\ all[key] \in Int
    BY <1>1, <2>1, FallsAreInt DEF AllFalls
  <2>7. HouseOn(orders, key) \in Nat /\ HouseOn(orders', key) \in Nat
    BY <2>1, <2>2, <2>3
  <2>8. QED
    BY <2>3, <2>4, <2>5, <2>6, <2>7
<1>3. HouseSound'
  <2>1. \A key \in sound : HouseOn(orders', key) >= 0
    BY <1>2
  <2>2. QED
    BY <2>1 DEF HouseSound
<1>4. \A partner \in Partners :
        SumFunctionOnSet(all, OrdersOf(sound, partner)) <= PurseOf(bal, partner) - PurseOf(bal', partner)
  BY DEF PaidOff, PartnersPay
<1>5. \A u \in Users :
        SumFunctionOnSet(LoanFalls(positions, positions', u), sound)
          <= HandOf(bal', u) - HandOf(bal, u)
  BY DEF PaidOff, LendersGet
<1>6. ASSUME NEW partner \in Partners
      PROVE  SumFunction([key \in {k \in sound : [k1 \in OrderKeys |-> k1[1]][k] = partner} |-> falls(key)])
               <= PurseOf(bal, partner) - PurseOf(bal', partner)
  <2> DEFINE ks == {k \in sound : [k1 \in OrderKeys |-> k1[1]][k] = partner}
             f == [key \in ks |-> falls(key)]
  <2>1. ks = OrdersOf(sound, partner)
    BY DEF OrdersOf
  <2>2. IsFiniteSet(ks)
    BY FiniteKeys, FS_Subset
  <2>3. \A key \in ks : f[key] \in Int /\ f[key] = all[key]
    BY <1>2
  <2>4. SumFunction(f) = SumFunctionOnSet(f, ks)
    BY DEF SumFunction
  <2> HIDE DEF f, ks, all
  <2>5. SumFunctionOnSet(f, ks) = SumFunctionOnSet(all, ks)
    BY <2>2, <2>3, SumSame
  <2>6. SumFunction(f) <= PurseOf(bal, partner) - PurseOf(bal', partner)
    BY <1>4, <2>1, <2>4, <2>5
  <2>7. QED
    BY <2>6 DEF f, ks
<1>7. ASSUME NEW u \in Users
      PROVE  SumFunction([key \in sound |-> LoanOn(positions, key, u) - LoanOn(positions', key, u)])
               <= HandOf(bal', u) - HandOf(bal, u)
  <2> DEFINE f == [key \in sound |-> LoanOn(positions, key, u) - LoanOn(positions', key, u)]
             g == LoanFalls(positions, positions', u)
  <2>1. \A key \in sound : f[key] \in Int /\ f[key] = g[key]
    BY <1>2 DEF LoanFalls
  <2>2. IsFiniteSet(sound)
    BY FiniteKeys, FS_Subset
  <2>3. SumFunction(f) = SumFunctionOnSet(f, sound)
    BY DEF SumFunction
  <2> HIDE DEF f, g, sound
  <2>4. SumFunctionOnSet(f, sound) = SumFunctionOnSet(g, sound)
    BY <2>1, <2>2, SumSame
  <2>5. QED
    BY <1>5, <2>3, <2>4 DEF f, g
<1>8. \A u \in Users : HandOf(bal, u)' = HandOf(bal', u)
  BY HandsNext
<1> HIDE DEF all
<1>9. ASSUME NEW key \in sound
      PROVE  /\ Ledger!HouseFalls(key) = HouseOn(orders, key) - HouseOn(orders', key)
             /\ \A u \in Users :
                  Ledger!LoanFalls(key, u) = LoanOn(positions, key, u) - LoanOn(positions', key, u)
             /\ Ledger!DebtFalls(key) = falls(key)
  <2>1. Ledger!HouseFalls(key) = HouseOn(orders, key) - HouseOn(orders', key)
    BY DEF Ledger!HouseFalls, LedgerState, HouseDebtsOf, HouseOn
  <2>2. \A u \in Users :
          Ledger!LoanFalls(key, u) = LoanOn(positions, key, u) - LoanOn(positions', key, u)
    BY DEF Ledger!LoanFalls, LedgerState, LoansOf, LoansOn, LoanOn
  <2>3. SumFunction([u \in Users |-> Ledger!LoanFalls(key, u)])
          = SumFunctionOnSet([u \in Users |-> LoanOn(positions, key, u) - LoanOn(positions', key, u)], Users)
    BY <2>2 DEF SumFunction
  <2>4. QED
    BY <2>1, <2>2, <2>3, LedgerSum DEF Ledger!DebtFalls, FallOn
<1>10. Ledger!Sound = sound
  BY DEF Ledger!Sound
<1>11. ASSUME NEW key \in sound
       PROVE  /\ Ledger!HouseFalls(key) \in 0..HouseOn(orders, key)
              /\ \A u \in Users : Ledger!LoanFalls(key, u) \in 0..LoanOn(positions, key, u)
              /\ Ledger!HouseFalls(key) > 0 => \A u \in Users : LoanOn(positions', key, u) = 0
  <2>1. Ledger!HouseFalls(key) = HouseOn(orders, key) - HouseOn(orders', key)
    BY <1>9
  <2>2. \A u \in Users :
          Ledger!LoanFalls(key, u) = LoanOn(positions, key, u) - LoanOn(positions', key, u)
    BY <1>9
  <2>3. QED
    BY <1>2, <2>1, <2>2
<1>12. ASSUME NEW partner \in Partners
       PROVE  Ledger!SumFunction(
                [key \in {k \in sound : [k1 \in OrderKeys |-> k1[1]][k] = partner} |->
                   Ledger!DebtFalls(key)])
                <= PurseOf(bal, partner) - PurseOf(bal', partner)
  BY <1>6, <1>9, LedgerSum
<1>13. ASSUME NEW u \in Users
       PROVE  Ledger!SumFunction([key \in sound |-> Ledger!LoanFalls(key, u)])
                <= HandOf(bal', u) - HandOf(bal, u)
  BY <1>7, <1>9, LedgerSum
<1>14. /\ \A key \in sound : /\ HouseDebtsOf[key] = HouseOn(orders, key)
                             /\ \A u \in Users : LoansOf[key][u] = LoanOn(positions, key, u)
                             /\ \A u \in Users : LoansOf'[key][u] = LoanOn(positions', key, u)
       /\ \A partner \in Partners : /\ PursesNow[partner] = PurseOf(bal, partner)
                                    /\ PursesNow'[partner] = PurseOf(bal', partner)
       /\ \A u \in Users : /\ HandsNow[u] = HandOf(bal, u)
                           /\ HandsNow'[u] = HandOf(bal', u)
  BY <1>8 DEF LedgerState, HouseDebtsOf, LoansOf, PursesNow, HandsNow, LoansOn, LoanOn, PurseOf
<1> HIDE DEF falls
<1>15. Ledger!PayOff
  <2>1. \A key \in Ledger!Sound :
          /\ Ledger!HouseFalls(key) \in 0..HouseDebtsOf[key]
          /\ \A u \in Users : Ledger!LoanFalls(key, u) \in 0..LoansOf[key][u]
          /\ Ledger!HouseFalls(key) > 0 => \A u \in Users : LoansOf'[key][u] = 0
    BY <1>10, <1>11, <1>14
  <2>2. \A partner \in Partners :
          Ledger!SumFunction(
            [key \in {k \in Ledger!Sound : [k1 \in OrderKeys |-> k1[1]][k] = partner} |->
               Ledger!DebtFalls(key)])
            <= PursesNow[partner] - PursesNow'[partner]
    BY <1>10, <1>12, <1>14
  <2>3. \A u \in Users :
          Ledger!SumFunction([key \in Ledger!Sound |-> Ledger!LoanFalls(key, u)])
            <= HandsNow'[u] - HandsNow[u]
    BY <1>10, <1>13, <1>14
  <2>4. QED
    BY ONLY <2>1, <2>2, <2>3 DEF Ledger!PayOff, HouseDebtsOf, LoansOf, PursesNow, HandsNow
<1>16. QED
  BY <1>3, <1>15 DEF Ledger!Next

\* A step that leaves all untouched debts as they are, or all but those of one order that
\* owes nothing, is one of the ledger's as well.
LEMMA LedgerSpoils ==
  ASSUME LendingInv, LendingInv', LedgerState, LedgerState', HouseSound,
         touched \subseteq touched',
         \A key \in OrderKeys \ touched' :
           /\ HouseOn(orders', key) = HouseOn(orders, key)
           /\ \A u \in Users : LoanOn(positions', key, u) = LoanOn(positions, key, u)
  PROVE  Ledger!Next /\ HouseSound'
<1>1. HouseSound'
  BY DEF HouseSound, HouseOn
<1>2. Ledger!Spoil
  <2>1. ASSUME NEW key \in OrderKeys \ touched'
        PROVE  /\ HouseDebtsOf'[key] = HouseDebtsOf[key]
               /\ LoansOf'[key] = LoansOf[key]
    <3>1. HouseDebtsOf[key] = HouseOn(orders, key) /\ HouseDebtsOf'[key] = HouseOn(orders', key)
      BY DEF LedgerState, HouseOn
    <3>2. LoansOf[key] = LoansOn(positions, key) /\ LoansOf'[key] = LoansOn(positions', key)
      BY DEF LedgerState, LoansOn, LoanOn
    <3>3. LoansOn(positions', key) = LoansOn(positions, key)
      BY DEF LoansOn
    <3>4. QED
      BY <3>1, <3>2, <3>3
  <2>2. QED
    BY ONLY <2>1 DEF Ledger!Spoil, Ledger!Sound, Ledger!Unchanged, HouseDebtsOf, LoansOf
<1>3. QED
  BY <1>1, <1>2 DEF Ledger!Next

LEMMA LedgerAdvances ==
  ASSUME LendingInv, LendingInv', LedgerState, LedgerState', HouseSound,
         touched \subseteq touched', NEW key \in OrderKeys,
         OthersKept(key, orders, positions, orders', positions'),
         key \notin touched' => orders[key] = None /\ HouseOn(orders', key) >= 0
  PROVE  Ledger!Next /\ HouseSound'
<1>1. \A other \in OrderKeys \ {key} :
        /\ HouseOn(orders', other) = HouseOn(orders, other)
        /\ \A u \in Users : LoanOn(positions', other, u) = LoanOn(positions, other, u)
  BY DEF OthersKept, HouseOn
<1>2. CASE key \in touched'
  BY <1>1, <1>2, LedgerSpoils
<1>3. CASE key \notin touched'
  <2>1. HouseSound'
    <3>1. \A other \in OrderKeys \ touched' : HouseOn(orders', other) >= 0
      BY <1>1, <1>3 DEF HouseSound
    <3>2. QED
      BY <3>1 DEF HouseSound, HouseOn
  <2>2. HouseOn(orders, key) = 0 /\ \A u \in Users : LoanOn(positions, key, u) = 0
    <3> DEFINE f == LoansOn(positions, key)
    <3>1. orders[key] = None /\ key \in OrderKeys \ touched
      BY <1>3
    <3>2. HouseOn(orders, key) = 0 /\ LentOn(orders, key) = 0
      BY <3>1 DEF HouseOn, LentOn
    <3>3. SumFunctionOnSet(f, Users) = 0
      BY <3>1, <3>2 DEF LendingInv, OrdersPart, Agree, DebtOn
    <3>4. \A u \in Users : f[u] \in Nat /\ f[u] = LoanOn(positions, key, u)
      BY InvFacts, LeftNat DEF LoansOn
    <3> HIDE DEF f
    <3>5. \A u \in Users : f[u] <= SumFunctionOnSet(f, Users)
      BY <3>4, Finite, SumNat
    <3>6. ASSUME NEW u \in Users PROVE LoanOn(positions, key, u) = 0
      <4>1. f[u] \in Nat /\ f[u] <= 0 /\ f[u] = LoanOn(positions, key, u)
        BY <3>3, <3>4, <3>5
      <4>2. QED
        BY ONLY <4>1
    <3>7. QED
      BY <3>2, <3>6
  <2>3. \A u \in Users : LoanOn(positions', key, u) \in Nat
    <3>1. PositionsOK(positions')
      BY DEF LendingInv, OrdersPart
    <3>2. QED
      BY <3>1, LeftNat
  <2>4. ASSUME NEW k \in OrderKeys
        PROVE  /\ HouseDebtsOf[k] = HouseOn(orders, k) /\ HouseDebtsOf'[k] = HouseOn(orders', k)
               /\ LoansOf[k] = LoansOn(positions, k) /\ LoansOf'[k] = LoansOn(positions', k)
    <3>1. HouseDebtsOf[k] = HouseOn(orders, k) /\ HouseDebtsOf'[k] = HouseOn(orders', k)
      BY DEF LedgerState, HouseOn
    <3>2. LoansOf[k] = LoansOn(positions, k) /\ LoansOf'[k] = LoansOn(positions', k)
      BY DEF LedgerState, LoansOn, LoanOn
    <3>3. QED
      BY <3>1, <3>2
  <2>5. /\ HouseDebtsOf[key] = 0 /\ \A u \in Users : LoansOf[key][u] = 0
        /\ HouseDebtsOf'[key] >= 0 /\ \A u \in Users : LoansOf'[key][u] >= 0
    <3>1. \A u \in Users : /\ LoansOf[key][u] = LoanOn(positions, key, u)
                           /\ LoansOf'[key][u] = LoanOn(positions', key, u)
      BY <2>4 DEF LoansOn
    <3>2. HouseDebtsOf[key] = 0 /\ HouseDebtsOf'[key] >= 0
      BY <1>3, <2>2, <2>4
    <3>3. \A u \in Users : LoansOf[key][u] = 0 /\ LoansOf'[key][u] >= 0
      BY <2>2, <2>3, <3>1
    <3>4. QED
      BY <3>2, <3>3
  <2>6. ASSUME NEW other \in (OrderKeys \ touched') \ {key}
        PROVE  HouseDebtsOf'[other] = HouseDebtsOf[other] /\ LoansOf'[other] = LoansOf[other]
    <3>1. LoansOn(positions', other) = LoansOn(positions, other)
      BY <1>1 DEF LoansOn
    <3>2. QED
      BY <1>1, <2>4, <3>1
  <2>7. Ledger!Advance(key)
    BY ONLY <2>5, <2>6 DEF Ledger!Advance, Ledger!Free, Ledger!Sound, Ledger!Unchanged,
                           HouseDebtsOf, LoansOf
  <2>8. key \in Ledger!Sound
    BY <1>3 DEF Ledger!Sound
  <2>9. QED
    BY <2>1, <2>7, <2>8 DEF Ledger!Next
<1>4. QED
  BY <1>2, <1>3

\* What Core creates an order for is free before, and the house's part is what the
\* lenders do not lend.
LEMMA CreatedHouse ==
  ASSUME LendingInv, LendingInv', NEW b, NEW signer, NEW byOrbit, NEW key \in OrderKeys,
         NEW zov, NEW wallet, NEW mint, NEW amount, NEW meta, NEW borrowed,
         Core!CreateOrderFrom(b, signer, byOrbit, key, zov, wallet, mint, FALSE, amount,
                              meta, borrowed)
  PROVE  /\ orders[key] = None /\ HouseOn(orders', key) >= 0
         /\ \A other \in OrderKeys \ {key} : orders'[other] = orders[other]
<1> DEFINE t == orders'[key]
<1>1. /\ orders[key] = None
      /\ orders' = [orders EXCEPT ![key] =
           Core!OpenTracker(zov, wallet, mint, 0, Core!EffectiveAmount(amount, meta), borrowed)]
  BY DEF Core!CreateOrderFrom, Core!Open
<1>2. /\ t = Core!OpenTracker(zov, wallet, mint, 0, Core!EffectiveAmount(amount, meta), borrowed)
      /\ \A other \in OrderKeys \ {key} : orders'[other] = orders[other]
  BY <1>1, InvFacts
<1>3. CASE t = None
  BY <1>1, <1>2, <1>3 DEF HouseOn
<1>4. CASE t # None
  <2>1. t \in Core!OrderTracker /\ Core!Ledger(t)
    BY <1>4, SameTypes DEF LendingInv, OrdersPart, CoreOK, CoreBooks, Core!TypeOK, Core!DebtInv,
                Core!Open, Core!OrderKeys, OrderKeys
  <2>2. t.amount_in = 0 /\ t.amount_repaid = 0
    BY <1>2 DEF Core!OpenTracker
  <2>3. t.amount_out \in Nat /\ t.amount_borrowed \in Nat
    BY <2>1 DEF Core!OrderTracker, Core!U64
  <2>4. t.amount_borrowed <= t.amount_out
    BY <2>1 DEF Core!Ledger
  <2>5. HouseOn(orders', key) = t.amount_out - t.amount_in - (t.amount_borrowed - t.amount_repaid)
    BY <1>4 DEF HouseOn, Core!Outstanding, Core!LentOutstanding
  <2>6. QED
    BY <1>1, <1>2, <2>2, <2>3, <2>4, <2>5
<1>5. QED
  BY <1>3, <1>4

\* The actions one by one.
LedgerStep == Ledger!Next /\ HouseSound'

LedgerAround ==
  LendingInv /\ LendingInv' /\ LedgerState /\ LedgerState' /\ HouseSound

LEMMA LedgerUntouched ==
  ASSUME LedgerAround, UNCHANGED <<orders, positions, touched>>
  PROVE  LedgerStep
<1>1. \A key \in OrderKeys \ touched' :
        /\ HouseOn(orders', key) = HouseOn(orders, key)
        /\ \A u \in Users : LoanOn(positions', key, u) = LoanOn(positions, key, u)
  OBVIOUS
<1>2. QED
  BY <1>1, LedgerSpoils DEF LedgerStep, LedgerAround

LEMMA LedgerBorrow ==
  ASSUME LedgerAround, NEW signer \in Keys, NEW key \in OrderKeys, NEW zov \in Zovs,
         NEW wallet \in Wallets, NEW mint \in Mints, NEW amount \in Amounts,
         NEW lenders \in (SUBSET Users) \ {{}}, NEW loans \in [lenders -> Amounts],
         NEW source \in [lenders -> Users \cup UserWallets],
         Borrow(signer, key, zov, wallet, mint, amount, loans, source)
  PROVE  LedgerStep
<1>1. /\ \A u \in lenders : ~HasPosition(key[2], u)
      /\ Core!CreateOrderFrom(Lent(loans, source, zov, mint), signer, TRUE, key,
                              zov, wallet, mint, FALSE, amount, None, SumFunction(loans))
      /\ positions' = [p \in OrderIds \X Users |->
           IF p[1] = key[2] /\ p[2] \in lenders
             THEN [partner |-> key[1], amount_borrowed |-> loans[p[2]], amount_repaid |-> 0]
             ELSE positions[p]]
      /\ UNCHANGED touched
  BY DEF Borrow
<1>2. /\ orders[key] = None /\ HouseOn(orders', key) >= 0
      /\ \A other \in OrderKeys \ {key} : orders'[other] = orders[other]
  BY <1>1, CreatedHouse DEF LedgerAround
<1>3. ASSUME NEW other \in OrderKeys \ {key}, NEW u \in Users
      PROVE  LoanOn(positions', other, u) = LoanOn(positions, other, u)
  <2>1. /\ other[2] \in OrderIds /\ (other[2] = key[2] => other[1] # key[1])
        /\ <<other[2], u>> \in OrderIds \X Users
    BY DEF OrderKeys
  <2>2. CASE other[2] = key[2] /\ u \in lenders
    <3>1. positions[<<other[2], u>>] = None
      BY <1>1, <2>2 DEF HasPosition
    <3>2. positions'[<<other[2], u>>].partner = key[1]
      BY <1>1, <2>1, <2>2
    <3>3. QED
      BY <2>1, <2>2, <3>1, <3>2 DEF LoanOn
  <2>3. CASE ~(other[2] = key[2] /\ u \in lenders)
    <3>1. positions'[<<other[2], u>>] = positions[<<other[2], u>>]
      BY <1>1, <2>1, <2>3
    <3>2. QED
      BY <3>1 DEF LoanOn
  <2>4. QED
    BY <2>2, <2>3
<1>4. OthersKept(key, orders, positions, orders', positions')
  BY <1>2, <1>3 DEF OthersKept
<1>5. QED
  BY <1>1, <1>2, <1>4, LedgerAdvances DEF LedgerStep, LedgerAround

LEMMA LedgerCreates ==
  ASSUME LedgerAround, NEW b, NEW signer, NEW byOrbit, NEW key \in OrderKeys,
         NEW zov, NEW wallet, NEW mint, NEW amount, NEW meta, NEW borrowed,
         Core!CreateOrderFrom(b, signer, byOrbit, key, zov, wallet, mint, FALSE, amount,
                              meta, borrowed),
         UNCHANGED <<positions, touched>>
  PROVE  LedgerStep
<1>1. /\ orders[key] = None /\ HouseOn(orders', key) >= 0
      /\ \A other \in OrderKeys \ {key} : orders'[other] = orders[other]
  BY CreatedHouse DEF LedgerAround
<1>2. OthersKept(key, orders, positions, orders', positions')
  BY <1>1 DEF OthersKept
<1>3. QED
  BY <1>1, <1>2, LedgerAdvances DEF LedgerStep, LedgerAround

LEMMA LedgerUnlent ==
  ASSUME LedgerAround, NEW signer \in Keys, NEW key \in OrderKeys, NEW zov \in Zovs,
         NEW mint \in Mints, NEW transient \in BOOLEAN, NEW amount \in DirectAmounts,
         Unlent(signer, key, zov, mint, transient, amount), Behind({})
  PROVE  LedgerStep
<1>1. UNCHANGED positions /\ touched \subseteq touched'
  BY DEF Behind
<1>2. FreshFor(key)
  BY UnlentOrder DEF LedgerAround
<1>3. orders[key] = None /\ OthersKept(key, orders, positions, orders', positions')
  BY <1>1, <1>2 DEF FreshFor, OthersKept
<1>4. HouseOn(orders', key) >= 0
  <2>1. CASE orders'[key] = None
    BY <2>1 DEF HouseOn
  <2>2. CASE orders'[key] # None
    <3>1. /\ Core!LentOutstanding(orders'[key]) = 0
          /\ Core!Outstanding(orders'[key]) >= 0
      BY <1>2, <2>2 DEF FreshFor
    <3>2. HouseOn(orders', key) = Core!Outstanding(orders'[key]) - 0
      BY <2>2, <3>1 DEF HouseOn
    <3>3. Core!Outstanding(orders'[key]) \in Int
      <4>1. orders'[key] \in Core!OrderTracker
        BY <2>2, SameTypes DEF LedgerAround, LendingInv, OrdersPart, CoreOK, Core!TypeOK,
                    Core!OrderKeys, OrderKeys
      <4>2. orders'[key].amount_in \in Nat /\ orders'[key].amount_out \in Nat
        BY <4>1 DEF Core!OrderTracker, Core!U64
      <4>3. QED
        BY <4>2 DEF Core!Outstanding
    <3>4. QED
      BY <3>1, <3>2, <3>3
  <2>3. QED
    BY <2>1, <2>2
<1>5. QED
  BY <1>1, <1>3, <1>4, LedgerAdvances DEF LedgerStep, LedgerAround

LEMMA LedgerCctp ==
  ASSUME LedgerAround, NEW signer \in Keys, NEW u \in Users, NEW amount \in Amounts,
         NEW recipient \in Recipients, NEW key \in OrderKeys, NEW zov \in Zovs,
         CctpFromUser(signer, u, amount, recipient, key, zov)
  PROVE  LedgerStep
<1>1. /\ Core!CreateOrderFrom(Burn(bal, u, MintOf(u), amount), signer, FALSE, key,
                              zov, None, MintOf(u), FALSE, 0, amount, 0)
      /\ UNCHANGED <<positions, touched>>
  BY DEF CctpFromUser, lendingVars
<1>2. QED
  BY <1>1, LedgerCreates

LEMMA LedgerReplenish ==
  ASSUME LedgerAround, NEW signer \in Keys, NEW key \in OrderKeys, NEW amount \in DirectAmounts,
         NEW close \in BOOLEAN, Core!Replenish(signer, key, amount, close),
         Behind(IF amount > 0 THEN {key} ELSE {})
  PROVE  LedgerStep
<1> DEFINE t == orders[key]
           paidIn == [t EXCEPT !.amount_in = @ + amount]
<1>1. /\ Open(key)
      /\ orders' = [orders EXCEPT ![key] = IF close THEN None ELSE paidIn]
      /\ (amount = 0 \/ close) => paidIn.amount_in >= paidIn.amount_out
  BY DEF Core!Replenish, Core!ReplenishAccounts, Core!Open, Open, Core!Replenished
<1>2. /\ UNCHANGED positions /\ touched \subseteq touched' /\ amount \in Nat
      /\ amount > 0 => key \in touched'
      /\ amount = 0 => touched' = touched
  BY LendingAssumption DEF Behind, U64
<1>3. \A other \in OrderKeys \ {key} : orders'[other] = orders[other]
  BY <1>1, InvFacts DEF LedgerAround
<1>4. CASE amount > 0
  <2>1. OthersKept(key, orders, positions, orders', positions')
    BY <1>2, <1>3 DEF OthersKept
  <2>2. QED
    BY <1>2, <1>4, <2>1, LedgerAdvances DEF LedgerStep, LedgerAround
<1>5. CASE amount = 0 /\ key \in touched
  <2>1. OthersKept(key, orders, positions, orders', positions')
    BY <1>2, <1>3 DEF OthersKept
  <2>2. QED
    BY <1>2, <1>5, <2>1, LedgerAdvances DEF LedgerStep, LedgerAround
<1>6. CASE amount = 0 /\ key \notin touched
  <2>1. /\ t \in Core!OrderTracker /\ Core!Ledger(t) /\ Core!Senior(t, audit[key])
        /\ ~audit[key].direct /\ ~audit[key].recorded
    BY <1>1, <1>6, OpenFacts DEF LedgerAround, LendingInv, OrdersPart, Clean, Open
  <2>2. /\ t.amount_in \in Nat /\ t.amount_out \in Nat
        /\ t.amount_borrowed \in Nat /\ t.amount_repaid \in Nat
    BY <2>1 DEF Core!OrderTracker, Core!U64
  <2>3. paidIn = t /\ t.amount_in >= t.amount_out
    <3>1. paidIn.amount_in = t.amount_in /\ paidIn.amount_out = t.amount_out
      BY <1>6, <2>1, <2>2 DEF Core!OrderTracker
    <3>2. t.amount_in + amount = t.amount_in
      BY <1>6, <2>2
    <3>3. paidIn = t
      BY <2>1, <3>2 DEF Core!OrderTracker
    <3>4. QED
      BY <1>1, <1>6, <3>1, <3>3
  <2>4. Core!LentOutstanding(t) = 0
    BY <2>1, <2>3, ReplenishedOwesNone
  <2>5. HouseOn(orders, key) = t.amount_out - t.amount_in
    <3>1. HouseOn(orders, key) = t.amount_out - t.amount_in - 0
      BY <1>1, <2>4 DEF HouseOn, Open, Core!Outstanding
    <3>2. QED
      BY <2>2, <3>1
  <2>6. HouseOn(orders, key) = 0
    BY <1>6, <2>2, <2>3, <2>5 DEF LedgerAround, HouseSound
  <2>7. HouseOn(orders', key) = HouseOn(orders, key)
    <3>1. orders'[key] = None \/ orders'[key] = t
      BY <1>1, <2>3, InvFacts DEF LedgerAround
    <3>2. QED
      BY <2>6, <3>1 DEF HouseOn
  <2>8. \A other \in OrderKeys : HouseOn(orders', other) = HouseOn(orders, other)
    BY <1>3, <2>7 DEF HouseOn
  <2>9. \A other \in OrderKeys \ touched' :
          /\ HouseOn(orders', other) = HouseOn(orders, other)
          /\ \A u \in Users : LoanOn(positions', other, u) = LoanOn(positions, other, u)
    BY <1>2, <2>8
  <2>10. QED
    BY <1>2, <2>9, LedgerSpoils DEF LedgerStep, LedgerAround
<1>7. QED
  BY <1>2, <1>4, <1>5, <1>6

LEMMA LedgerRecord ==
  ASSUME LedgerAround, NEW signer \in Keys, NEW key \in OrderKeys, NEW amount \in DirectAmounts,
         Core!RecordOrder(signer, key, amount), Behind({key})
  PROVE  LedgerStep
<1>1. UNCHANGED positions /\ touched' = touched \cup {key}
  BY DEF Behind
<1>2. \A other \in OrderKeys \ {key} : orders'[other] = orders[other]
  BY InvFacts DEF LedgerAround, Core!RecordOrder, Core!RecordPayout, Core!RecordReplenishment
<1>3. OthersKept(key, orders, positions, orders', positions')
  BY <1>1, <1>2 DEF OthersKept
<1>4. QED
  BY <1>1, <1>3, LedgerAdvances DEF LedgerStep, LedgerAround

LEMMA LedgerClose ==
  ASSUME LedgerAround, NEW signer \in Keys, NEW keys \in SUBSET OrderKeys,
         Core!CloseOrders(signer, keys), Behind(keys)
  PROVE  LedgerStep
<1>1. /\ UNCHANGED positions /\ touched' = touched \cup keys
      /\ \A key \in OrderKeys \ keys : orders'[key] = orders[key]
  BY SameTypes DEF Behind, Core!CloseOrders
<1>2. \A key \in OrderKeys \ touched' :
        /\ HouseOn(orders', key) = HouseOn(orders, key)
        /\ \A u \in Users : LoanOn(positions', key, u) = LoanOn(positions, key, u)
  BY <1>1 DEF HouseOn
<1>3. QED
  BY <1>1, <1>2, LedgerSpoils DEF LedgerStep, LedgerAround

LEMMA LedgerStrike ==
  ASSUME LedgerAround, NEW signer \in Keys, NEW closeUsers \in SUBSET Users,
         NEW closeWithdraws \in SUBSET Users, NEW closeCliffs \in SUBSET Users,
         NEW closeVault \in BOOLEAN, NEW closing \in SUBSET (OrderIds \X Users),
         RevokeAny(signer, closeUsers, closeWithdraws, closeCliffs, closeVault, closing)
  PROVE  LedgerStep
<1>1. /\ positions' = [p \in OrderIds \X Users |-> IF p \in closing THEN None ELSE positions[p]]
      /\ touched' = touched \cup {<<positions[p].partner, p[1]>> : p \in closing}
      /\ UNCHANGED orders
  BY DEF RevokeAny, coreVars
<1>2. ASSUME NEW key \in OrderKeys \ touched', NEW u \in Users
      PROVE  LoanOn(positions', key, u) = LoanOn(positions, key, u)
  <2> DEFINE p == <<key[2], u>>
  <2>1. p \in OrderIds \X Users /\ key = <<key[1], key[2]>>
    BY DEF OrderKeys
  <2>2. CASE p \in closing
    <3>1. <<positions[p].partner, p[1]>> \in touched'
      BY <1>1, <2>2
    <3>2. p[1] = key[2] /\ positions'[p] = None
      BY <1>1, <2>1, <2>2
    <3>3. positions[p].partner # key[1]
      BY <2>1, <3>1, <3>2
    <3>4. QED
      BY <3>2, <3>3 DEF LoanOn
  <2>3. CASE p \notin closing
    <3>1. positions'[p] = positions[p]
      BY <1>1, <2>1, <2>3
    <3>2. QED
      BY <3>1 DEF LoanOn
  <2>4. QED
    BY <2>2, <2>3
<1>3. \A key \in OrderKeys \ touched' :
        /\ HouseOn(orders', key) = HouseOn(orders, key)
        /\ \A u \in Users : LoanOn(positions', key, u) = LoanOn(positions, key, u)
  BY <1>1, <1>2 DEF HouseOn
<1>4. QED
  BY <1>1, <1>3, LedgerSpoils DEF LedgerStep, LedgerAround

\* A repayment of one order, by repay or in an operation of claim.  On an order with
\* sound books, lenders get on an account of theirs what their positions lose.
SharesReach(shares, booked) ==
  \A u \in Users : booked[u] > 0 =>
    Registered(u) /\ \E owner \in AccountsOf(u) : booked[u] <= shares[owner]

BooksSound(key, os, ps, oss, qs, h, repay, total, booked) ==
  /\ RepaidFairly(os[key], h, repay, total)
  /\ AgreeOn(key, oss, qs)
  /\ \A u \in Users : booked[u] <= Left(ps[<<key[2], u>>])

LoansLess(key, ps, qs, booked) ==
  \A u \in Users : /\ LoanOn(ps, key, u) \in Nat /\ LoanOn(qs, key, u) \in Nat
                   /\ LoanOn(qs, key, u) = LoanOn(ps, key, u) - booked[u]

LEMMA OtherLoans ==
  ASSUME NEW key \in OrderKeys, NEW ps, NEW qs, NEW booked, RepaidAs(ps, qs, key, booked),
         NEW other \in OrderKeys \ {key}, NEW u \in Users
  PROVE  LoanOn(qs, other, u) = LoanOn(ps, other, u)
<1>1. other[2] \in OrderIds /\ (other[2] = key[2] => other[1] # key[1])
  BY DEF OrderKeys
<1>2. \/ qs[<<other[2], u>>] = ps[<<other[2], u>>]
      \/ /\ ps[<<other[2], u>>] # None => ps[<<other[2], u>>].partner # other[1]
         /\ qs[<<other[2], u>>] # None => qs[<<other[2], u>>].partner # other[1]
  BY <1>1 DEF RepaidAs, MovedBy
<1>3. QED
  BY <1>2 DEF LoanOn

LEMMA OwnLoans ==
  ASSUME NEW key \in OrderKeys, NEW ps, PositionsOK(ps), NEW qs, NEW booked \in [Users -> Nat],
         LendersOnly(ps, key, booked), RepaidAs(ps, qs, key, booked),
         \A u \in Users : booked[u] <= Left(ps[<<key[2], u>>])
  PROVE  LoansLess(key, ps, qs, booked)
<1> SUFFICES ASSUME NEW u \in Users
             PROVE  /\ LoanOn(ps, key, u) \in Nat /\ LoanOn(qs, key, u) \in Nat
                    /\ LoanOn(qs, key, u) = LoanOn(ps, key, u) - booked[u]
  BY DEF LoansLess
<1> DEFINE before == ps[<<key[2], u>>]
           after == qs[<<key[2], u>>]
<1>1. /\ LoanOn(ps, key, u) \in Nat /\ LoanOn(qs, key, u) \in Nat
      /\ Left(before) \in Nat /\ Left(after) \in Nat
  BY LeftNat DEF RepaidAs, OrderKeys
<1>2. /\ Left(after) = Left(before) - booked[u]
      /\ before = after \/ /\ before # None => before.partner = key[1]
                           /\ after # None => after.partner = key[1]
  <2>1. Moved(ps, qs, key)[u] = -booked[u] /\ booked[u] \in Nat
    BY DEF RepaidAs
  <2>2. /\ Left(after) = Left(before) + Moved(ps, qs, key)[u]
        /\ before = after \/ /\ before # None => before.partner = key[1]
                             /\ after # None => after.partner = key[1]
    BY DEF RepaidAs, MovedBy
  <2>3. QED
    BY <1>1, <2>1, <2>2
<1>3. /\ LoanOn(ps, key, u) = IF before # None /\ before.partner = key[1] THEN Left(before) ELSE 0
      /\ LoanOn(qs, key, u) = IF after # None /\ after.partner = key[1] THEN Left(after) ELSE 0
      /\ before = None => Left(before) = 0
      /\ after = None => Left(after) = 0
      /\ booked[u] > 0 => before # None /\ before.partner = key[1]
      /\ booked[u] \in Nat
  BY DEF LoanOn, Left, LendersOnly, Lending
<1> HIDE DEF before, after
<1>4. CASE booked[u] > 0
  <2>1. before # None /\ before.partner = key[1]
    BY <1>3, <1>4
  <2>2. after = None \/ after.partner = key[1]
    BY <1>2, <2>1
  <2>3. QED
    BY <1>1, <1>2, <1>3, <2>1, <2>2
<1>5. CASE booked[u] = 0
  <2>1. Left(after) = Left(before)
    BY <1>1, <1>2, <1>5
  <2>2. QED
    BY <1>1, <1>2, <1>3, <1>5, <2>1
<1>6. QED
  BY <1>3, <1>4, <1>5

RepaidOrder(key, b, os, bb, oss, amount, repay, shares) ==
  /\ amount \in Nat /\ repay \in Nat /\ shares \in [Payees -> U64]
  /\ os[key] # None /\ Core!Ledger(os[key])
  /\ Core!Repayable(b, key, os[key], amount, repay, shares)
  /\ bb = Core!BalancesRepaid(b, key, os[key], amount, shares)
  /\ oss = [os EXCEPT ![key] = Core!TrackerRepaid(os[key], repay, SumFunction(shares))]

LEMMA RepaidIsPaid ==
  ASSUME Plain, UsersTypeOK, Core!TypeOK, Core!Running, NEW keys \in SUBSET OrderKeys,
         NEW key \in OrderKeys, NEW b, NEW os, NEW ps, BooksTyped(b, os, ps),
         NEW bb, NEW oss, NEW qs, BooksTyped(bb, oss, qs),
         NEW amount, NEW repay, NEW shares,
         RepaidOrder(key, b, os, bb, oss, amount, repay, shares),
         NEW booked \in [Users -> Nat], LendersOnly(ps, key, booked),
         RepaidAs(ps, qs, key, booked),
         NEW h, key \in keys =>
           /\ SharesReach(shares, booked)
           /\ BooksSound(key, os, ps, oss, qs, h, repay, SumFunction(shares), booked)
  PROVE  PaidOff(keys, b, os, ps, bb, oss, qs)
<1> DEFINE t == os[key]
           total == SumFunction(shares)
<1>1. /\ t \in Core!OrderTracker /\ t # None /\ Core!Ledger(t)
      /\ amount \in Nat /\ repay \in Nat /\ shares \in [Payees -> U64]
      /\ Core!Repayable(b, key, t, amount, repay, shares) /\ repay <= amount
      /\ bb = Core!BalancesRepaid(b, key, t, amount, shares)
      /\ oss[key] = Core!TrackerRepaid(t, repay, total)
      /\ \A other \in OrderKeys \ {key} : oss[other] = os[other]
  BY DEF RepaidOrder, BooksTyped, OrdersTyped, Core!Repayable
<1> HIDE DEF t, total
<1>2. PursesMoved(b, bb, key, amount, shares)
  BY <1>1, RepaymentPurses DEF BooksTyped
<1>3. ASSUME NEW owner \in Payees
      PROVE  /\ PurseOf(b, owner) \in Nat /\ PurseOf(bb, owner) \in Nat /\ shares[owner] \in Nat
             /\ PurseOf(b, owner) + shares[owner] <= PurseOf(bb, owner)
             /\ PurseOf(b, owner) <= PurseOf(bb, owner)
  <2>1. shares[owner] \in Nat
    BY <1>1, WidthAssumption DEF U64
  <2>2. owner \in Holders
    BY LendingAssumption DEF Payees, Core!Accounts
  <2>3. PurseOf(b, owner) \in Nat /\ PurseOf(bb, owner) \in Nat
    BY <2>2, PursesAreNat DEF BooksTyped
  <2>4. PurseOf(b, owner) + shares[owner] <= PurseOf(bb, owner)
    BY <1>2 DEF PursesMoved
  <2>5. QED
    BY ONLY <2>1, <2>3, <2>4
<1>4. \A owner \in Users \cup UserWallets : PurseOf(b, owner) <= PurseOf(bb, owner)
  BY <1>3 DEF Payees
<1>5. ASSUME key \in keys, NEW u \in Users
      PROVE  HandOf(b, u) + booked[u] <= HandOf(bb, u)
  <2> DEFINE gain == booked[u]
  <2>1. gain \in Nat
    OBVIOUS
  <2>2. ASSUME gain > 0
        PROVE  /\ Registered(u)
               /\ \E owner \in AccountsOf(u) : PurseOf(b, owner) + gain <= PurseOf(bb, owner)
    <3>1. Registered(u) /\ \E owner \in AccountsOf(u) : gain <= shares[owner]
      BY <1>5, <2>2 DEF SharesReach
    <3>2. PICK owner \in AccountsOf(u) : gain <= shares[owner]
      BY <3>1
    <3>3. owner \in Payees
      BY <3>1, UserFacts DEF AccountsOf, Payees
    <3>4. PurseOf(b, owner) + gain <= PurseOf(bb, owner)
      BY <1>3, <2>1, <3>2, <3>3
    <3>5. QED
      BY <3>1, <3>4
  <2> HIDE DEF gain
  <2>3. HandOf(b, u) + gain <= HandOf(bb, u)
    BY <1>4, <2>1, <2>2, HandGrows DEF BooksTyped
  <2>4. QED
    BY <2>3 DEF gain
<1>6. \A u \in Users : HandOf(b, u) <= HandOf(bb, u)
  <2>1. ASSUME NEW u \in Users PROVE HandOf(b, u) <= HandOf(bb, u)
    <3>1. HandOf(b, u) \in Nat /\ HandOf(bb, u) \in Nat
      BY HandsAreNat DEF BooksTyped
    <3>2. 0 \in Nat /\ ~(0 > 0)
      OBVIOUS
    <3>3. HandOf(b, u) + 0 <= HandOf(bb, u)
      BY <1>4, <3>2, HandGrows DEF BooksTyped
    <3>4. QED
      BY ONLY <3>1, <3>3
  <2>2. QED
    BY <2>1
<1>7. OthersKept(key, os, ps, oss, qs)
  <2>1. \A other \in OrderKeys \ {key}, u \in Users : LoanOn(qs, other, u) = LoanOn(ps, other, u)
    BY OtherLoans
  <2>2. QED
    BY <1>1, <2>1 DEF OthersKept
<1>8. ASSUME key \in keys
      PROVE  OrderPaid(key, b, os, ps, bb, oss, qs)
  <2>1. BooksSound(key, os, ps, oss, qs, h, repay, total, booked)
    BY <1>8 DEF total
  <2>2. LoansLess(key, ps, qs, booked)
    BY <2>1, OwnLoans DEF BooksSound, BooksTyped
  <2>3. \A u \in Users : LoanOn(qs, key, u) <= LoanOn(ps, key, u)
    BY <2>2 DEF LoansLess
  <2>4. RepaidFairly(os[key], h, repay, total) /\ AgreeOn(key, oss, qs)
    BY <2>1 DEF BooksSound
  <2>5. DebtsFall({key}, os, ps, oss, qs)
    BY <1>1, <2>3, <2>4, RepaidDebts DEF BooksTyped, t
  <2>6. AllOn(os, key) - AllOn(oss, key) <= PurseOf(b, key[1]) - PurseOf(bb, key[1])
    <3>1. AllOn(os, key) - AllOn(oss, key) = repay
      <4>1. HouseLess(os, oss, key, repay, total)
        BY <1>1, <2>4, RepaidHouse DEF BooksTyped, t
      <4>2. QED
        BY <4>1 DEF HouseLess
    <3>2. key[1] \in Holders
      BY OwnerSets DEF OrderKeys
    <3>3. PurseOf(bb, key[1]) = PurseOf(b, key[1]) - amount /\ PurseOf(b, key[1]) \in Nat
      BY <1>2, <3>2, PursesAreNat DEF PursesMoved, BooksTyped
    <3>4. amount \in Nat /\ repay \in Nat /\ repay <= amount
      BY <1>1
    <3>5. QED
      BY ONLY <3>1, <3>3, <3>4
  <2>7. ASSUME NEW u \in Users
        PROVE  LoanOn(ps, key, u) - LoanOn(qs, key, u) <= HandOf(bb, u) - HandOf(b, u)
    <3>1. /\ LoanOn(ps, key, u) \in Nat /\ LoanOn(qs, key, u) \in Nat
          /\ LoanOn(qs, key, u) = LoanOn(ps, key, u) - booked[u]
      BY <2>2 DEF LoansLess
    <3>2. HandOf(b, u) \in Nat /\ HandOf(bb, u) \in Nat /\ booked[u] \in Nat
      BY HandsAreNat DEF BooksTyped
    <3>3. HandOf(b, u) + booked[u] <= HandOf(bb, u)
      BY <1>5, <1>8
    <3>4. QED
      BY ONLY <3>1, <3>2, <3>3
  <2>8. QED
    BY <2>5, <2>6, <2>7 DEF OrderPaid
<1>9. \A partner \in Partners : PurseOf(bb, partner) <= PurseOf(b, partner)
  BY <1>2 DEF PursesMoved
<1>10. QED
  BY <1>6, <1>7, <1>8, <1>9, OneOrderPaid

\* A share of a repayment that names no lender twice is in its payee's account.
LEMMA SharesArrive ==
  ASSUME UsersTypeOK, NEW n, NEW shares, NEW supplied, NEW payee, NEW booked, NEW paid,
         Shared(n, shares, supplied, payee, booked, paid), NamedOnce(n, supplied),
         PaysLenders(n, shares, supplied, payee)
  PROVE  SharesReach(paid, booked)
<1>1. PaysAsBooked(n, shares, supplied, booked, paid)
  BY PaidOut
<1>2. SUFFICES ASSUME NEW u \in Users, booked[u] > 0
               PROVE  Registered(u) /\ \E owner \in AccountsOf(u) : booked[u] <= paid[owner]
  BY DEF SharesReach
<1>3. PICK i \in 1..n : supplied[i] = u
  BY <1>1, <1>2 DEF PaysAsBooked
<1>4. booked[u] = shares[i]
  BY <1>1, <1>3 DEF PaysAsBooked, NamedOnce
<1>5. Registered(u) /\ payee[i] \in AccountsOf(u)
  BY <1>2, <1>3, <1>4 DEF PaysLenders, AccountsOf
<1>6. shares[i] <= paid[payee[i]]
  <2> DEFINE owner == payee[i]
             I == {j \in 1..n : payee[j] = owner}
  <2>1. owner \in Payees /\ paid[owner] = SumFunctionOnSet(shares, I)
    BY DEF Shared, SumsBy
  <2>2. IsFiniteSet(I) /\ i \in I /\ \A j \in I : shares[j] \in Nat
    BY FS_Interval, FS_Subset DEF Shared
  <2> HIDE DEF I
  <2>3. shares[i] <= SumFunctionOnSet(shares, I)
    BY <2>2, SumNat
  <2>4. QED
    BY <2>1, <2>3
<1>7. QED
  BY <1>4, <1>5, <1>6

LEMMA LedgerRepay ==
  ASSUME LedgerAround, Plain, NEW signer \in Keys, NEW key \in OrderKeys, NEW amount \in Amounts,
         NEW supplied \in SeqOf(Users, MaxOperations),
         NEW wallets \in [DOMAIN supplied -> UserWallets],
         Repay(signer, key, supplied, wallets, amount)
  PROVE  LedgerStep
<1>1. LendingInv /\ LendingInv' /\ LedgerState /\ LedgerState' /\ HouseSound
  BY DEF LedgerAround
<1>2. PICK repay, n, shares, payee, booked, paid :
        RepayPays(key, amount, supplied, repay, n, shares, payee, booked, paid)
  BY <1>1, RepayMeans
<1> DEFINE t == orders[key]
           total == SumFunction(paid)
           keys == OrderKeys \ touched'
<1>3. /\ UsersTypeOK /\ Core!TypeOK /\ PositionsOK(positions)
      /\ BooksTyped(bal, orders, positions) /\ touched \subseteq OrderKeys
      /\ orders \in [OrderKeys -> Core!OrderTracker \cup {None}]
  BY <1>1, InvFacts, BooksTypedNow
<1>4. BooksTyped(bal', orders', positions')
  <2>1. BooksTyped(bal, orders, positions)'
    BY <1>1, BooksTypedNow, PTL
  <2>2. QED
    BY <2>1 DEF BooksTyped, OrdersTyped, PositionsOK
<1>5. /\ Shared(n, shares, supplied, payee, booked, paid)
      /\ SharesOwed(key, n, supplied, payee, shares)
      /\ PaysLenders(n, shares, supplied, payee)
      /\ Core!ReplenishAndRepay(key, amount, repay, paid)
      /\ positions' = Repaid(positions, key, booked)
      /\ touched' = IF NamedOnce(n, supplied) THEN touched ELSE touched \cup {key}
      /\ UNCHANGED <<userVars, approved, struck>>
      /\ amount \in Nat /\ repay \in Nat
  BY <1>2, UsersAssumption DEF RepayPays, U64
<1>6. /\ booked \in [Users -> Nat] /\ paid \in [Payees -> Nat] /\ total \in Nat
      /\ \A owner \in Payees : paid[owner] <= total
      /\ \A u \in Users : booked[u] > 0 => \E i \in 1..n : supplied[i] = u
      /\ NamedOnce(n, supplied) => \A i \in 1..n : booked[supplied[i]] = shares[i]
  BY <1>5, PaidOut DEF PaysAsBooked, NamedOnce
<1>7. /\ Core!Running /\ t # None /\ Core!Repayable(bal, key, t, amount, repay, paid)
      /\ bal' = Core!BalancesRepaid(bal, key, t, amount, paid)
      /\ orders' = [orders EXCEPT ![key] = Core!TrackerRepaid(t, repay, total)]
  BY <1>5, SameSum DEF Core!ReplenishAndRepay, Core!Open
<1>8. paid \in [Payees -> U64]
  <2>1. total <= MaxU64
    <3>1. total \in Core!U64
      BY <1>7, SameSum DEF Core!Repayable
    <3>2. QED
      BY <3>1, WidthAssumption DEF Core!U64
  <2> HIDE DEF total
  <2>2. \A owner \in Payees : paid[owner] \in U64
    BY <1>6, <2>1, WidthAssumption DEF U64
  <2>3. QED
    BY <1>6, <2>2
<1> HIDE DEF t, total, keys
<1>9. t \in Core!OrderTracker /\ Core!Ledger(t) /\ Core!Senior(t, audit[key])
  BY <1>1, <1>7, OpenFacts DEF Open, t
<1>10. RepaidOrder(key, bal, orders, bal', orders', amount, repay, paid)
  BY <1>5, <1>7, <1>8, <1>9 DEF RepaidOrder, t, total
<1>11. LendersOnly(positions, key, booked)
  BY <1>5, <1>6 DEF LendersOnly, SharesOwed
<1>12. RepaidAs(positions, positions', key, booked)
  BY <1>3, <1>5, <1>6, <1>11, RepaidPositions
<1>13. ASSUME key \in keys
       PROVE  /\ SharesReach(paid, booked)
              /\ BooksSound(key, orders, positions, orders', positions', audit[key], repay,
                            SumFunction(paid), booked)
  <2>1. key \notin touched' /\ key \notin touched /\ NamedOnce(n, supplied)
    BY <1>5, <1>13 DEF keys
  <2>2. SharesReach(paid, booked)
    BY <1>3, <1>5, <2>1, SharesArrive
  <2>3. RepaidFairly(orders[key], audit[key], repay, SumFunction(paid))
    <3>1. ~audit[key].direct /\ ~audit[key].recorded
      BY <1>1, <1>7, <2>1 DEF LendingInv, OrdersPart, Clean, t
    <3>2. /\ repay > 0 /\ Core!SharesAccepted(t, repay, total)
          /\ repay <= Core!Outstanding(t)
          /\ t.amount_repaid + total <= MaxU64 /\ t.amount_in + repay <= MaxU64
      BY <1>7, SameSum DEF Core!Repayable, total
    <3>3. QED
      BY <1>5, <1>6, <1>9, <3>1, <3>2 DEF RepaidFairly, t, total
  <2>4. AgreeOn(key, orders', positions')
    BY <1>1, <2>1 DEF LendingInv, OrdersPart, Agree, AgreeOn
  <2>5. ASSUME NEW u \in Users
        PROVE  booked[u] <= Left(positions[<<key[2], u>>])
    <3>1. CASE booked[u] > 0
      <4>1. PICK i \in 1..n : supplied[i] = u
        BY <1>6, <3>1
      <4>2. booked[u] = shares[i] /\ shares[i] <= Left(positions[<<key[2], u>>])
        BY <1>5, <1>6, <2>1, <4>1 DEF SharesOwed
      <4>3. QED
        BY <4>2
    <3>2. CASE ~(booked[u] > 0)
      <4>1. booked[u] = 0 /\ key[2] \in OrderIds
        BY <1>6, <3>2 DEF OrderKeys
      <4>2. Left(positions[<<key[2], u>>]) \in Nat
        BY <1>3, <4>1, LeftNat
      <4>3. QED
        BY <4>1, <4>2
    <3>3. QED
      BY <3>1, <3>2
  <2>6. QED
    BY <2>2, <2>3, <2>4, <2>5 DEF BooksSound
<1>14. PaidOff(keys, bal, orders, positions, bal', orders', positions')
  <2>1. keys \in SUBSET OrderKeys
    BY DEF keys
  <2>2. QED
    BY <1>3, <1>4, <1>6, <1>7, <1>10, <1>11, <1>12, <1>13, <2>1, RepaidIsPaid
<1>15. HandsKept /\ touched \subseteq touched'
  BY <1>5 DEF HandsKept, Registered, userVars
<1>16. QED
  BY <1>1, <1>14, <1>15, LedgerPaysOff DEF LedgerStep, keys

-----------------------------------------------------------------------------
(***************************************************************************)
(* claim: what holds of the books after each operation of its loop, as a   *)
(* statement about any orders, histories and positions.                    *)
(***************************************************************************)
BooksHold(os, hs, ps) ==
  /\ os \in [OrderKeys -> Core!OrderTracker \cup {None}] /\ hs \in [OrderKeys -> Core!History]
  /\ \A key \in OrderKeys : os[key] # None => CoreP!Book(os[key], hs[key])
  /\ PositionsOK(ps)
  /\ Clean(os, hs, touched)
  /\ Agree(ps, os, touched)

LEMMA SameBook ==
  ASSUME NEW t, NEW h
  PROVE  CoreP!Book(t, h) <=> Core!Ledger(t) /\ Core!Senior(t, h) /\ Core!Covered(t, h)
BY DEF CoreP!Book, Core!Ledger, CoreP!Ledger, Core!Senior, CoreP!Senior, Core!Covered,
       CoreP!Covered

LEMMA BooksHoldNow ==
  ASSUME LendingInv
  PROVE  BooksHold(orders, audit, positions)
<1>1. \A key \in OrderKeys : orders[key] # None => CoreP!Book(orders[key], audit[key])
  <2>1. ASSUME NEW key \in OrderKeys, orders[key] # None
        PROVE  CoreP!Book(orders[key], audit[key])
    BY <2>1, OpenFacts, SameBook DEF Open
  <2>2. QED
    BY <2>1
<1>2. QED
  BY <1>1, InvFacts DEF BooksHold, LendingInv, OrdersPart

LEMMA OrdersPartFrom ==
  ASSUME LendingInv, BooksHold(orders', audit', positions'), bal' \in Balances,
         UNCHANGED <<config, beneficiaries, approved, touched, struck>>
  PROVE  OrdersPart'
<1>1. Core!TypeOK'
  <2>1. /\ config' \in Core!Config \cup {None} /\ (config' # None => config'.mints # {})
        /\ beneficiaries' \in [Partners \X Wallets -> Core!Beneficiary \cup {None}]
    BY InvFacts DEF Core!TypeOK, Core!Initialized
  <2>2. /\ orders' \in [Core!OrderKeys -> Core!OrderTracker \cup {None}]
        /\ audit' \in [Core!OrderKeys -> Core!History]
    BY SameTypes DEF BooksHold
  <2>3. bal' \in [Core!Accounts -> [Mints -> Nat]]
    BY LendingAssumption DEF Balances, BalancesOf
  <2>4. QED
    BY <2>1, <2>2, <2>3 DEF Core!TypeOK, Core!Initialized
<1>2. ASSUME NEW key \in OrderKeys, orders'[key] # None
      PROVE  /\ Core!Ledger(orders'[key]) /\ Core!Senior(orders'[key], audit'[key])
             /\ Core!Covered(orders'[key], audit'[key])
  BY <1>2, SameBook DEF BooksHold
<1>3. CoreBooks'
  BY <1>2, SameTypes DEF CoreBooks, Core!DebtInv, Core!LendersSenior,
                         Core!LendersPaidByPartner, Core!Open
<1>4. QED
  BY <1>1, <1>3, InvFacts DEF OrdersPart, CoreOK, BooksHold, LendingInv

\* One position repaid by `amount`: what changes for its lender, and for nobody else.
OneBooked(u, amount) == [v \in Users |-> IF v = u THEN amount ELSE 0]

RepaidTo(ps, key, u, amount) == [ps EXCEPT ![<<key[2], u>>] = PositionRepaid(@, amount)]

OnlyOneRepaid(ps, qs, key, u, amount) ==
  /\ PositionsOK(qs)
  /\ DebtTo(qs, u) = DebtTo(ps, u) - amount
  /\ \A v \in Users \ {u} : DebtTo(qs, v) = DebtTo(ps, v)
  /\ DebtOn(qs, key) = DebtOn(ps, key) - amount
  /\ \A other \in OrderKeys \ {key} : DebtOn(qs, other) = DebtOn(ps, other)

LEMMA OnePositionBooked ==
  ASSUME NEW ps, PositionsOK(ps), NEW key \in OrderKeys, NEW u \in Users,
         Lending(ps, key, u), NEW amount \in Nat, amount > 0
  PROVE  /\ OneBooked(u, amount) \in [Users -> Nat]
         /\ LendersOnly(ps, key, OneBooked(u, amount))
         /\ RepaidAs(ps, RepaidTo(ps, key, u, amount), key, OneBooked(u, amount))
<1> DEFINE booked == OneBooked(u, amount)
           qs == RepaidTo(ps, key, u, amount)
<1>1. /\ booked \in [Users -> Nat] /\ booked[u] = amount
      /\ \A v \in Users \ {u} : booked[v] = 0
  BY DEF OneBooked
<1> HIDE DEF booked
<1>2. qs = Repaid(ps, key, booked)
  <2>1. \A p \in OrderIds \X Users :
          p[1] = key[2] /\ booked[p[2]] > 0 <=> p = <<key[2], u>>
    <3>1. ASSUME NEW p \in OrderIds \X Users
          PROVE  p[1] = key[2] /\ booked[p[2]] > 0 <=> p = <<key[2], u>>
      <4>1. p = <<p[1], p[2]>> /\ p[2] \in Users
        OBVIOUS
      <4>2. booked[p[2]] > 0 <=> p[2] = u
        BY <1>1, <4>1
      <4>3. QED
        BY <4>1, <4>2
    <3>2. QED
      BY <3>1
  <2>2. ps = [p \in OrderIds \X Users |-> ps[p]]
    BY DEF PositionsOK
  <2>3. qs = [p \in OrderIds \X Users |->
                IF p = <<key[2], u>> THEN PositionRepaid(ps[p], amount) ELSE ps[p]]
    BY <2>2 DEF RepaidTo
  <2>4. \A p \in OrderIds \X Users :
          (IF p[1] = key[2] /\ booked[p[2]] > 0 THEN PositionRepaid(ps[p], booked[p[2]])
                                                ELSE ps[p])
            = IF p = <<key[2], u>> THEN PositionRepaid(ps[p], amount) ELSE ps[p]
    <3>1. ASSUME NEW p \in OrderIds \X Users
          PROVE  (IF p[1] = key[2] /\ booked[p[2]] > 0
                    THEN PositionRepaid(ps[p], booked[p[2]]) ELSE ps[p])
                   = IF p = <<key[2], u>> THEN PositionRepaid(ps[p], amount) ELSE ps[p]
      <4>1. CASE p = <<key[2], u>>
        <5>1. p[2] = u /\ p[1] = key[2] /\ booked[p[2]] > 0
          BY <1>1, <4>1
        <5>2. QED
          BY <1>1, <4>1, <5>1
      <4>2. CASE p # <<key[2], u>>
        BY <2>1, <4>2
      <4>3. QED
        BY <4>1, <4>2
    <3>2. QED
      BY <3>1
  <2> HIDE DEF qs
  <2>5. QED
    BY <2>3, <2>4 DEF Repaid
<1> HIDE DEF qs
<1>3. LendersOnly(ps, key, booked)
  BY <1>1 DEF LendersOnly
<1>4. RepaidAs(ps, qs, key, booked)
  BY <1>1, <1>2, <1>3, RepaidPositions
<1>5. QED
  BY <1>1, <1>3, <1>4 DEF booked, qs

LEMMA OnePositionRepaid ==
  ASSUME NEW ps, PositionsOK(ps), NEW key \in OrderKeys, NEW u \in Users,
         Lending(ps, key, u), NEW amount \in Nat, amount > 0,
         amount <= Left(ps[<<key[2], u>>])
  PROVE  OnlyOneRepaid(ps, RepaidTo(ps, key, u, amount), key, u, amount)
<1> DEFINE booked == OneBooked(u, amount)
           qs == RepaidTo(ps, key, u, amount)
           moved == Moved(ps, qs, key)
<1>1. /\ booked \in [Users -> Nat] /\ booked[u] = amount
      /\ \A v \in Users \ {u} : booked[v] = 0
  BY DEF OneBooked
<1>2. RepaidAs(ps, qs, key, booked)
  BY OnePositionBooked
<1> HIDE DEF booked, qs
<1>5. /\ PositionsOK(qs) /\ moved \in [Users -> Int] /\ MovedBy(ps, qs, key, moved)
      /\ moved[u] = -amount /\ \A v \in Users \ {u} : moved[v] = 0
  <2>1. key[2] \in OrderIds
    BY DEF OrderKeys
  <2>2. \A v \in Users : booked[v] <= Left(ps[<<key[2], v>>])
    <3>1. \A v \in Users : Left(ps[<<key[2], v>>]) \in Nat
      BY <2>1, LeftNat
    <3>2. QED
      BY <1>1, <3>1
  <2> HIDE DEF moved
  <2>3. /\ PositionsOK(qs) /\ moved \in [Users -> Int] /\ MovedBy(ps, qs, key, moved)
        /\ \A v \in Users : moved[v] = -booked[v]
    BY <1>2, <2>2 DEF RepaidAs, moved
  <2>4. QED
    BY <1>1, <2>3
<1> HIDE DEF moved
<1>6. SumFunctionOnSet(moved, Users) = -amount
  BY <1>5, Finite, SumOnly
<1>7. PositionsOK(ps) /\ key \in OrderKeys
  OBVIOUS
<1>8. \A v \in Users : DebtTo(qs, v) = DebtTo(ps, v) + moved[v]
  BY ONLY <1>5, <1>7, DebtsMove
<1>9. /\ DebtOn(qs, key) = DebtOn(ps, key) + SumFunctionOnSet(moved, Users)
      /\ \A other \in OrderKeys \ {key} : DebtOn(qs, other) = DebtOn(ps, other)
  BY ONLY <1>5, <1>7, DebtsMove
<1>10. /\ \A v \in Users : DebtTo(ps, v) \in Nat
       /\ DebtOn(ps, key) \in Nat
  BY DebtNat
<1>11. DebtTo(qs, u) = DebtTo(ps, u) - amount /\ DebtOn(qs, key) = DebtOn(ps, key) - amount
  BY <1>5, <1>6, <1>8, <1>9, <1>10
<1>12. \A v \in Users \ {u} : DebtTo(qs, v) = DebtTo(ps, v)
  BY <1>5, <1>8, <1>10
<1>13. OnlyOneRepaid(ps, qs, key, u, amount)
  BY <1>5, <1>9, <1>11, <1>12 DEF OnlyOneRepaid
<1>14. QED
  BY <1>13 DEF qs

\* ... and in both books.
OrdersAfter(os, key, amount) ==
  [os EXCEPT ![key] = Core!TrackerRepaid(os[key], amount, amount)]

HistoriesAfter(os, hs, key, amount) ==
  [hs EXCEPT ![key].arrived = @ + Arrives(os[key].mint, amount), ![key].paid = @ + amount]

MayRepay(os, ps, key, u, amount) ==
  /\ key \in OrderKeys /\ os[key] # None /\ u \in Users /\ Lending(ps, key, u)
  /\ amount \in Nat /\ amount > 0 /\ amount <= Left(ps[<<key[2], u>>])
  /\ Core!SharesAccepted(os[key], amount, amount) /\ amount <= Core!Outstanding(os[key])
  /\ os[key].amount_repaid + amount <= MaxU64 /\ os[key].amount_in + amount <= MaxU64
  /\ Core!TrackerRepaid(os[key], amount, amount) \in Core!OrderTracker \cup {None}

LEMMA OneRepaid ==
  ASSUME LendingInv, NEW os, NEW hs, NEW ps, BooksHold(os, hs, ps),
         NEW key, NEW u, NEW amount, MayRepay(os, ps, key, u, amount),
         NEW oss, oss = OrdersAfter(os, key, amount),
         NEW hss, hss = HistoriesAfter(os, hs, key, amount),
         NEW qs, qs = RepaidTo(ps, key, u, amount)
  PROVE  /\ BooksHold(oss, hss, qs)
         /\ DebtTo(qs, u) = DebtTo(ps, u) - amount
         /\ \A v \in Users \ {u} : DebtTo(qs, v) = DebtTo(ps, v)
<1> /\ key \in OrderKeys /\ os[key] # None /\ u \in Users /\ Lending(ps, key, u)
    /\ amount \in Nat /\ amount > 0 /\ amount <= Left(ps[<<key[2], u>>])
    /\ Core!SharesAccepted(os[key], amount, amount) /\ amount <= Core!Outstanding(os[key])
    /\ os[key].amount_repaid + amount <= MaxU64 /\ os[key].amount_in + amount <= MaxU64
    /\ Core!TrackerRepaid(os[key], amount, amount) \in Core!OrderTracker \cup {None}
    /\ oss = [os EXCEPT ![key] = Core!TrackerRepaid(os[key], amount, amount)]
    /\ hss = [hs EXCEPT ![key].arrived = @ + Arrives(os[key].mint, amount),
                        ![key].paid = @ + amount]
  BY DEF MayRepay, OrdersAfter, HistoriesAfter
<1> DEFINE t == os[key]
           h == hs[key]
           after == Core!TrackerRepaid(t, amount, amount)
           g == [h EXCEPT !.arrived = @ + Arrives(t.mint, amount), !.paid = @ + amount]
<1>1. /\ os \in [OrderKeys -> Core!OrderTracker \cup {None}]
      /\ hs \in [OrderKeys -> Core!History] /\ PositionsOK(ps)
      /\ t \in Core!OrderTracker /\ h \in Core!History
      /\ CoreP!Book(t, h)
      /\ Core!Ledger(t) /\ Core!Senior(t, h)
  BY SameBook DEF BooksHold
<1>2. /\ PositionsOK(qs)
      /\ DebtTo(qs, u) = DebtTo(ps, u) - amount
      /\ \A v \in Users \ {u} : DebtTo(qs, v) = DebtTo(ps, v)
      /\ DebtOn(qs, key) = DebtOn(ps, key) - amount
      /\ \A other \in OrderKeys \ {key} : DebtOn(qs, other) = DebtOn(ps, other)
  <2>1. OnlyOneRepaid(ps, qs, key, u, amount)
    BY <1>1, OnePositionRepaid
  <2>2. QED
    BY <2>1 DEF OnlyOneRepaid
<1>3. /\ oss[key] = after /\ \A other \in OrderKeys \ {key} : oss[other] = os[other]
      /\ oss \in [OrderKeys -> Core!OrderTracker \cup {None}]
  BY <1>1
<1>4. /\ g \in Core!History /\ hss[key] = g
      /\ \A other \in OrderKeys \ {key} : hss[other] = hs[other]
      /\ hss \in [OrderKeys -> Core!History]
      /\ hss[key].direct = h.direct /\ hss[key].recorded = h.recorded
  <2>1. Arrives(t.mint, amount) \in Nat
    BY ArrivesBounds
  <2>2. g \in Core!History /\ g.direct = h.direct /\ g.recorded = h.recorded
    BY <1>1, <2>1 DEF Core!History
  <2>3. hss[key] = g /\ \A other \in OrderKeys \ {key} : hss[other] = hs[other]
    BY <1>1 DEF Core!History
  <2>4. hss \in [OrderKeys -> Core!History]
    <3>1. DOMAIN hss = OrderKeys /\ hss = [k \in OrderKeys |-> hss[k]]
      BY <1>1
    <3> HIDE DEF g
    <3>2. QED
      BY <1>1, <2>2, <2>3, <3>1
  <2>5. QED
    BY <2>2, <2>3, <2>4
<1>5. after # None => CoreP!Book(after, g)
  <2>1. /\ t \in CoreP!OrderTracker /\ h \in CoreP!History
        /\ CoreP!SharesAccepted(t, amount, amount) /\ amount <= CoreP!Outstanding(t)
    BY <1>1, SameTypes, SameRepayment
  <2>2. CoreP!Book([t EXCEPT !.amount_repaid = @ + amount, !.amount_in = @ + amount],
                   [h EXCEPT !.arrived = @ + CoreP!Arrives(t.mint, amount),
                             !.paid = @ + amount])
    <3>1. CoreP!Book(t, h) /\ amount \in Nat /\ amount > 0 /\ amount <= amount
      BY <1>1
    <3>2. QED
      BY ONLY <2>1, <3>1, CoreP!RepaidBook, CoreAssumptions
  <2>3. CoreP!Arrives(t.mint, amount) = Arrives(t.mint, amount)
    BY DEF CoreP!Arrives, Arrives
  <2>4. after # None =>
          after = [t EXCEPT !.amount_repaid = @ + amount, !.amount_in = @ + amount]
    BY DEF Core!TrackerRepaid
  <2>5. QED
    BY <2>2, <2>3, <2>4
<1>6. \A k \in OrderKeys : oss[k] # None => CoreP!Book(oss[k], hss[k])
  <2>1. ASSUME NEW k \in OrderKeys, oss[k] # None PROVE CoreP!Book(oss[k], hss[k])
    <3>1. CASE k = key
      BY <1>3, <1>4, <1>5, <2>1, <3>1
    <3>2. CASE k # key
      BY <1>3, <1>4, <2>1, <3>2 DEF BooksHold
    <3>3. QED
      BY <3>1, <3>2
  <2>2. QED
    BY <2>1
<1> HIDE DEF g
<1>7. Clean(oss, hss, touched)
  <2>1. ASSUME NEW k \in OrderKeys \ touched, oss[k] # None
        PROVE  ~hss[k].direct /\ ~hss[k].recorded
    <3>1. CASE k = key
      BY <1>4, <3>1 DEF BooksHold, Clean
    <3>2. CASE k # key
      BY <1>3, <1>4, <2>1, <3>2 DEF BooksHold, Clean
    <3>3. QED
      BY <3>1, <3>2
  <2>2. QED
    BY <2>1 DEF Clean
<1>8. Agree(qs, oss, touched)
  <2>1. ASSUME NEW k \in OrderKeys \ touched
        PROVE  DebtOn(qs, k) = LentOn(oss, k)
    <3>1. DebtOn(ps, k) = LentOn(os, k)
      BY DEF BooksHold, Agree
    <3>2. CASE k = key
      <4>1. RepaidFairly(t, h, amount, amount)
        BY <1>1, <3>2 DEF RepaidFairly, BooksHold, Clean
      <4>2. OwesLess(t, after, amount)
        BY <1>1, <4>1, RepaidOwes
      <4>3. LentOn(oss, k) = LentOn(os, k) - amount
        BY <1>3, <3>2, <4>2 DEF OwesLess, LentOn
      <4>4. QED
        BY <1>2, <3>1, <3>2, <4>3
    <3>3. CASE k # key
      BY <1>2, <1>3, <3>1, <3>3 DEF LentOn
    <3>4. QED
      BY <3>2, <3>3
  <2>2. QED
    BY <2>1 DEF Agree
<1>9. BooksHold(oss, hss, qs)
  BY <1>2, <1>3, <1>4, <1>6, <1>7, <1>8 DEF BooksHold
<1>10. QED
  BY <1>2, <1>9

\* What an operation recovers goes to the destination alone.
ToOne(destination, amount) ==
  [owner \in Payees |-> IF owner = destination THEN amount ELSE 0]

LEMMA OneShare ==
  ASSUME NEW destination \in UserWallets, NEW amount \in U64
  PROVE  /\ ToOne(destination, amount) \in [Payees -> U64]
         /\ SumFunction(ToOne(destination, amount)) = amount
         /\ ToOne(destination, amount)[destination] = amount
         /\ \A v \in Users : ToOne(destination, amount)[v] = 0
<1> DEFINE shares == ToOne(destination, amount)
<1>1. destination \in Payees /\ Users \subseteq Payees /\ destination \notin Users
  BY OwnerSets DEF Payees
<1>2. 0 \in U64 /\ amount \in Int
  BY WidthAssumption DEF U64
<1>3. shares \in [Payees -> U64] /\ shares[destination] = amount /\ DOMAIN shares = Payees
      /\ \A owner \in Payees \ {destination} : shares[owner] = 0
  BY <1>1, <1>2 DEF ToOne
<1> HIDE DEF shares
<1>4. SumFunctionOnSet(shares, Payees) = amount
  BY <1>1, <1>2, <1>3, Finite, SumOnly
<1>5. QED
  BY <1>1, <1>3, <1>4 DEF SumFunction, shares

\* The first transfer of a claim moves money from one hand of the user to another.
LEMMA ClaimedInHand ==
  ASSUME Plain, UsersTypeOK, NEW u \in Users, Registered(u), users[u].user_type = "ICV",
         NEW destination \in users[u].wallets, NEW b \in Balances, NEW mint \in Mints,
         NEW amount \in Nat, amount <= b[u][mint],
         NEW bb, bb = Transfer(b, u, destination, mint, amount)
  PROVE  /\ \A partner \in Partners : PurseOf(bb, partner) <= PurseOf(b, partner)
         /\ \A v \in Users : HandOf(b, v) <= HandOf(bb, v)
<1>1. /\ destination \in UserWallets /\ destination # u
      /\ u \in Holders /\ destination \in Holders
  BY UserFacts, OwnerSets
<1>2. bb \in Balances
  BY <1>1, TransferKeepsType DEF Balances
<1>3. Arrives(mint, amount) = amount
  BY DEF Arrives, Plain
<1>4. ASSUME NEW owner \in Holders
      PROVE  /\ PurseOf(b, owner) \in Nat /\ PurseOf(bb, owner) \in Nat
             /\ PurseOf(bb, owner) = PurseOf(b, owner) + Sent(u, destination, mint, amount, owner)
  <2>1. HoldingMoves(b, bb, owner, mint, Sent(u, destination, mint, amount, owner))
    BY <1>1, TransferMoves
  <2>2. QED
    BY <1>2, <2>1, PurseMoves, PursesAreNat
<1>5. \A partner \in Partners : PurseOf(bb, partner) <= PurseOf(b, partner)
  <2>1. ASSUME NEW partner \in Partners
        PROVE  PurseOf(bb, partner) <= PurseOf(b, partner)
    <3>1. partner # u /\ partner # destination /\ partner \in Holders
      BY <1>1, OwnerSets DEF Plain, Payees
    <3>2. Sent(u, destination, mint, amount, partner) = 0
      BY <3>1 DEF Sent
    <3>3. QED
      BY <1>4, <3>1, <3>2
  <2>2. QED
    BY <2>1
<1>6. ASSUME NEW owner \in Holders, owner # u
      PROVE  PurseOf(b, owner) <= PurseOf(bb, owner)
  <2>1. Sent(u, destination, mint, amount, owner) \in Nat
    BY <1>3, <1>6 DEF Sent
  <2>2. QED
    BY <1>4, <2>1
<1>7. ASSUME NEW v \in Users, Registered(v)
      PROVE  /\ \A w \in users[v].wallets : PurseOf(b, w) <= PurseOf(bb, w)
             /\ HandOf(b, v) = WalletsOf(b, v)
                  + IF users[v].user_type = "ICV" THEN PurseOf(b, v) ELSE 0
             /\ HandOf(bb, v) = WalletsOf(bb, v)
                  + IF users[v].user_type = "ICV" THEN PurseOf(bb, v) ELSE 0
  <2>1. users[v].wallets \subseteq UserWallets /\ users[v].wallets \subseteq Holders
    BY <1>7, UserFacts, WalletSets
  <2>2. \A w \in users[v].wallets : w \in Holders /\ w # u
    BY <2>1, OwnerSets
  <2>3. QED
    BY <1>6, <1>7, <2>2 DEF HandOf, WalletsOf
<1>8. ASSUME NEW v \in Users
      PROVE  HandOf(b, v) <= HandOf(bb, v)
  <2>1. CASE ~Registered(v)
    BY <2>1 DEF HandOf
  <2>2. CASE Registered(v) /\ v = u
    <3>1. /\ PurseOf(b, u) \in Nat /\ PurseOf(bb, u) = PurseOf(b, u) - amount
          /\ PurseOf(bb, u) \in Nat
      BY <1>1, <1>4 DEF Sent
    <3>2. PurseOf(b, destination) + amount <= PurseOf(bb, destination)
      BY <1>1, <1>3, <1>4 DEF Sent
    <3>3. /\ WalletsOf(b, u) \in Nat /\ WalletsOf(bb, u) \in Nat
          /\ WalletsOf(b, u) + amount <= WalletsOf(bb, u)
      BY <1>2, <1>7, <3>2, WalletsGrow
    <3>4. /\ HandOf(b, v) = WalletsOf(b, u) + PurseOf(b, u)
          /\ HandOf(bb, v) = WalletsOf(bb, u) + PurseOf(bb, u)
      BY <1>7, <2>2
    <3>5. QED
      BY ONLY <3>1, <3>3, <3>4, amount \in Nat
  <2>3. CASE Registered(v) /\ v # u
    <3>1. /\ PurseOf(b, v) \in Nat /\ PurseOf(bb, v) \in Nat /\ PurseOf(b, v) <= PurseOf(bb, v)
      BY <1>4, <1>6, <2>3, OwnerSets
    <3>2. 0 \in Nat /\ ~(0 > 0)
      OBVIOUS
    <3>3. /\ WalletsOf(b, v) \in Nat /\ WalletsOf(bb, v) \in Nat
          /\ WalletsOf(b, v) + 0 <= WalletsOf(bb, v)
      BY <1>2, <1>7, <2>3, <3>2, WalletsGrow
    <3>4. /\ HandOf(b, v) = WalletsOf(b, v)
               + IF users[v].user_type = "ICV" THEN PurseOf(b, v) ELSE 0
          /\ HandOf(bb, v) = WalletsOf(bb, v)
               + IF users[v].user_type = "ICV" THEN PurseOf(bb, v) ELSE 0
      BY <1>7, <2>3
    <3>5. QED
      BY ONLY <3>1, <3>3, <3>4
  <2>4. QED
    BY <2>1, <2>2, <2>3
<1>9. QED
  BY <1>5, <1>8

\* An operation pays its lender what it takes off the position and the order.
RecoversOne(b, os, ps, key, u, destination, amount, bb, oss, qs) ==
  /\ MayRepay(os, ps, key, u, amount) /\ amount \in U64 /\ Core!Running
  /\ Core!Repayable(b, key, os[key], amount, amount, ToOne(destination, amount))
  /\ bb = Core!BalancesRepaid(b, key, os[key], amount, ToOne(destination, amount))
  /\ oss = OrdersAfter(os, key, amount)
  /\ qs = RepaidTo(ps, key, u, amount)

LEMMA RecoveredIsPaid ==
  ASSUME LendingInv, Plain, NEW u \in Users, Registered(u), NEW destination \in users[u].wallets,
         NEW b \in Balances, NEW os, NEW hs, NEW ps, BooksHold(os, hs, ps),
         NEW bb \in Balances, NEW oss, NEW hss, NEW qs, BooksHold(oss, hss, qs),
         NEW key, NEW amount, RecoversOne(b, os, ps, key, u, destination, amount, bb, oss, qs)
  PROVE  PaidOff(OrderKeys \ touched, b, os, ps, bb, oss, qs)
<1> DEFINE booked == OneBooked(u, amount)
           shares == ToOne(destination, amount)
           keys == OrderKeys \ touched
           t == os[key]
<1>1. /\ key \in OrderKeys /\ t # None /\ Lending(ps, key, u)
      /\ amount \in Nat /\ amount > 0 /\ amount <= Left(ps[<<key[2], u>>]) /\ amount \in U64
      /\ Core!SharesAccepted(t, amount, amount) /\ amount <= Core!Outstanding(t)
      /\ t.amount_repaid + amount <= MaxU64 /\ t.amount_in + amount <= MaxU64
      /\ Core!Repayable(b, key, t, amount, amount, shares) /\ Core!Running
      /\ bb = Core!BalancesRepaid(b, key, t, amount, shares)
      /\ oss = [os EXCEPT ![key] = Core!TrackerRepaid(t, amount, amount)]
      /\ qs = RepaidTo(ps, key, u, amount)
  BY DEF RecoversOne, MayRepay, OrdersAfter
<1>2. UsersTypeOK /\ Core!TypeOK /\ destination \in UserWallets
  BY InvFacts, UserFacts
<1>3. BooksTyped(b, os, ps) /\ BooksTyped(bb, oss, qs) /\ PositionsOK(ps)
  BY DEF BooksTyped, OrdersTyped, BooksHold
<1>4. /\ shares \in [Payees -> U64] /\ SumFunction(shares) = amount
      /\ shares[destination] = amount
  BY <1>1, <1>2, OneShare
<1>5. /\ booked \in [Users -> Nat] /\ LendersOnly(ps, key, booked)
      /\ RepaidAs(ps, qs, key, booked)
  BY <1>1, <1>3, OnePositionBooked
<1>6. booked[u] = amount /\ \A v \in Users \ {u} : booked[v] = 0
  BY DEF OneBooked
<1> HIDE DEF booked, shares, keys, t
<1>7. Core!Ledger(t) /\ Core!Senior(t, hs[key])
  BY <1>1, SameBook DEF BooksHold, t
<1>8. RepaidOrder(key, b, os, bb, oss, amount, amount, shares)
  BY <1>1, <1>4, <1>7 DEF RepaidOrder, t
<1>9. ASSUME key \in keys
      PROVE  /\ SharesReach(shares, booked)
             /\ BooksSound(key, os, ps, oss, qs, hs[key], amount, SumFunction(shares), booked)
  <2>1. RepaidFairly(os[key], hs[key], amount, SumFunction(shares))
    BY <1>1, <1>4, <1>7, <1>9 DEF RepaidFairly, BooksHold, Clean, keys, t
  <2>2. AgreeOn(key, oss, qs)
    BY <1>9 DEF BooksHold, Agree, AgreeOn, keys
  <2>3. \A v \in Users : booked[v] <= Left(ps[<<key[2], v>>])
    <3>1. \A v \in Users : Left(ps[<<key[2], v>>]) \in Nat
      BY <1>1, <1>3, LeftNat DEF OrderKeys
    <3>2. QED
      BY <1>1, <1>6, <3>1
  <2>4. SharesReach(shares, booked)
    BY <1>1, <1>4, <1>6 DEF SharesReach, AccountsOf
  <2>5. QED
    BY <2>1, <2>2, <2>3, <2>4 DEF BooksSound
<1>10. PaidOff(keys, b, os, ps, bb, oss, qs)
  <2>1. keys \in SUBSET OrderKeys
    BY DEF keys
  <2>2. QED
    BY <1>1, <1>2, <1>3, <1>5, <1>8, <1>9, <2>1, RepaidIsPaid
<1>11. QED
  BY <1>10 DEF keys

\* The loop so far: books hold, no custody has changed, what the claimant has got is
\* what its positions have lost, and debts have fallen only by what was paid.
IsProgress(pr) ==
  pr = [bal |-> pr.bal, orders |-> pr.orders, audit |-> pr.audit,
        positions |-> pr.positions, paid |-> pr.paid, ok |-> pr.ok]

Progressing(u, claimable, start, pr) ==
  /\ pr.bal \in Balances /\ pr.paid \in Nat /\ pr.paid <= claimable
  /\ BooksHold(pr.orders, pr.audit, pr.positions)
  /\ \A v \in Users, m \in Mints : pr.bal[v][m] = start.bal[v][m]
  /\ DebtTo(pr.positions, u) + pr.paid = DebtTo(start.positions, u) + start.paid
  /\ \A v \in Users \ {u} : DebtTo(pr.positions, v) = DebtTo(start.positions, v)
  /\ Plain => PaidOff(OrderKeys \ touched, bal, orders, positions,
                      pr.bal, pr.orders, pr.positions)

\* What an operation recovers when it moves anything.
Recovers(u, destination, pr, o, recovered, next) ==
  LET key == <<pr.positions[<<o, u>>].partner, o>>
      shares == ToOne(destination, recovered)
  IN  /\ Core!Running
      /\ Core!Repayable(pr.bal, key, pr.orders[key], recovered, recovered, shares)
      /\ next.bal = Core!BalancesRepaid(pr.bal, key, pr.orders[key], recovered, shares)
      /\ next.orders = [pr.orders EXCEPT ![key] =
                          Core!TrackerRepaid(pr.orders[key], recovered, recovered)]
      /\ next.audit = [pr.audit EXCEPT
                         ![key].arrived = @ + Arrives(pr.orders[key].mint, recovered),
                         ![key].paid = @ + recovered]
      /\ next.positions = RepaidTo(pr.positions, key, u, recovered)
      /\ next.paid = pr.paid + recovered

LEMMA FailedProgress ==
  ASSUME NEW pr, IsProgress(pr)
  PROVE  IsProgress([pr EXCEPT !.ok = FALSE]) /\ ~[pr EXCEPT !.ok = FALSE].ok
<1> DEFINE f == FALSE
<1>1. f = FALSE
  OBVIOUS
<1> HIDE DEF f
<1>2. DOMAIN pr = {"bal", "orders", "audit", "positions", "paid", "ok"}
  BY DEF IsProgress
<1>3. [pr EXCEPT !.ok = f]
        = [bal |-> pr.bal, orders |-> pr.orders, audit |-> pr.audit,
           positions |-> pr.positions, paid |-> pr.paid, ok |-> f]
  BY <1>2 DEF IsProgress
<1>4. IsProgress([pr EXCEPT !.ok = f]) /\ [pr EXCEPT !.ok = f].ok = f
  BY <1>3 DEF IsProgress
<1>5. QED
  BY <1>1, <1>4 DEF f

\* An operation skips, fails or recovers something; once failed stays failed.
LEMMA ClaimCases ==
  ASSUME NEW u, NEW destination, NEW claimable, NEW pr, NEW o, IsProgress(pr), NEW next,
         next = Claim1(u, destination, claimable, pr, o)
  PROVE  /\ IsProgress(next)
         /\ ~pr.ok => next = pr
         /\ next.ok =>
              \/ next = pr
              \/ /\ pr.ok /\ ~(pr.paid >= claimable)
                 /\ Claims(u, o, pr)
                 /\ Recovered(u, o, claimable, pr) # 0
                 /\ Recovers(u, destination, pr, o, Recovered(u, o, claimable, pr), next)
<1> DEFINE recovered == Recovered(u, o, claimable, pr)
           key == <<pr.positions[<<o, u>>].partner, o>>
           shares == ToOne(destination, recovered)
           failed == [pr EXCEPT !.ok = FALSE]
           other == [bal |-> Core!BalancesRepaid(pr.bal, key, pr.orders[key], recovered, shares),
                     orders |-> [pr.orders EXCEPT ![key] =
                        Core!TrackerRepaid(pr.orders[key], recovered, recovered)],
                     audit |-> [pr.audit EXCEPT
                        ![key].arrived = @ + Arrives(pr.orders[key].mint, recovered),
                        ![key].paid = @ + recovered],
                     positions |-> RepaidTo(pr.positions, key, u, recovered),
                     paid |-> pr.paid + recovered,
                     ok |-> /\ Core!Running
                            /\ Core!Repayable(pr.bal, key, pr.orders[key], recovered,
                                              recovered, shares)]
<1>1. next = IF ~pr.ok \/ pr.paid >= claimable THEN pr
             ELSE IF ~Claims(u, o, pr) THEN failed
             ELSE IF recovered = 0 THEN pr ELSE other
  BY DEF Claim1, RepaidTo, ToOne, Payees
<1>2. IsProgress(failed) /\ ~failed.ok
  BY FailedProgress
<1>3. IsProgress(other)
  BY DEF IsProgress
<1>4. other.ok => Recovers(u, destination, pr, o, recovered, other)
  BY DEF Recovers
<1> HIDE DEF failed, other, recovered
<1>5. QED
  BY <1>1, <1>2, <1>3, <1>4 DEF recovered

LEMMA ClaimStep ==
  ASSUME LendingInv, NEW u \in Users, Registered(u), NEW destination \in users[u].wallets,
         NEW claimable \in Nat, NEW start, NEW pr, Progressing(u, claimable, start, pr),
         NEW o \in OrderIds, ~(pr.paid >= claimable), Claims(u, o, pr),
         NEW recovered, recovered = Recovered(u, o, claimable, pr), recovered # 0,
         NEW next, Recovers(u, destination, pr, o, recovered, next)
  PROVE  Progressing(u, claimable, start, next)
<1> DEFINE ps == pr.positions
           position == ps[<<o, u>>]
           key == <<position.partner, o>>
           t == pr.orders[key]
           owed == Core!Outstanding(t)
           held == pr.bal[key[1]][t.mint]
           shares == ToOne(destination, recovered)
<1>1. /\ pr.bal \in Balances /\ pr.paid \in Nat /\ pr.paid <= claimable
      /\ BooksHold(pr.orders, pr.audit, ps) /\ PositionsOK(ps)
      /\ pr.orders \in [OrderKeys -> Core!OrderTracker \cup {None}]
      /\ \A v \in Users, m \in Mints : pr.bal[v][m] = start.bal[v][m]
      /\ DebtTo(ps, u) + pr.paid = DebtTo(start.positions, u) + start.paid
      /\ \A v \in Users \ {u} : DebtTo(ps, v) = DebtTo(start.positions, v)
      /\ UsersTypeOK /\ Core!TypeOK
  BY InvFacts DEF Progressing, BooksHold
<1>2. /\ position \in Position /\ position # None
      /\ position.amount_borrowed \in Nat /\ position.amount_repaid \in Nat
      /\ position.amount_borrowed <= MaxU64
      /\ Left(position) = position.amount_borrowed - position.amount_repaid
      /\ Left(position) > 0
  <2>1. position # None /\ ps \in [OrderIds \X Users -> Position \cup {None}]
    BY <1>1 DEF Claims, PositionsOK
  <2>2. position \in Position /\ Left(position) > 0
    BY <1>1, <2>1 DEF PositionsOK
  <2>3. /\ position.amount_borrowed \in Nat /\ position.amount_repaid \in Nat
        /\ position.amount_borrowed <= MaxU64
    BY <2>2, WidthAssumption DEF Position, U64
  <2>4. Left(position) = position.amount_borrowed - position.amount_repaid
    BY <2>1 DEF Left
  <2>5. QED
    BY <2>1, <2>2, <2>3, <2>4
<1>3. /\ key \in OrderKeys /\ key[1] = position.partner /\ key[2] = o
      /\ key[1] \in Partners /\ Lending(ps, key, u)
  BY <1>2 DEF OrderKeys, Position, Lending
<1>4. /\ t # None /\ t.mint = MintOf(u) /\ t.amount_in <= t.amount_out /\ MintOf(u) \in Mints
  <2>1. position.amount_repaid < position.amount_borrowed
    BY <1>2
  <2>2. t # None /\ t.mint = MintOf(u) /\ t.amount_in <= t.amount_out
    BY <2>1 DEF Claims
  <2>3. QED
    BY <1>1, <2>2, UserFacts
<1>5. /\ t \in Core!OrderTracker /\ Core!Ledger(t) /\ owed \in Nat /\ held \in Nat
  <2>1. t \in Core!OrderTracker /\ Core!Ledger(t)
    BY <1>1, <1>3, <1>4, SameBook DEF BooksHold
  <2>2. t.amount_in \in Nat /\ t.amount_out \in Nat
    BY <2>1 DEF Core!OrderTracker, Core!U64
  <2>3. owed \in Nat
    BY <1>4, <2>2 DEF Core!Outstanding
  <2>4. held \in Nat
    BY <1>1, <1>3, <1>4, OwnerSets DEF Balances, BalancesOf
  <2>5. QED
    BY <2>1, <2>3, <2>4
<1>6. /\ recovered \in Nat /\ recovered > 0 /\ recovered <= Left(position)
      /\ pr.paid + recovered <= claimable /\ recovered <= owed /\ recovered \in U64
  <2> DEFINE free == claimable - pr.paid
             left == position.amount_borrowed - position.amount_repaid
  <2>1. recovered = Min({free, left, owed, held})
    BY DEF Recovered
  <2>2. free \in Nat /\ left \in Nat /\ left <= MaxU64 /\ left = Left(position)
    BY <1>1, <1>2, WidthAssumption
  <2> HIDE DEF free, left, owed, held
  <2>3. free \in Int /\ left \in Int /\ owed \in Int /\ held \in Int
    BY <1>5, <2>2
  <2>4. LET m == Min({free, left, owed, held})
        IN  m \in {free, left, owed, held} /\ m <= free /\ m <= left /\ m <= owed /\ m <= held
    BY ONLY <2>3, LeastOfFour
  <2>5. /\ recovered \in {free, left, owed, held} /\ recovered <= free /\ recovered <= left
        /\ recovered <= owed
    BY <2>1, <2>4
  <2>6. recovered \in Nat
    BY <1>5, <2>2, <2>5
  <2>7. pr.paid + recovered <= claimable
    BY <1>1, <2>5, <2>6 DEF free
  <2>8. recovered <= MaxU64
    BY <2>2, <2>5, <2>6, WidthAssumption
  <2>9. QED
    BY <2>2, <2>5, <2>6, <2>7, <2>8, WidthAssumption DEF U64
<1>7. /\ shares \in [Payees -> U64] /\ SumFunction(shares) = recovered
      /\ \A v \in Users : shares[v] = 0
  <2>1. destination \in UserWallets
    BY <1>1, UserFacts
  <2>2. QED
    BY <1>6, <2>1, OneShare
<1>8. /\ Core!Running
      /\ Core!Repayable(pr.bal, key, t, recovered, recovered, shares)
      /\ next.bal = Core!BalancesRepaid(pr.bal, key, t, recovered, shares)
      /\ next.orders = [pr.orders EXCEPT ![key] = Core!TrackerRepaid(t, recovered, recovered)]
      /\ next.audit = [pr.audit EXCEPT ![key].arrived = @ + Arrives(t.mint, recovered),
                                       ![key].paid = @ + recovered]
      /\ next.positions = RepaidTo(ps, key, u, recovered)
      /\ next.paid = pr.paid + recovered
  BY DEF Recovers
<1> HIDE DEF shares, t, held, owed, key, position
<1>9. /\ next.bal \in Balances
      /\ Core!TrackerRepaid(t, recovered, recovered) \in Core!OrderTracker \cup {None}
      /\ \A v \in Users, m \in Mints :
           next.bal[v][m] = pr.bal[v][m] + (IF m = t.mint THEN Arrives(m, shares[v]) ELSE 0)
  BY <1>1, <1>3, <1>5, <1>6, <1>7, <1>8, CoreRepayment
<1>10. \A v \in Users, m \in Mints : next.bal[v][m] = pr.bal[v][m]
  <2>1. ASSUME NEW v \in Users, NEW m \in Mints
        PROVE  next.bal[v][m] = pr.bal[v][m]
    <3>1. Arrives(m, shares[v]) = 0
      BY <1>7 DEF Arrives
    <3>2. pr.bal[v][m] \in Nat
      BY <1>1, OwnerSets DEF Balances, BalancesOf
    <3>3. QED
      BY <1>9, <3>1, <3>2
  <2>2. QED
    BY <2>1
<1>11. /\ Core!SharesAccepted(t, recovered, recovered)
       /\ t.amount_repaid + recovered <= MaxU64 /\ t.amount_in + recovered <= MaxU64
  BY <1>7, <1>8, SameSum DEF Core!Repayable
<1>12. /\ recovered <= Left(ps[<<key[2], u>>]) /\ recovered <= Core!Outstanding(t)
       /\ t = pr.orders[key]
  BY <1>3, <1>6 DEF position, owed, t
<1>13. /\ BooksHold(next.orders, next.audit, next.positions)
       /\ DebtTo(next.positions, u) = DebtTo(ps, u) - recovered
       /\ \A v \in Users \ {u} : DebtTo(next.positions, v) = DebtTo(ps, v)
  <2>1. MayRepay(pr.orders, ps, key, u, recovered)
    BY <1>3, <1>4, <1>6, <1>9, <1>11, <1>12 DEF MayRepay
  <2>2. next.orders = OrdersAfter(pr.orders, key, recovered)
    BY <1>8, <1>12 DEF OrdersAfter
  <2>3. next.audit = HistoriesAfter(pr.orders, pr.audit, key, recovered)
    BY <1>8, <1>12 DEF HistoriesAfter
  <2>4. QED
    BY <1>1, <1>8, <2>1, <2>2, <2>3, OneRepaid
<1>14. DebtTo(ps, u) \in Nat
  BY <1>1, DebtNat
<1>15. DebtTo(next.positions, u) + next.paid = DebtTo(start.positions, u) + start.paid
  BY <1>1, <1>6, <1>8, <1>13, <1>14
<1>16. next.paid \in Nat /\ next.paid <= claimable
  BY <1>1, <1>6, <1>8
<1>17. ASSUME Plain
       PROVE  PaidOff(OrderKeys \ touched, bal, orders, positions,
                      next.bal, next.orders, next.positions)
  <2>1. RecoversOne(pr.bal, pr.orders, ps, key, u, destination, recovered,
                    next.bal, next.orders, next.positions)
    <3>1. MayRepay(pr.orders, ps, key, u, recovered)
      BY <1>3, <1>4, <1>6, <1>9, <1>11, <1>12 DEF MayRepay
    <3>2. QED
      BY <1>6, <1>8, <1>12, <3>1 DEF RecoversOne, OrdersAfter, shares
  <2>2. PaidOff(OrderKeys \ touched, pr.bal, pr.orders, ps,
                next.bal, next.orders, next.positions)
    BY <1>1, <1>9, <1>13, <1>17, <2>1, RecoveredIsPaid
  <2>3. PaidOff(OrderKeys \ touched, bal, orders, positions, pr.bal, pr.orders, ps)
    BY <1>17 DEF Progressing
  <2>4. /\ BooksTyped(bal, orders, positions) /\ BooksTyped(pr.bal, pr.orders, ps)
        /\ BooksTyped(next.bal, next.orders, next.positions)
    BY <1>1, <1>9, <1>13, BooksTypedNow DEF BooksTyped, OrdersTyped, BooksHold
  <2>5. QED
    BY <1>1, <2>2, <2>3, <2>4, PaidOffTwice
<1>18. QED
  BY <1>1, <1>9, <1>10, <1>13, <1>15, <1>16, <1>17 DEF Progressing

\* The recursive function of the loop.
IsRun(run, u, destination, claimable, start, ops, n) ==
  run = [i \in 0..n |-> IF i = 0 THEN start
                        ELSE Claim1(u, destination, claimable, run[i - 1], ops[i])]

LEMMA RunExists ==
  ASSUME NEW u, NEW destination, NEW claimable, NEW start, NEW ops, NEW n \in Nat
  PROVE  \E run : IsRun(run, u, destination, claimable, start, ops, n)
<1> DEFINE term(i, f) == IF i = 0 THEN start
                         ELSE Claim1(u, destination, claimable, f[i - 1], ops[i])
           Good(f, k) == f = [i \in 0..k |-> term(i, f)]
           N == {k \in Nat : \E f : Good(f, k)}
<1>1. 0 \in N
  <2>1. Good([i \in 0..0 |-> start], 0)
    <3>1. \A i \in 0..0 : i = 0
      OBVIOUS
    <3>2. QED
      BY <3>1
  <2>2. QED
    BY <2>1
<1>2. ASSUME NEW k \in Nat, k \in N
      PROVE  k + 1 \in N
  <2>1. PICK f : Good(f, k)
    BY <1>2
  <2> DEFINE g == [i \in 0..(k + 1) |-> term(i, f)]
  <2>2. \A i \in 0..k : i \in 0..(k + 1) /\ f[i] = term(i, f)
    BY <2>1
  <2>3. \A i \in 0..k : g[i] = f[i]
    <3> HIDE DEF term
    <3>1. QED
      BY <2>2
  <2>4. ASSUME NEW i \in 0..(k + 1)
        PROVE  term(i, f) = term(i, g)
    <3>1. CASE i = 0
      BY <3>1
    <3>2. CASE i # 0
      <4>1. i - 1 \in 0..k
        BY <3>2
      <4>2. g[i - 1] = f[i - 1]
        BY <2>3, <4>1
      <4> HIDE DEF g
      <4>3. QED
        BY <3>2, <4>2
    <3>3. QED
      BY <3>1, <3>2
  <2>5. Good(g, k + 1)
    <3> DEFINE a(i) == term(i, f)
               b(i) == term(i, g)
    <3>1. \A i \in 0..(k + 1) : a(i) = b(i)
      BY <2>4
    <3>2. g = [i \in 0..(k + 1) |-> a(i)]
      OBVIOUS
    <3> HIDE DEF a, b, g, term
    <3>3. g = [i \in 0..(k + 1) |-> b(i)]
      BY <3>1, <3>2
    <3>4. QED
      BY <3>3 DEF b
  <2>6. QED
    <3> HIDE DEF Good, g
    <3>1. QED
      BY <2>5
<1>3. n \in N
  <2> HIDE DEF N
  <2>1. QED
    BY <1>1, <1>2, SetInduction
<1>4. PICK run : Good(run, n)
  BY <1>3
<1>5. IsRun(run, u, destination, claimable, start, ops, n)
  BY <1>4 DEF IsRun
<1>6. QED
  BY <1>5

\* A loop that ends without failure keeps the books.
LEMMA RunProgress ==
  ASSUME LendingInv, NEW u \in Users, Registered(u), NEW destination \in users[u].wallets,
         NEW claimable \in Nat, NEW start, IsProgress(start),
         Progressing(u, claimable, start, start), NEW n \in Nat, NEW ops \in [1..n -> OrderIds],
         NEW run, IsRun(run, u, destination, claimable, start, ops, n), run[n].ok
  PROVE  Progressing(u, claimable, start, run[n])
<1> DEFINE Kept(i) == /\ IsProgress(run[i])
                      /\ run[i].ok => Progressing(u, claimable, start, run[i])
           S == {i \in Nat : i <= n => Kept(i)}
<1>1. 0 \in 0..n /\ run[0] = start
  BY DEF IsRun
<1>2. 0 \in S
  BY <1>1
<1>3. ASSUME NEW i \in Nat, i \in S
      PROVE  i + 1 \in S
  <2>1. SUFFICES ASSUME i + 1 <= n PROVE Kept(i + 1)
    OBVIOUS
  <2> DEFINE pr == run[i]
             next == run[i + 1]
             o == ops[i + 1]
             recovered == Recovered(u, o, claimable, pr)
  <2>2. /\ i + 1 \in 0..n /\ i + 1 \in 1..n /\ i + 1 # 0 /\ (i + 1) - 1 = i
        /\ o \in OrderIds
    BY <2>1
  <2>3. IsProgress(pr) /\ (pr.ok => Progressing(u, claimable, start, pr))
    BY <1>3, <2>1
  <2>4. next = Claim1(u, destination, claimable, pr, o)
    BY <2>2 DEF IsRun
  <2> HIDE DEF pr, next, o, recovered
  <2>5. /\ IsProgress(next)
        /\ ~pr.ok => next = pr
        /\ next.ok =>
             \/ next = pr
             \/ /\ pr.ok /\ ~(pr.paid >= claimable)
                /\ Claims(u, o, pr)
                /\ recovered # 0
                /\ Recovers(u, destination, pr, o, recovered, next)
    BY <2>3, <2>4, ClaimCases DEF recovered
  <2>6. ASSUME next.ok
        PROVE  Progressing(u, claimable, start, next)
    <3>1. CASE next = pr
      BY <2>3, <2>6, <3>1
    <3>2. CASE next # pr
      <4>1. Progressing(u, claimable, start, pr)
        BY <2>3, <2>5, <2>6, <3>2
      <4>2. recovered = Recovered(u, o, claimable, pr)
        BY DEF recovered
      <4>3. QED
        BY <2>2, <2>5, <2>6, <3>2, <4>1, <4>2, ClaimStep
    <3>3. QED
      BY <3>1, <3>2
  <2>7. QED
    BY <2>5, <2>6 DEF next
<1>4. Nat \subseteq S
  <2> HIDE DEF S
  <2>1. QED
    BY <1>2, <1>3, SetInduction
<1>5. QED
  BY <1>4

\* A claim as the ledger sees it.
ClaimPays ==
  /\ HandsKept /\ touched' = touched
  /\ PaidOff(OrderKeys \ touched, bal, orders, positions, bal', orders', positions')

LEMMA ClaimAction ==
  ASSUME LendingInv, NEW wallet \in UserWallets, NEW destination \in UserWallets,
         NEW u \in Users, NEW operations \in SeqOf(OrderIds, MaxOperations),
         Claim(wallet, u, destination, operations)
  PROVE  LendingInv' /\ (Plain => ClaimPays)
<1> DEFINE n == Len(operations)
           mint == MintOf(u)
           claimable == users[u].principal_in - users[u].principal_out
           liquid == Min({bal[u][mint], claimable})
           start == [bal |-> Transfer(bal, u, destination, mint, liquid),
                     orders |-> orders, audit |-> audit, positions |-> positions,
                     paid |-> liquid, ok |-> TRUE]
           run == CHOOSE r : r = [i \in 0..n |->
                     IF i = 0 THEN start
                     ELSE Claim1(u, destination, claimable, r[i - 1], operations[i])]
           end == run[n]
<1>1. /\ Registered(u) /\ users[u].user_type = "ICV" /\ destination \in users[u].wallets
      /\ claimable > 0 /\ end.ok /\ end.paid > 0
      /\ users[u].principal_out + end.paid <= MaxU64
      /\ bal' = end.bal /\ orders' = end.orders /\ audit' = end.audit
      /\ positions' = end.positions
      /\ users' = [users EXCEPT ![u] = Claimed(u, liquid, end.paid - liquid)]
      /\ UNCHANGED <<config, beneficiaries, withdraws, cliffs, ovault, now, carried,
                     approved, touched, struck>>
  BY DEF Claim, ClaimAccounts, IsUserWallet
<1>2. n \in Nat /\ operations \in [1..n -> OrderIds]
  BY SequencesOf
<1>3. /\ UsersTypeOK /\ PositionsOK(positions) /\ bal \in Balances
      /\ mint \in Mints /\ users[u] \in User
      /\ users[u].principal_in \in Nat /\ users[u].principal_out \in Nat
      /\ claimable \in Nat /\ bal[u][mint] \in Nat
      /\ u \in Holders /\ destination \in Holders /\ destination # u
  <2>1. UsersTypeOK /\ PositionsOK(positions) /\ bal \in Balances
    BY InvFacts
  <2>2. /\ mint \in Mints /\ users[u] \in User
        /\ users[u].principal_in \in Nat /\ users[u].principal_out \in Nat
    BY <1>1, <2>1, UserFacts
  <2>3. u \in Holders /\ destination \in Holders /\ destination # u
    BY OwnerSets
  <2>4. claimable \in Nat
    <3>1. claimable > 0
      BY <1>1
    <3>2. QED
      BY ONLY <2>2, <3>1
  <2>5. bal[u][mint] \in Nat
    BY <2>1, <2>2, <2>3 DEF Balances, BalancesOf
  <2>6. QED
    BY <2>1, <2>2, <2>3, <2>4, <2>5
<1>4. IsRun(run, u, destination, claimable, start, operations, n)
  <2>1. \E r : IsRun(r, u, destination, claimable, start, operations, n)
    BY <1>2, RunExists
  <2> HIDE DEF start, claimable, n
  <2>2. QED
    BY <2>1 DEF IsRun
<1> HIDE DEF run, claimable, mint, n
<1>5. liquid \in Nat /\ liquid <= bal[u][mint] /\ liquid <= claimable
  <2>1. bal[u][mint] \in Int /\ claimable \in Int
    BY <1>3
  <2>2. LET m == Min({bal[u][mint], claimable})
        IN  m \in {bal[u][mint], claimable} /\ m <= bal[u][mint] /\ m <= claimable
    BY ONLY <2>1, LeastOfTwo
  <2>3. QED
    BY <1>3, <2>2
<1> HIDE DEF liquid
<1>6. /\ start.bal = Transfer(bal, u, destination, mint, liquid)
      /\ start.orders = orders /\ start.audit = audit /\ start.positions = positions
      /\ start.paid = liquid /\ IsProgress(start)
  BY DEF IsProgress
<1> HIDE DEF start
<1>7. /\ start.bal \in Balances /\ start.bal[u][mint] = bal[u][mint] - liquid
      /\ \A v \in Users \ {u}, m \in Mints : bal[v][m] <= start.bal[v][m]
  <2>1. bal \in BalancesOf(Holders)
    BY <1>3 DEF Balances
  <2>2. start.bal \in Balances
    BY <1>3, <1>5, <1>6, <2>1, TransferKeepsType DEF Balances
  <2>3. start.bal[u][mint] = bal[u][mint] - liquid
    <3>1. start.bal[u] = [bal[u] EXCEPT ![mint] = @ - liquid]
      BY <1>3, <1>5, <1>6, <2>1, TransferDebits
    <3>2. QED
      BY <1>3, <2>1, <3>1 DEF BalancesOf
  <2>4. \A v \in Users \ {u}, m \in Mints : bal[v][m] <= start.bal[v][m]
    <3>1. ASSUME NEW v \in Users \ {u}, NEW m \in Mints
          PROVE  bal[v][m] <= start.bal[v][m]
      <4>1. v \in Holders /\ v # u
        BY OwnerSets
      <4>2. QED
        BY <1>3, <1>5, <1>6, <2>1, <4>1, TransferTakesFromSource
    <3>2. QED
      BY <3>1
  <2>5. QED
    BY <2>2, <2>3, <2>4
<1>8. Progressing(u, claimable, start, start)
  <2>1. BooksHold(start.orders, start.audit, start.positions)
    BY <1>6, BooksHoldNow
  <2>2. ASSUME Plain
        PROVE  PaidOff(OrderKeys \ touched, bal, orders, positions,
                       start.bal, start.orders, start.positions)
    <3>1. /\ \A partner \in Partners : PurseOf(start.bal, partner) <= PurseOf(bal, partner)
          /\ \A v \in Users : HandOf(bal, v) <= HandOf(start.bal, v)
      BY <1>1, <1>3, <1>5, <1>6, <2>2, ClaimedInHand
    <3>2. BooksTyped(bal, orders, positions) /\ BooksTyped(start.bal, orders, positions)
      BY <1>7, BooksTypedNow DEF BooksTyped
    <3>3. QED
      BY <1>3, <1>6, <3>1, <3>2, NothingPaid
  <2>3. QED
    BY <1>5, <1>6, <1>7, <2>1, <2>2 DEF Progressing
<1>9. Progressing(u, claimable, start, end)
  BY <1>1, <1>2, <1>3, <1>4, <1>6, <1>8, RunProgress
<1>10. /\ bal' \in Balances /\ end.paid \in Nat
       /\ BooksHold(orders', audit', positions') /\ PositionsOK(positions')
       /\ \A v \in Users, m \in Mints : bal'[v][m] = start.bal[v][m]
       /\ DebtTo(positions', u) + end.paid = DebtTo(positions, u) + liquid
       /\ \A v \in Users \ {u} : DebtTo(positions', v) = DebtTo(positions, v)
       /\ Plain => PaidOff(OrderKeys \ touched, bal, orders, positions,
                           bal', orders', positions')
  BY <1>1, <1>6, <1>9 DEF Progressing, BooksHold
<1> HIDE DEF end
<1>11. UsersPart'
  <2>1. users' = [users EXCEPT ![u] = [users[u] EXCEPT !.principal_out = @ + end.paid]]
    <3>1. users[u].principal_out + liquid + (end.paid - liquid)
            = users[u].principal_out + end.paid
      BY <1>3, <1>5, <1>10
    <3>2. QED
      BY <1>1, <3>1 DEF Claimed
  <2>2. bal[u][MintOf(u)] + DebtTo(positions, u)
          <= bal'[u][MintOf(u)] + DebtTo(positions', u) + end.paid
    <3>1. DebtTo(positions, u) \in Nat /\ DebtTo(positions', u) \in Nat
      BY <1>3, <1>10, DebtNat
    <3>2. bal'[u][mint] = bal[u][mint] - liquid
      BY <1>3, <1>7, <1>10
    <3>3. QED
      BY <1>3, <1>5, <1>10, <3>1, <3>2 DEF mint
  <2>3. \A v \in Users \ {u} : /\ DebtTo(positions', v) = DebtTo(positions, v)
                               /\ \A m \in Mints : bal[v][m] <= bal'[v][m]
    BY <1>7, <1>10
  <2>4. QED
    BY <1>1, <1>10, <2>1, <2>2, <2>3, OnePaid
<1>12. OrdersPart'
  BY <1>1, <1>10, OrdersPartFrom
<1>13. HandsKept /\ touched' = touched
  <2>1. users' = [users EXCEPT ![u] = users'[u]] /\ users \in [Users -> User \cup {None}]
    BY <1>1, <1>3 DEF UsersTypeOK
  <2>2. /\ users'[u] \in User /\ users'[u].wallets = users[u].wallets
        /\ users'[u].user_type = users[u].user_type
    <3>1. users[u].principal_out + liquid + (end.paid - liquid) \in U64
      BY <1>1, <1>3, <1>5, <1>10, WidthAssumption DEF U64
    <3>2. users'[u] = Claimed(u, liquid, end.paid - liquid)
      BY <1>1, <2>1
    <3>3. QED
      BY <1>3, <3>1, <3>2 DEF Claimed, User
  <2>3. None \notin User
    BY UsersAssumption
  <2>4. QED
    BY <1>1, <2>1, <2>2, <2>3 DEF HandsKept, Registered
<1>14. QED
  BY <1>10, <1>11, <1>12, <1>13 DEF LendingInv, ClaimPays

-----------------------------------------------------------------------------
(***************************************************************************)
(* All steps, and the theorems.                                            *)
(***************************************************************************)
LEMMA ApproveStep ==
  ASSUME LendingInv, NEW wallet \in UserWallets, NEW amount \in Amounts,
         NEW delegate \in Users \cup {OrbitVault}, Approve(wallet, delegate, amount)
  PROVE  LendingInv'
<1>1. UNCHANGED <<config, bal, users, withdraws, cliffs, ovault, now, carried, beneficiaries,
                  orders, audit, positions, touched, struck>>
  BY DEF Approve, usersVars, userVars, coreVars
<1>2. approved' \in [UserWallets -> Approval]
  <2>1. approved \in [UserWallets -> Approval] /\ amount \in U64
    BY InvFacts, UsersAssumption
  <2>2. [delegate |-> delegate, amount |-> amount] \in Approval
    BY <2>1 DEF Approval
  <2>3. QED
    BY <2>1, <2>2 DEF Approve
<1>3. UsersPart'
  BY <1>1 DEF LendingInv, UsersPart, UsersTypeOK, WithinCap, Registered
<1>4. CoreOK'
  BY <1>1 DEF LendingInv, OrdersPart, CoreOK, CoreBooks, Core!TypeOK, Core!Initialized,
              Core!DebtInv, Core!LendersSenior, Core!LendersPaidByPartner, Core!Open
<1>5. OrdersPart'
  BY <1>1, <1>2, <1>4 DEF LendingInv, OrdersPart
<1>6. QED
  BY <1>3, <1>5 DEF LendingInv

LEMMA LoanSteps == LendingInv /\ LoanNext => LendingInv'
<1> SUFFICES ASSUME LendingInv, LoanNext PROVE LendingInv'
  OBVIOUS
<1>1. CASE LendNext
  <2>1. PICK signer \in Keys, key \in OrderKeys, zov \in Zovs, amount \in Amounts :
          \/ \E wallet \in Wallets, mint \in Mints, lenders \in (SUBSET Users) \ {{}} :
               \E loans \in [lenders -> Amounts], source \in [lenders -> Users \cup UserWallets] :
                 Borrow(signer, key, zov, wallet, mint, amount, loans, source)
          \/ \E u \in Users, recipient \in Recipients :
               CctpFromUser(signer, u, amount, recipient, key, zov)
    BY <1>1 DEF LendNext
  <2>2. ASSUME NEW wallet \in Wallets, NEW mint \in Mints, NEW lenders \in (SUBSET Users) \ {{}},
               NEW loans \in [lenders -> Amounts],
               NEW source \in [lenders -> Users \cup UserWallets],
               Borrow(signer, key, zov, wallet, mint, amount, loans, source)
        PROVE  LendingInv'
    BY <2>2, BorrowStep
  <2>3. ASSUME NEW u \in Users, NEW recipient \in Recipients,
               CctpFromUser(signer, u, amount, recipient, key, zov)
        PROVE  LendingInv'
    BY <2>3, CctpStep
  <2>4. QED
    BY <2>1, <2>2, <2>3
<1>2. CASE CollectNext
  <2>1. ASSUME NEW signer \in Keys, NEW key \in OrderKeys, NEW amount \in Amounts,
               NEW supplied \in SeqOf(Users, MaxOperations),
               NEW wallets \in [DOMAIN supplied -> UserWallets],
               Repay(signer, key, supplied, wallets, amount)
        PROVE  LendingInv'
    BY <2>1, RepayStep
  <2>2. ASSUME NEW wallet \in UserWallets, NEW destination \in UserWallets, NEW u \in Users,
               NEW operations \in SeqOf(OrderIds, MaxOperations),
               Claim(wallet, u, destination, operations)
        PROVE  LendingInv'
    BY <2>2, ClaimAction
  <2>3. QED
    BY <1>2, <2>1, <2>2 DEF CollectNext
<1>3. ASSUME NEW wallet \in UserWallets, NEW u \in Users, NEW amount \in Amounts,
             Approve(wallet, Spender(u), amount)
      PROVE  LendingInv'
  <2>1. Spender(u) \in Users \cup {OrbitVault}
    BY DEF Spender
  <2>2. QED
    BY <1>3, <2>1, ApproveStep
<1>4. QED
  BY <1>1, <1>2, <1>3 DEF LoanNext

LEMMA CoreSteps == LendingInv /\ CoreNext => LendingInv'
<1> SUFFICES ASSUME LendingInv, CoreNext PROVE LendingInv'
  OBVIOUS
<1>1. ASSUME NEW signer \in Keys, NEW key \in OrderKeys, NEW amount \in DirectAmounts,
             NEW close \in BOOLEAN, Core!Replenish(signer, key, amount, close),
             Behind(IF amount > 0 THEN {key} ELSE {})
      PROVE  LendingInv'
  BY <1>1, ReplenishStep
<1>2. ASSUME NEW signer \in Keys, NEW key \in OrderKeys, NEW amount \in DirectAmounts,
             Core!RecordOrder(signer, key, amount), Behind({key})
      PROVE  LendingInv'
  BY <1>2, RecordStep
<1>3. ASSUME NEW signer \in Keys, NEW key \in OrderKeys, NEW zov \in Zovs,
             NEW mint \in Mints, NEW transient \in BOOLEAN, NEW amount \in DirectAmounts,
             Unlent(signer, key, zov, mint, transient, amount), Behind({})
      PROVE  LendingInv'
  BY <1>3, UnlentStep
<1>4. ASSUME NEW signer \in Keys, NEW keys \in (SUBSET OrderKeys) \ {{}},
             Core!CloseOrders(signer, keys), Behind(keys)
      PROVE  LendingInv'
  BY <1>4, CloseStep
<1>5. ASSUME NEW paused \in BOOLEAN, config' = [config EXCEPT !.paused = paused],
             UNCHANGED <<bal, userVars, coreVars, lendingVars>>
      PROVE  LendingInv'
  BY <1>5, PauseStep
<1>6. QED
  BY <1>1, <1>2, <1>3, <1>4, <1>5 DEF CoreNext, UnlentNext, SettleNext, Unlent

LEMMA LendingStutters == LendingInv /\ UNCHANGED allVars => LendingInv'
<1> SUFFICES ASSUME LendingInv, UNCHANGED allVars PROVE LendingInv'
  OBVIOUS
<1>1. UNCHANGED <<config, bal, users, withdraws, cliffs, ovault, now, carried, beneficiaries,
                  orders, audit, positions, approved, touched, struck>>
  BY DEF allVars, usersVars, userVars, coreVars, lendingVars
<1>2. UsersPart'
  BY <1>1 DEF LendingInv, UsersPart, UsersTypeOK, WithinCap, Registered
<1>3. CoreOK'
  BY <1>1 DEF LendingInv, OrdersPart, CoreOK, CoreBooks, Core!TypeOK, Core!Initialized,
              Core!DebtInv, Core!LendersSenior, Core!LendersPaidByPartner, Core!Open
<1>4. QED
  BY <1>1, <1>2, <1>3 DEF LendingInv, OrdersPart

LEMMA LendingSteps == LendingInv /\ [LendingNext]_allVars => LendingInv'
<1> SUFFICES ASSUME LendingInv, [LendingNext]_allVars PROVE LendingInv'
  OBVIOUS
<1>1. CASE LoanNext
  BY <1>1, LoanSteps
<1>2. CASE StrikeNext
  <2>1. ASSUME NEW signer \in Keys, NEW closeUsers \in SUBSET Users,
               NEW closeWithdraws \in SUBSET Users, NEW closeCliffs \in SUBSET Users,
               NEW closeVault \in BOOLEAN, NEW closing \in SUBSET (OrderIds \X Users),
               RevokeAny(signer, closeUsers, closeWithdraws, closeCliffs, closeVault, closing)
        PROVE  LendingInv'
    BY <2>1, StrikeStep
  <2>2. QED
    BY <1>2, <2>1 DEF StrikeNext
<1>3. CASE CoreNext
  BY <1>3, CoreSteps
<1>4. CASE /\ RegistryNext \/ PrincipalNext \/ CliffNext \/ VaultNext \/ Tick
           /\ UNCHANGED <<coreVars, lendingVars>>
  BY <1>4, UsersAlone
<1>5. CASE UNCHANGED allVars
  BY <1>5, LendingStutters
<1>6. QED
  BY <1>1, <1>2, <1>3, <1>4, <1>5 DEF LendingNext

LEMMA LendingStarts == LendingInit => LendingInv
<1> SUFFICES ASSUME LendingInit PROVE LendingInv
  OBVIOUS
<1>1. /\ orders = [key \in OrderKeys |-> None] /\ positions = [p \in OrderIds \X Users |-> None]
      /\ audit = [key \in OrderKeys |-> Core!FreshHistory]
      /\ touched = {} /\ struck = {} /\ approved = [w \in UserWallets |-> NoApproval]
      /\ bal = InitialBalance
  BY DEF LendingInit, UsersInit
<1>2. UsersInit
  BY DEF LendingInit
<1>3. config \in Config /\ config.mints # {}
  BY ONLY <1>2, UsersAssumption DEF UsersInit, Config, UsersAssumption
<1>4. UsersPart
  <2>1. UsersTypeOK
    BY ONLY <1>2, <1>3, UsersAssumption DEF UsersInit, UsersTypeOK, UsersAssumption, Times
  <2>2. \A u \in Users : ~Registered(u)
    BY ONLY <1>2 DEF UsersInit, Registered
  <2>3. WithinCap
    BY ONLY <2>2 DEF WithinCap
  <2>4. ovault = None
    BY <1>2 DEF UsersInit
  <2>5. QED
    BY <2>1, <2>2, <2>3, <2>4 DEF UsersPart
<1>5. CoreOK
  <2>1. config \in Core!Config \cup {None}
    BY ONLY <1>3 DEF Config, Core!Config
  <2>2. beneficiaries \in [Partners \X Wallets -> Core!Beneficiary \cup {None}]
    BY DEF LendingInit, Core!Beneficiary
  <2>3. audit \in [OrderKeys -> Core!History]
    BY <1>1 DEF Core!FreshHistory, Core!History
  <2>4. bal \in [Core!Accounts -> [Mints -> Nat]]
    BY <1>1, CoreAssumption DEF Core!OrdersAssumption
  <2>5. Core!TypeOK
    BY <1>1, <1>3, <2>1, <2>2, <2>3, <2>4, SameTypes DEF Core!TypeOK, Core!Initialized
  <2>6. CoreBooks
    BY <1>1, SameTypes DEF CoreBooks, Core!DebtInv, Core!LendersSenior,
                           Core!LendersPaidByPartner, Core!Open
  <2>7. QED
    BY <2>5, <2>6 DEF CoreOK
<1>6. PositionsOK(positions)
  BY <1>1 DEF PositionsOK
<1>7. Clean(orders, audit, touched)
  BY <1>1 DEF Clean
<1>8. Agree(positions, orders, touched)
  <2>1. ASSUME NEW key \in OrderKeys
        PROVE  DebtOn(positions, key) = LentOn(orders, key)
    <3>1. key[2] \in OrderIds
      BY DEF OrderKeys
    <3>2. \A u \in Users : LoansOn(positions, key)[u] = 0
      BY <1>1, <3>1 DEF LoansOn, LoanOn
    <3>3. DebtOn(positions, key) = 0
      BY <3>2, Finite, SumZero DEF DebtOn
    <3>4. QED
      BY <1>1, <3>3 DEF LentOn
  <2>2. QED
    BY <2>1 DEF Agree
<1>9. approved \in [UserWallets -> Approval]
  <2>1. NoApproval \in Approval
    BY WidthAssumption DEF NoApproval, Approval, U64
  <2>2. QED
    BY <1>1, <2>1
<1>10. QED
  BY <1>1, <1>4, <1>5, <1>6, <1>7, <1>8, <1>9 DEF LendingInv, OrdersPart

\* The inductive invariant: types and caps of users, the books of Core's orders, types
\* of positions, every touched order's exception, the agreement of the books, and
\* every ICV user's net principal in custody or in positions.
THEOREM LendingTheorem == LendingSpec => []LendingInv
BY LendingStarts, LendingSteps, PTL DEF LendingSpec

\* Types of positions and approvals, and no open position is paid in full, for any
\* number of users, orders and partners.
THEOREM LendingTypeTheorem == LendingSpec => []LendingTypeOK
<1>1. LendingInv => LendingTypeOK
  BY InvMeansProperties
<1>2. QED
  BY <1>1, LendingTheorem, PTL

\* What Core's tracker says is owed to lenders is what Orbit's positions add up to,
\* and an order that is gone leaves no position behind, after any borrow, repay,
\* claim, revocation and any of Core's own instructions, except on orders whose
\* debt was changed without the positions.
THEOREM BooksTheorem == LendingSpec => []BooksAgree
<1>1. LendingInv => BooksAgree
  BY InvMeansProperties
<1>2. QED
  BY <1>1, LendingTheorem, PTL

\* An ICV user's net principal is in its custody account or owed to it on open
\* positions, whatever was lent, repaid, claimed, burned or withdrawn.
THEOREM CoverTheorem == LendingSpec => []PrincipalCovered
<1>1. LendingInv => PrincipalCovered
  BY InvMeansProperties
<1>2. QED
  BY <1>1, LendingTheorem, PTL

\* Every step of lending, Core's own included, is one of the ledger.
LEMMA LedgerLoans ==
  ASSUME LedgerAround, Plain, LoanNext
  PROVE  LedgerStep
<1>1. CASE LendNext
  <2>1. PICK signer \in Keys, key \in OrderKeys, zov \in Zovs, amount \in Amounts :
          \/ \E wallet \in Wallets, mint \in Mints, lenders \in (SUBSET Users) \ {{}} :
               \E loans \in [lenders -> Amounts], source \in [lenders -> Users \cup UserWallets] :
                 Borrow(signer, key, zov, wallet, mint, amount, loans, source)
          \/ \E u \in Users, recipient \in Recipients :
               CctpFromUser(signer, u, amount, recipient, key, zov)
    BY <1>1 DEF LendNext
  <2>2. ASSUME NEW wallet \in Wallets, NEW mint \in Mints, NEW lenders \in (SUBSET Users) \ {{}},
               NEW loans \in [lenders -> Amounts],
               NEW source \in [lenders -> Users \cup UserWallets],
               Borrow(signer, key, zov, wallet, mint, amount, loans, source)
        PROVE  LedgerStep
    BY <2>2, LedgerBorrow
  <2>3. ASSUME NEW u \in Users, NEW recipient \in Recipients,
               CctpFromUser(signer, u, amount, recipient, key, zov)
        PROVE  LedgerStep
    BY <2>3, LedgerCctp
  <2>4. QED
    BY <2>1, <2>2, <2>3
<1>2. CASE CollectNext
  <2>1. ASSUME NEW signer \in Keys, NEW key \in OrderKeys, NEW amount \in Amounts,
               NEW supplied \in SeqOf(Users, MaxOperations),
               NEW wallets \in [DOMAIN supplied -> UserWallets],
               Repay(signer, key, supplied, wallets, amount)
        PROVE  LedgerStep
    BY <2>1, LedgerRepay
  <2>2. ASSUME NEW wallet \in UserWallets, NEW destination \in UserWallets, NEW u \in Users,
               NEW operations \in SeqOf(OrderIds, MaxOperations),
               Claim(wallet, u, destination, operations)
        PROVE  LedgerStep
    <3>1. ClaimPays
      BY <2>2, ClaimAction DEF LedgerAround
    <3>2. QED
      BY <3>1, LedgerPaysOff DEF ClaimPays, LedgerAround, LedgerStep
  <2>3. QED
    BY <1>2, <2>1, <2>2 DEF CollectNext
<1>3. ASSUME NEW wallet \in UserWallets, NEW u \in Users, NEW amount \in Amounts,
             Approve(wallet, Spender(u), amount)
      PROVE  LedgerStep
  BY <1>3, LedgerUntouched DEF Approve, coreVars
<1>4. QED
  BY <1>1, <1>2, <1>3 DEF LoanNext

LEMMA LedgerCore ==
  ASSUME LedgerAround, CoreNext
  PROVE  LedgerStep
<1>1. ASSUME NEW signer \in Keys, NEW key \in OrderKeys, NEW amount \in DirectAmounts,
             NEW close \in BOOLEAN, Core!Replenish(signer, key, amount, close),
             Behind(IF amount > 0 THEN {key} ELSE {})
      PROVE  LedgerStep
  BY <1>1, LedgerReplenish
<1>2. ASSUME NEW signer \in Keys, NEW key \in OrderKeys, NEW amount \in DirectAmounts,
             Core!RecordOrder(signer, key, amount), Behind({key})
      PROVE  LedgerStep
  BY <1>2, LedgerRecord
<1>3. ASSUME NEW signer \in Keys, NEW key \in OrderKeys, NEW zov \in Zovs,
             NEW mint \in Mints, NEW transient \in BOOLEAN, NEW amount \in DirectAmounts,
             Unlent(signer, key, zov, mint, transient, amount), Behind({})
      PROVE  LedgerStep
  BY <1>3, LedgerUnlent
<1>4. ASSUME NEW signer \in Keys, NEW keys \in (SUBSET OrderKeys) \ {{}},
             Core!CloseOrders(signer, keys), Behind(keys)
      PROVE  LedgerStep
  BY <1>4, LedgerClose
<1>5. ASSUME UNCHANGED <<bal, userVars, coreVars, lendingVars>>
      PROVE  LedgerStep
  BY <1>5, LedgerUntouched DEF coreVars, lendingVars
<1>6. QED
  BY <1>1, <1>2, <1>3, <1>4, <1>5 DEF CoreNext, UnlentNext, SettleNext, Unlent

LEMMA LedgerMoves ==
  ASSUME LedgerAround, Plain, [LendingNext]_allVars
  PROVE  LedgerStep
<1>1. CASE LoanNext
  BY <1>1, LedgerLoans
<1>2. CASE StrikeNext
  BY <1>2, LedgerStrike DEF StrikeNext
<1>3. CASE CoreNext
  BY <1>3, LedgerCore
<1>4. CASE UNCHANGED <<coreVars, lendingVars>>
  BY <1>4, LedgerUntouched DEF coreVars, lendingVars
<1>5. CASE UNCHANGED allVars
  BY <1>5, LedgerUntouched DEF allVars, coreVars, lendingVars
<1>6. QED
  BY <1>1, <1>2, <1>3, <1>4, <1>5 DEF LendingNext

\* At first no order is open and nothing is lent.
LEMMA LedgerStarts ==
  ASSUME LendingInit
  PROVE  Ledger!Init /\ HouseSound
<1>1. /\ orders = [key \in OrderKeys |-> None] /\ positions = [p \in OrderIds \X Users |-> None]
      /\ touched = {}
  BY DEF LendingInit
<1>2. \A key \in OrderKeys : HouseOn(orders, key) = 0 /\ HouseDebt(key) = 0
  BY <1>1 DEF HouseOn, HouseDebt, Open
<1>3. \A key \in OrderKeys, u \in Users : ~Lends(key, u)
  BY <1>1 DEF Lends, HasPosition, OrderKeys
<1>4. Ledger!Init
  BY <1>1, <1>2, <1>3 DEF Ledger!Init, Ledger!Free
<1>5. HouseSound
  BY <1>1, <1>2 DEF HouseSound
<1>6. QED
  BY <1>4, <1>5

\* The trackers of Core and the positions of Orbit are one LoanLedger of booked debts,
\* which fall only when the partner pays and the lender receives, and the house's part
\* last, where no mint charges fees and no user's wallet is the vault of a partner (who
\* would pay itself).  Tokens that the ZOV gets beyond what a repayment books (repay.rs
\* 288 passes the gross amount) lower no debt and are outside the ledger.
THEOREM LedgerTheorem ==
  ASSUME FeeBearing = {}, Partners \cap (Users \cup UserWallets \cup {OrbitVault}) = {}
  PROVE  LendingSpec => OneLedger
<1>1. Plain
  BY DEF Plain, Payees
<1>2. LendingInit => Ledger!Init /\ HouseSound
  BY LedgerStarts
<1>3. /\ LendingInv /\ LendingInv' /\ LedgerState /\ LedgerState' /\ HouseSound
      /\ [LendingNext]_allVars
      => Ledger!Next /\ HouseSound'
  BY <1>1, LedgerMoves DEF LedgerAround, LedgerStep
<1>4. QED
  BY <1>2, <1>3, LendingTheorem, LedgerStates, PTL DEF LendingSpec, OneLedger, Ledger!Spec

\* The user's cap and what Core keeps of its orders by itself (lenders get back no more
\* than they lent, of the booked debt they come first, only the partner pays them) also
\* hold while Orbit's lending changes users and orders.
THEOREM ComponentsTheorem ==
  LendingSpec => [](WithinCap /\ Core!DebtInv /\ Core!LendersSenior /\ Core!LendersPaidByPartner)
<1>1. LendingInv => WithinCap /\ Core!DebtInv /\ Core!LendersSenior /\ Core!LendersPaidByPartner
  BY DEF LendingInv, UsersPart, OrdersPart, CoreOK, CoreBooks
<1>2. QED
  BY <1>1, LendingTheorem, PTL

=============================================================================
