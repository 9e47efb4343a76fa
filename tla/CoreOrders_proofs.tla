------------------------- MODULE CoreOrders_proofs --------------------------
(***************************************************************************)
(* Proofs about CoreOrders, for any number of partners, orders, vaults,    *)
(* wallets, lenders and mints and any width of the integers.               *)
(***************************************************************************)
EXTENDS CoreOrders, Tokens_proofs, Sums_proofs

USE OrdersAssumption, WidthAssumption

Balances == [Accounts -> [Mints -> Nat]]

\* A transfer that the source can afford leaves no balance below zero.
LEMMA TransferType ==
  ASSUME NEW b \in Balances, NEW from \in Accounts, NEW to \in Accounts,
         NEW mint \in Mints, NEW amount \in Nat, amount <= b[from][mint]
  PROVE  Transfer(b, from, to, mint, amount) \in Balances
<1>1. b \in BalancesOf(Accounts)
  BY DEF Balances, BalancesOf
<1>2. Transfer(b, from, to, mint, amount) \in BalancesOf(Accounts)
  BY <1>1, TransferKeepsType
<1>3. QED
  BY <1>2 DEF Balances, BalancesOf

\* Paying shares out of a vault that holds their total does not either.
LEMMA PaySharesType ==
  ASSUME NEW b \in Balances, NEW zov \in Accounts, NEW mint \in Mints,
         NEW shares \in [Lenders -> U64], NEW total \in Nat, total <= b[zov][mint]
  PROVE  PayShares(b, zov, mint, shares, total) \in Balances
<1> SUFFICES ASSUME NEW owner \in Accounts
             PROVE  [b[owner] EXCEPT ![mint] =
                       @ - (IF owner = zov THEN total ELSE 0)
                         + (IF owner \in Lenders THEN Arrives(mint, shares[owner]) ELSE 0)]
                    \in [Mints -> Nat]
  BY DEF PayShares, Balances
<1>1. b[owner] \in [Mints -> Nat]
  BY DEF Balances
<1>2. (IF owner \in Lenders THEN Arrives(mint, shares[owner]) ELSE 0) \in Nat
  BY ArrivesBounds DEF U64
<1>3. b[owner][mint] - (IF owner = zov THEN total ELSE 0) \in Nat
  BY <1>1
<1>4. QED
  BY <1>1, <1>2, <1>3

\* A tracker that a handler opens has the types of the account's fields.
LEMMA OpenTrackerType ==
  ASSUME NEW zov \in Zovs \cup {None}, NEW wallet \in Wallets \cup {None},
         NEW mint \in Mints \cup {None},
         NEW in \in U64, NEW out \in U64, NEW borrowed \in U64
  PROVE  OpenTracker(zov, wallet, mint, in, out, borrowed) \in OrderTracker
BY DEF OpenTracker, OrderTracker, U64

-----------------------------------------------------------------------------
\* Account sets and balances in the form the leaves below need.
LEMMA AccountFacts ==
  /\ Partners \subseteq Accounts /\ Zovs \subseteq Accounts
  /\ Wallets \subseteq Accounts /\ Lenders \subseteq Accounts
  /\ \A key \in OrderKeys : key[1] \in Partners
  /\ U64 \subseteq Nat
BY DEF Accounts, OrderKeys, U64

\* An open order is an OrderTracker account.
LEMMA OpenIsTracker ==
  ASSUME TypeOK, NEW key \in OrderKeys, Open(key)
  PROVE  orders[key] \in OrderTracker
BY DEF TypeOK, Open

\* A mint on the whitelist is a mint; None is not on it.
LEMMA AllowedIsMint ==
  ASSUME TypeOK, Initialized, NEW mint, MintAllowed(mint)
  PROVE  mint \in Mints /\ mint # None
BY ConfigAssumption DEF TypeOK, Initialized, MintAllowed, Config

LEMMA FreshHistoryType ==
  /\ FreshHistory \in History
  /\ \A n \in Nat : [FreshHistory EXCEPT !.arrived = n] \in History
BY DEF FreshHistory, History

\* What the handlers do to a history keeps its type.
LEMMA HistoryUpdates ==
  ASSUME NEW h \in History, NEW n \in Nat, NEW m \in Nat, NEW b \in BOOLEAN
  PROVE  /\ [h EXCEPT !.arrived = @ + n, !.direct = b] \in History
         /\ [h EXCEPT !.arrived = @ + n, !.paid = @ + m] \in History
         /\ [h EXCEPT !.recorded = TRUE] \in History
         /\ h.direct \in BOOLEAN
<1>1. /\ h.arrived \in Nat /\ h.paid \in Nat
      /\ h.direct \in BOOLEAN /\ h.recorded \in BOOLEAN
  BY Zenon DEF History
<1>2. h.arrived + n \in Nat /\ h.paid + m \in Nat
  BY <1>1
<1>3. [h EXCEPT !.arrived = @ + n, !.direct = b] \in History
  BY <1>1, <1>2, Zenon DEF History
<1>4. [h EXCEPT !.arrived = @ + n, !.paid = @ + m] \in History
  BY <1>1, <1>2, Zenon DEF History
<1>5. [h EXCEPT !.recorded = TRUE] \in History
  BY <1>1, Zenon DEF History
<1>6. QED
  BY <1>1, <1>3, <1>4, <1>5

\* What they do to a tracker keeps its type as long as the sums fit.
LEMMA TrackerUpdates ==
  ASSUME NEW t \in OrderTracker, NEW n \in Nat, NEW m \in Nat
  PROVE  /\ t.amount_in + n <= MaxU64 => [t EXCEPT !.amount_in = @ + n] \in OrderTracker
         /\ t.amount_in + n <= MaxU64 /\ t.amount_repaid + m <= MaxU64 =>
              [t EXCEPT !.amount_repaid = @ + m, !.amount_in = @ + n] \in OrderTracker
         /\ \A out \in U64 : [t EXCEPT !.amount_out = out, !.amount_borrowed = 0,
                                        !.amount_repaid = 0] \in OrderTracker
<1>1. t.amount_in \in U64 /\ t.amount_repaid \in U64
  BY DEF OrderTracker
<1>2. t.amount_in + n <= MaxU64 => t.amount_in + n \in U64
  BY <1>1 DEF U64
<1>3. t.amount_repaid + m <= MaxU64 => t.amount_repaid + m \in U64
  BY <1>1 DEF U64
<1>4. ASSUME t.amount_in + n \in U64
      PROVE  [t EXCEPT !.amount_in = @ + n] \in OrderTracker
  BY <1>4 DEF OrderTracker
<1>5. ASSUME t.amount_in + n \in U64, t.amount_repaid + m \in U64
      PROVE  [t EXCEPT !.amount_repaid = @ + m, !.amount_in = @ + n] \in OrderTracker
  BY <1>5 DEF OrderTracker
<1>6. ASSUME NEW out \in U64
      PROVE  [t EXCEPT !.amount_out = out, !.amount_borrowed = 0,
                       !.amount_repaid = 0] \in OrderTracker
  <2>1. 0 \in U64
    BY DEF U64
  <2>2. QED
    BY <2>1 DEF OrderTracker
<1>7. QED
  BY <1>2, <1>3, <1>4, <1>5, <1>6

LEMMA CreateOrderFromType ==
  ASSUME TypeOK, NEW b \in Balances, NEW signer, NEW byOrbit \in BOOLEAN,
         NEW key \in OrderKeys, NEW zov \in Zovs, NEW wallet \in Wallets \cup {None},
         NEW mint \in Mints, NEW transient \in BOOLEAN, NEW amount \in U64,
         NEW meta \in U64 \cup {None}, NEW borrowed \in U64,
         CreateOrderFrom(b, signer, byOrbit, key, zov, wallet, mint, transient, amount,
                         meta, borrowed)
  PROVE  TypeOK'
<1>1. EffectiveAmount(amount, meta) \in U64
  BY DEF EffectiveAmount
<1>2. OpenTracker(zov, wallet, mint, 0, EffectiveAmount(amount, meta), borrowed)
        \in OrderTracker
  BY <1>1, OpenTrackerType DEF U64
<1>3. bal' \in Balances
  <2>1. CASE wallet = None
    BY <2>1 DEF CreateOrderFrom
  <2>2. CASE wallet # None
    BY <2>2, TransferType, AccountFacts DEF CreateOrderFrom
  <2>3. QED
    BY <2>1, <2>2
<1>4. orders' \in [OrderKeys -> OrderTracker \cup {None}]
  BY <1>2 DEF CreateOrderFrom, TypeOK
<1>5. audit' \in [OrderKeys -> History]
  BY FreshHistoryType DEF CreateOrderFrom, TypeOK
<1>6. QED
  BY <1>3, <1>4, <1>5 DEF CreateOrderFrom, TypeOK, Balances, Initialized

LEMMA CreateOrderType ==
  ASSUME TypeOK, NEW signer, NEW byOrbit \in BOOLEAN, NEW key \in OrderKeys,
         NEW zov \in Zovs, NEW wallet \in Wallets \cup {None}, NEW mint \in Mints,
         NEW transient \in BOOLEAN, NEW amount \in U64, NEW meta \in U64 \cup {None},
         NEW borrowed \in U64,
         CreateOrder(signer, byOrbit, key, zov, wallet, mint, transient, amount,
                     meta, borrowed)
  PROVE  TypeOK'
<1>1. bal \in Balances
  BY DEF TypeOK, Balances
<1>2. CreateOrderFrom(bal, signer, byOrbit, key, zov, wallet, mint, transient, amount,
                      meta, borrowed)
  BY DEF CreateOrder
<1>3. QED
  BY <1>1, <1>2, CreateOrderFromType

LEMMA PullAndCreateOrderType ==
  ASSUME TypeOK, NEW signer, NEW key \in OrderKeys, NEW zov \in Zovs,
         NEW wallet \in Wallets, NEW mint \in Mints, NEW transient \in BOOLEAN,
         NEW amount \in U64,
         PullAndCreateOrder(signer, key, zov, wallet, mint, transient, amount)
  PROVE  TypeOK'
<1> DEFINE pulled == Transfer(bal, key[1], zov, mint, amount)
<1>1. pulled \in Balances
  BY TransferType, AccountFacts DEF PullAndCreateOrder, TypeOK, Balances
<1>2. bal' \in Balances
  BY <1>1, TransferType, AccountFacts DEF PullAndCreateOrder
<1>3. OpenTracker(zov, wallet, mint, amount, amount, 0) \in OrderTracker
  BY OpenTrackerType DEF U64
<1>4. orders' \in [OrderKeys -> OrderTracker \cup {None}]
  BY <1>3 DEF PullAndCreateOrder, TypeOK
<1>5. audit' \in [OrderKeys -> History]
  <2>1. Arrives(mint, amount) \in Nat
    BY ArrivesBounds, AccountFacts
  <2>2. QED
    BY <2>1, FreshHistoryType DEF PullAndCreateOrder, TypeOK
<1>6. QED
  BY <1>2, <1>4, <1>5 DEF PullAndCreateOrder, TypeOK, Balances, Initialized

LEMMA ReplenishType ==
  ASSUME TypeOK, DebtInv, NEW signer, NEW key \in OrderKeys, NEW amount \in U64,
         NEW close \in BOOLEAN, Replenish(signer, key, amount, close)
  PROVE  TypeOK'
<1> DEFINE t == orders[key]
           paidIn == [t EXCEPT !.amount_in = @ + amount]
<1>1. t \in OrderTracker /\ t.mint \in Mints /\ amount \in Nat
  BY OpenIsTracker, AllowedIsMint, AccountFacts
  DEF Replenish, ReplenishAccounts, Running
<1>2. t.zynk_op_vault \in Zovs
  BY <1>1, AllowedIsMint
    DEF Replenish, ReplenishAccounts, Running, OrderTracker, DebtInv, Ledger
<1>3. bal' \in Balances
  BY <1>1, <1>2, TransferType, AccountFacts
    DEF Replenish, ReplenishAccounts, TypeOK, Balances
<1>4. paidIn \in OrderTracker
  BY <1>1 DEF Replenish, ReplenishAccounts, OrderTracker, U64
<1>5. orders' \in [OrderKeys -> OrderTracker \cup {None}]
  BY <1>4 DEF Replenish, ReplenishAccounts, TypeOK
<1>6. audit' \in [OrderKeys -> History]
  <2>1. Arrives(t.mint, amount) \in Nat
    BY <1>1, ArrivesBounds
  <2>2. audit[key] \in History
    BY DEF TypeOK
  <2> DEFINE direct == IF amount > 0 THEN TRUE ELSE audit[key].direct
             updated == [audit[key] EXCEPT !.arrived = @ + Arrives(t.mint, amount),
                                           !.direct = direct]
  <2>3. direct \in BOOLEAN
    BY <2>1, <2>2, HistoryUpdates
  <2>4. updated \in History
    BY <2>1, <2>2, <2>3, HistoryUpdates
  <2>5. audit' = [audit EXCEPT ![key] = updated]
    BY <2>2 DEF Replenish, ReplenishAccounts, TypeOK
  <2>6. QED
    BY <2>4, <2>5 DEF TypeOK
<1>7. QED
  BY <1>3, <1>5, <1>6 DEF Replenish, ReplenishAccounts, TypeOK, Balances, Initialized

\* An order whose mint is on the whitelist has a vault of this chain.
LEMMA PayableOrder ==
  ASSUME TypeOK, Initialized, NEW t \in OrderTracker, Ledger(t), MintAllowed(t.mint)
  PROVE  t.mint \in Mints /\ t.zynk_op_vault \in Zovs
BY AllowedIsMint DEF OrderTracker, Ledger

\* A repayment whose checks pass keeps balances and tracker in their types, whatever
\* has moved before it in the same instruction.
LEMMA RepaymentType ==
  ASSUME TypeOK, Running, NEW b \in Balances, NEW key \in OrderKeys,
         NEW t \in OrderTracker, Ledger(t), NEW amount \in Nat, NEW repay \in Nat,
         NEW shares \in [Lenders -> U64],
         Repayable(b, key, t, amount, repay, shares)
  PROVE  /\ BalancesRepaid(b, key, t, amount, shares) \in Balances
         /\ SumFunction(shares) \in Nat
         /\ TrackerRepaid(t, repay, SumFunction(shares)) \in OrderTracker \cup {None}
<1> DEFINE total == SumFunction(shares)
           zov == t.zynk_op_vault
           pulled == Transfer(b, key[1], zov, t.mint, amount)
           repaid == [t EXCEPT !.amount_repaid = @ + total, !.amount_in = @ + repay]
<1>1. /\ t.mint \in Mints /\ zov \in Zovs
  BY PayableOrder DEF Running, Repayable
<1>2. /\ amount <= b[key[1]][t.mint] /\ total \in Nat
      /\ total <= pulled[zov][t.mint]
      /\ t.amount_repaid + total <= MaxU64 /\ t.amount_in + repay <= MaxU64
  BY AccountFacts DEF Repayable
<1>3. pulled \in Balances
  BY <1>1, <1>2, TransferType, AccountFacts
<1> HIDE DEF pulled, total, zov
<1>4. PayShares(pulled, zov, t.mint, shares, total) \in Balances
  BY <1>1, <1>2, <1>3, PaySharesType, AccountFacts
<1>5. repaid \in OrderTracker
  BY <1>2, TrackerUpdates
<1>6. QED
  BY <1>2, <1>4, <1>5 DEF BalancesRepaid, TrackerRepaid, pulled, total, zov

\* Of owners that are no vaults: the balances c are b and the shares.
OnlyShares(b, c, t, shares) ==
  \A owner \in Lenders \ (Partners \cup Zovs), mint \in Mints :
    c[owner][mint] = b[owner][mint]
                       + (IF mint = t.mint THEN Arrives(mint, shares[owner]) ELSE 0)

LEMMA RepaymentMoves ==
  ASSUME TypeOK, Running, NEW b \in Balances, NEW key \in OrderKeys,
         NEW t \in OrderTracker, Ledger(t), NEW amount \in Nat, NEW repay \in Nat,
         NEW shares \in [Lenders -> U64],
         Repayable(b, key, t, amount, repay, shares)
  PROVE  OnlyShares(b, BalancesRepaid(b, key, t, amount, shares), t, shares)
<1> SUFFICES ASSUME NEW owner \in Lenders \ (Partners \cup Zovs), NEW mint \in Mints
             PROVE  BalancesRepaid(b, key, t, amount, shares)[owner][mint]
                      = b[owner][mint]
                        + (IF mint = t.mint THEN Arrives(mint, shares[owner]) ELSE 0)
  BY DEF OnlyShares
<1> DEFINE zov == t.zynk_op_vault
           pulled == Transfer(b, key[1], zov, t.mint, amount)
           paid == BalancesRepaid(b, key, t, amount, shares)
<1>1. t.mint \in Mints /\ zov \in Zovs /\ amount <= b[key[1]][t.mint]
  BY PayableOrder DEF Running, Repayable
<1>2. /\ key[1] \in Accounts /\ zov \in Accounts /\ owner \in Accounts
      /\ owner # zov /\ owner # key[1]
  BY <1>1, AccountFacts
<1>3. pulled[owner][mint] = b[owner][mint]
  BY <1>1, <1>2 DEF Transfer, Balances
<1>4. pulled \in Balances
  BY <1>1, <1>2, TransferType
<1> HIDE DEF pulled, zov
<1>5. paid[owner] = [pulled[owner] EXCEPT ![t.mint] =
                       @ - 0 + Arrives(t.mint, shares[owner])]
  BY <1>2 DEF BalancesRepaid, PayShares, pulled, zov
<1>6. pulled[owner] \in [Mints -> Nat] /\ Arrives(t.mint, shares[owner]) \in Nat
  BY <1>2, <1>4, ArrivesBounds, AccountFacts DEF Balances
<1>7. paid[owner][mint] = pulled[owner][mint]
        + (IF mint = t.mint THEN Arrives(mint, shares[owner]) ELSE 0)
  <2> HIDE DEF paid
  <2>1. QED
    BY <1>1, <1>5, <1>6
<1>8. QED
  BY <1>3, <1>7 DEF paid

LEMMA ReplenishAndRepayType ==
  ASSUME TypeOK, DebtInv, NEW key \in OrderKeys, NEW amount \in U64, NEW repay \in U64,
         NEW shares \in [Lenders -> U64],
         ReplenishAndRepay(key, amount, repay, shares)
  PROVE  TypeOK'
<1> DEFINE t == orders[key]
           total == SumFunction(shares)
<1>1. /\ Running /\ Repayable(bal, key, t, amount, repay, shares)
      /\ t \in OrderTracker /\ Ledger(t)
      /\ amount \in Nat /\ repay \in Nat /\ bal \in Balances
  BY OpenIsTracker, AccountFacts DEF ReplenishAndRepay, DebtInv, TypeOK, Balances
<1>2. /\ BalancesRepaid(bal, key, t, amount, shares) \in Balances
      /\ total \in Nat /\ TrackerRepaid(t, repay, total) \in OrderTracker \cup {None}
  BY <1>1, RepaymentType
<1>3. t.mint \in Mints
  BY <1>1, PayableOrder DEF Running, Repayable
<1>4. audit' \in [OrderKeys -> History]
  <2>1. Arrives(t.mint, amount) \in Nat
    BY <1>1, ArrivesBounds
  <2>2. audit[key] \in History
    BY DEF TypeOK
  <2> DEFINE updated == [audit[key] EXCEPT !.arrived = @ + Arrives(t.mint, amount),
                                           !.paid = @ + total]
  <2>3. updated \in History
    <3> HIDE DEF t, total
    <3>1. QED
      BY <1>2, <2>1, <2>2, HistoryUpdates
  <2>4. audit' = [audit EXCEPT ![key] = updated]
    BY <2>2 DEF ReplenishAndRepay, TypeOK
  <2>5. QED
    BY <2>3, <2>4 DEF TypeOK
<1>5. QED
  BY <1>2, <1>4 DEF ReplenishAndRepay, TypeOK, Balances, Initialized

LEMMA RecordOrderType ==
  ASSUME TypeOK, NEW signer, NEW key \in OrderKeys, NEW amount \in U64,
         RecordOrder(signer, key, amount)
  PROVE  TypeOK'
<1>1. CASE Open(key) /\ key[2] # ZeroId
  <2>1. orders[key] \in OrderTracker
    BY <1>1, OpenIsTracker
  <2> DEFINE booked == [orders[key] EXCEPT !.amount_in = @ + amount]
  <2>2. booked \in OrderTracker
    <3>1. booked.amount_in = orders[key].amount_in + amount
      BY <2>1 DEF OrderTracker
    <3>2. booked.amount_in <= MaxU64
      BY <1>1 DEF RecordOrder, RecordReplenishment
    <3>3. QED
      BY <2>1, <3>1, <3>2, TrackerUpdates, AccountFacts
  <2>3. orders' \in [OrderKeys -> OrderTracker \cup {None}]
    BY <1>1, <2>2 DEF RecordOrder, RecordReplenishment, TypeOK
  <2>4. audit' \in [OrderKeys -> History]
    <3>1. [audit[key] EXCEPT !.recorded = TRUE] \in History
      BY HistoryUpdates DEF TypeOK
    <3>2. audit' = [audit EXCEPT ![key] = [audit[key] EXCEPT !.recorded = TRUE]]
      BY <1>1 DEF RecordOrder, RecordReplenishment, TypeOK
    <3>3. QED
      BY <3>1, <3>2 DEF TypeOK
  <2>5. QED
    BY <1>1, <2>3, <2>4 DEF RecordOrder, TypeOK, Initialized
<1>2. CASE ~(Open(key) /\ key[2] # ZeroId)
  <2>1. OpenTracker(None, None, None, 0, amount, 0) \in OrderTracker
    BY OpenTrackerType DEF U64
  <2>2. Open(key) => [orders[key] EXCEPT !.amount_out = amount,
                        !.amount_borrowed = 0, !.amount_repaid = 0] \in OrderTracker
    BY OpenIsTracker, TrackerUpdates
  <2>3. orders' \in [OrderKeys -> OrderTracker \cup {None}]
    BY <1>2, <2>1, <2>2 DEF RecordOrder, RecordPayout, TypeOK
  <2>4. audit' \in [OrderKeys -> History]
    <3> DEFINE h == IF Open(key) THEN audit[key] ELSE FreshHistory
    <3>1. h \in History
      BY FreshHistoryType DEF TypeOK
    <3> HIDE DEF h
    <3>2. [h EXCEPT !.recorded = TRUE] \in History
      BY <3>1, HistoryUpdates
    <3>3. audit' = [audit EXCEPT ![key] = [h EXCEPT !.recorded = TRUE]]
      BY <1>2 DEF h, RecordOrder, RecordPayout, TypeOK
    <3>4. QED
      BY <3>2, <3>3 DEF TypeOK
  <2>5. QED
    BY <1>2, <2>3, <2>4 DEF RecordOrder, TypeOK, Initialized
<1>3. QED
  BY <1>1, <1>2

LEMMA CloseOrdersType ==
  ASSUME TypeOK, NEW signer, NEW keys \in SUBSET OrderKeys, CloseOrders(signer, keys)
  PROVE  TypeOK'
BY DEF CloseOrders, TypeOK, Initialized
-----------------------------------------------------------------------------
\* The handlers that touch orders, with the types of their inputs.
OrderStep ==
  \E key \in OrderKeys, amount \in U64, signer \in Keys :
    \/ \E byOrbit \in BOOLEAN, zov \in Zovs, wallet \in Wallets \cup {None},
          mint \in Mints, transient \in BOOLEAN, meta \in U64 \cup {None},
          borrowed \in U64 :
         CreateOrder(signer, byOrbit, key, zov, wallet, mint, transient, amount,
                     meta, borrowed)
    \/ \E zov \in Zovs, wallet \in Wallets, mint \in Mints, transient \in BOOLEAN :
         PullAndCreateOrder(signer, key, zov, wallet, mint, transient, amount)
    \/ \E close \in BOOLEAN : Replenish(signer, key, amount, close)
    \/ RecordOrder(signer, key, amount)

\* Every step is one of these handlers, a call by Orbit, a write-off, or leaves
\* the orders and their history alone.
LEMMA NextSplit ==
  ASSUME [Next]_vars
  PROVE  \/ OrderStep
         \/ \E key \in OrderKeys, amount, repay \in U64, shares \in [Lenders -> U64] :
              ReplenishAndRepay(key, amount, repay, shares)
         \/ \E signer \in Keys, keys \in SUBSET OrderKeys : CloseOrders(signer, keys)
         \/ UNCHANGED <<orders, audit>>
<1>1. CASE UNCHANGED vars
  BY <1>1 DEF vars, orderVars
<1>2. CASE ConfigNext /\ UNCHANGED orderVars
  BY <1>2 DEF orderVars
<1>3. CASE \E signer \in Keys : BeneficiarySteps(signer)
  BY <1>3 DEF BeneficiarySteps, WhitelistBeneficiary, ToggleBeneficiary, RevokeBeneficiary
<1>4. CASE \E signer \in Keys : CreateSteps(signer)
  BY <1>4 DEF CreateSteps, OrderStep
<1>5. CASE \E signer \in Keys : SettleSteps(signer)
  BY <1>5 DEF SettleSteps, OrderStep
<1>6. CASE \E signer \in Keys : CloseSteps(signer)
  BY <1>6 DEF CloseSteps
<1>7. CASE OrbitNext
  BY <1>7 DEF OrbitNext
<1>8. CASE \/ \E roles \in RoleSets, paused \in BOOLEAN : GovernanceStep(roles, paused)
           \/ TransferNext
  BY <1>8 DEF GovernanceStep, TransferNext, OutsideTransfer, orderVars
<1>9. QED
  BY <1>1, <1>2, <1>3, <1>4, <1>5, <1>6, <1>7, <1>8 DEF Next
-----------------------------------------------------------------------------
\* Books: what holds of an order's tracker and its history taken together.
Book(t, h) == Ledger(t) /\ Senior(t, h) /\ Covered(t, h)
Books == \A key \in OrderKeys : Open(key) => Book(orders[key], audit[key])

\* The inductive invariant.  Types alone are not inductive: that a repayment
\* keeps its fields in range and its vault real rests on the ledger.
IInv == TypeOK /\ Books

LEMMA BooksAreInvariants == Books <=> DebtInv /\ LendersSenior /\ LendersPaidByPartner
BY DEF Books, Book, DebtInv, LendersSenior, LendersPaidByPartner

TrackerNats(t) == /\ t.amount_in \in Nat /\ t.amount_out \in Nat
                  /\ t.amount_borrowed \in Nat /\ t.amount_repaid \in Nat
LEMMA TrackerFields == \A t \in OrderTracker : TrackerNats(t)
BY DEF OrderTracker, U64, TrackerNats

HistoryNats(h) == h.arrived \in Nat /\ h.paid \in Nat
LEMMA HistoryFields == \A h \in History : HistoryNats(h)
BY Zenon DEF History, HistoryNats

\* A created order has balanced books.
LEMMA CreatedBook ==
  ASSUME NEW zov \in Zovs, NEW wallet, NEW mint \in Mints, NEW amount \in U64,
         NEW borrowed \in U64, borrowed <= amount
  PROVE  Book(OpenTracker(zov, wallet, mint, 0, amount, borrowed), FreshHistory)
BY ConfigAssumption
DEF OpenTracker, FreshHistory, Book, Ledger, Senior, Covered, U64

LEMMA PulledBook ==
  ASSUME NEW zov \in Zovs, NEW wallet, NEW mint \in Mints, NEW amount \in U64
  PROVE  Book(OpenTracker(zov, wallet, mint, amount, amount, 0),
              [FreshHistory EXCEPT !.arrived = Arrives(mint, amount)])
BY ConfigAssumption, ArrivesBounds
DEF OpenTracker, FreshHistory, Book, Ledger, Senior, Covered, U64

\* So has one that is replenished, ...
LEMMA ReplenishedBook ==
  ASSUME NEW t \in OrderTracker, NEW h \in History, Book(t, h), NEW amount \in Nat
  PROVE  Book([t EXCEPT !.amount_in = @ + amount],
              [h EXCEPT !.arrived = @ + Arrives(t.mint, amount),
                        !.direct = IF amount > 0 THEN TRUE ELSE @])
<1> DEFINE u == [t EXCEPT !.amount_in = @ + amount]
           direct == IF amount > 0 THEN TRUE ELSE h.direct
           g == [h EXCEPT !.arrived = @ + Arrives(t.mint, amount), !.direct = direct]
<1>1. /\ u.amount_in = t.amount_in + amount /\ u.amount_out = t.amount_out
      /\ u.amount_borrowed = t.amount_borrowed /\ u.amount_repaid = t.amount_repaid
      /\ u.mint = t.mint /\ u.zynk_op_vault = t.zynk_op_vault
  BY DEF OrderTracker
<1>2. /\ g.arrived = h.arrived + Arrives(t.mint, amount) /\ g.paid = h.paid
      /\ g.direct = direct /\ g.recorded = h.recorded
  BY Zenon DEF History
<1>3. g = [h EXCEPT !.arrived = @ + Arrives(t.mint, amount),
                    !.direct = IF amount > 0 THEN TRUE ELSE @]
  BY Zenon DEF History
<1>4. TrackerNats(t) /\ HistoryNats(h)
  BY TrackerFields, HistoryFields
<1>5. /\ Arrives(t.mint, amount) \in Nat
      /\ t.mint \notin FeeBearing => Arrives(t.mint, amount) = amount
  BY ArrivesBounds
<1> HIDE DEF u, g
<1>6. Ledger(u)
  BY <1>1, <1>4 DEF Book, Ledger, TrackerNats
<1>7. Senior(u, g)
  <2>1. CASE amount > 0
    BY <1>2, <2>1 DEF Senior
  <2>2. CASE amount = 0
    BY <1>1, <1>2, <1>4, <2>2 DEF Book, Senior, TrackerNats
  <2>3. QED
    BY <2>1, <2>2
<1>8. Covered(u, g)
  BY <1>1, <1>2, <1>4, <1>5 DEF Book, Covered, TrackerNats, HistoryNats
<1>9. QED
  BY <1>3, <1>6, <1>7, <1>8 DEF Book, u

\* ... repaid by Orbit, ...
LEMMA RepaidBook ==
  ASSUME NEW t \in OrderTracker, NEW h \in History, Book(t, h),
         NEW amount \in Nat, NEW repay \in Nat, NEW total \in Nat,
         repay <= amount, repay > 0, repay <= Outstanding(t),
         SharesAccepted(t, repay, total)
  PROVE  Book([t EXCEPT !.amount_repaid = @ + total, !.amount_in = @ + repay],
              [h EXCEPT !.arrived = @ + Arrives(t.mint, amount), !.paid = @ + total])
<1> DEFINE u == [t EXCEPT !.amount_repaid = @ + total, !.amount_in = @ + repay]
           g == [h EXCEPT !.arrived = @ + Arrives(t.mint, amount), !.paid = @ + total]
<1>1. /\ u.amount_in = t.amount_in + repay /\ u.amount_out = t.amount_out
      /\ u.amount_borrowed = t.amount_borrowed
      /\ u.amount_repaid = t.amount_repaid + total
      /\ u.mint = t.mint /\ u.zynk_op_vault = t.zynk_op_vault
  BY DEF OrderTracker
<1>2. /\ g.arrived = h.arrived + Arrives(t.mint, amount) /\ g.paid = h.paid + total
      /\ g.direct = h.direct /\ g.recorded = h.recorded
  BY Zenon DEF History
<1>3. TrackerNats(t) /\ HistoryNats(h)
  BY TrackerFields, HistoryFields
<1>4. /\ Arrives(t.mint, amount) \in Nat
      /\ t.mint \notin FeeBearing => Arrives(t.mint, amount) = amount
  BY ArrivesBounds
<1> HIDE DEF u, g
<1>5. Ledger(u)
  BY <1>1, <1>3 DEF Book, Ledger, TrackerNats, SharesAccepted, LentOutstanding
<1>6. Senior(u, g)
  BY <1>1, <1>2, <1>3
  DEF Book, Ledger, Senior, TrackerNats, SharesAccepted, LentOutstanding, Outstanding
<1>7. Covered(u, g)
  BY <1>1, <1>2, <1>3, <1>4 DEF Book, Covered, TrackerNats, HistoryNats, SharesAccepted
<1>8. QED
  BY <1>5, <1>6, <1>7 DEF Book, u, g

\* ... or booked on by record_order, of which only the ledger survives.
LEMMA RecordedBook ==
  ASSUME NEW t \in OrderTracker, NEW h \in History, Ledger(t), NEW amount \in U64,
         NEW u \in {[t EXCEPT !.amount_in = @ + amount],
                    [t EXCEPT !.amount_out = amount, !.amount_borrowed = 0,
                              !.amount_repaid = 0]}
  PROVE  Book(u, [h EXCEPT !.recorded = TRUE])
<1>1. [h EXCEPT !.recorded = TRUE].recorded = TRUE
  BY Zenon DEF History
<1>2. TrackerNats(t) /\ amount \in Nat
  BY TrackerFields, AccountFacts
<1>3. Ledger(u)
  <2>1. CASE u = [t EXCEPT !.amount_in = @ + amount]
    BY <2>1, <1>2 DEF Ledger, OrderTracker, TrackerNats
  <2>2. CASE u = [t EXCEPT !.amount_out = amount, !.amount_borrowed = 0,
                           !.amount_repaid = 0]
    BY <2>2, <1>2 DEF Ledger, OrderTracker, TrackerNats
  <2>3. QED
    BY <2>1, <2>2
<1>4. QED
  BY <1>1, <1>3 DEF Book, Senior, Covered

LEMMA RecordedPayoutBook ==
  ASSUME NEW amount \in U64
  PROVE  Book(OpenTracker(None, None, None, 0, amount, 0),
              [FreshHistory EXCEPT !.recorded = TRUE])
BY DEF OpenTracker, FreshHistory, Book, Ledger, Senior, Covered, U64
-----------------------------------------------------------------------------
\* Books are kept when one order changes and its own book is right.
LEMMA OneBookChanges ==
  ASSUME TypeOK, Books, NEW key \in OrderKeys, NEW t, NEW h,
         orders' = [orders EXCEPT ![key] = t], audit' = [audit EXCEPT ![key] = h],
         t = None \/ Book(t, h)
  PROVE  Books'
<1> SUFFICES ASSUME NEW other \in OrderKeys, Open(other)'
             PROVE  Book(orders[other], audit[other])'
  BY DEF Books
<1>1. CASE other = key
  <2>1. orders'[other] = t /\ audit'[other] = h
    BY <1>1 DEF TypeOK
  <2>2. t # None
    BY <2>1 DEF Open
  <2>3. QED
    BY <2>1, <2>2 DEF Book, Ledger, Senior, Covered
<1>2. CASE other # key
  <2>1. orders'[other] = orders[other] /\ audit'[other] = audit[other]
    BY <1>2 DEF TypeOK
  <2>2. Book(orders[other], audit[other])
    BY <2>1 DEF Open, Books
  <2>3. QED
    BY <2>1, <2>2 DEF Book, Ledger, Senior, Covered
<1>3. QED
  BY <1>1, <1>2

LEMMA BooksKept ==
  ASSUME TypeOK, Books, UNCHANGED <<orders, audit>>
  PROVE  Books'
BY DEF Books, Book, Open, Ledger, Senior, Covered

LEMMA CreateOrderFromBooks ==
  ASSUME IInv, NEW b, NEW signer, NEW byOrbit \in BOOLEAN, NEW key \in OrderKeys,
         NEW zov \in Zovs, NEW wallet, NEW mint \in Mints,
         NEW transient \in BOOLEAN, NEW amount \in U64, NEW meta \in U64 \cup {None},
         NEW borrowed \in U64,
         CreateOrderFrom(b, signer, byOrbit, key, zov, wallet, mint, transient, amount,
                         meta, borrowed)
  PROVE  Books'
<1> DEFINE effective == EffectiveAmount(amount, meta)
<1>1. CASE transient
  BY <1>1, BooksKept DEF IInv, CreateOrderFrom
<1>2. CASE ~transient
  <2>1. effective \in U64
    BY DEF EffectiveAmount
  <2>2. borrowed <= effective
    BY <2>1 DEF CreateOrderFrom, BorrowedAllowed, U64
  <2>3. Book(OpenTracker(zov, wallet, mint, 0, effective, borrowed), FreshHistory)
    BY <2>1, <2>2, CreatedBook
  <2>4. QED
    BY <1>2, <2>3, OneBookChanges DEF IInv, CreateOrderFrom
<1>3. QED
  BY <1>1, <1>2

LEMMA CreateOrderBooks ==
  ASSUME IInv, NEW signer, NEW byOrbit \in BOOLEAN, NEW key \in OrderKeys,
         NEW zov \in Zovs, NEW wallet \in Wallets \cup {None}, NEW mint \in Mints,
         NEW transient \in BOOLEAN, NEW amount \in U64, NEW meta \in U64 \cup {None},
         NEW borrowed \in U64,
         CreateOrder(signer, byOrbit, key, zov, wallet, mint, transient, amount,
                     meta, borrowed)
  PROVE  Books'
<1>1. CreateOrderFrom(bal, signer, byOrbit, key, zov, wallet, mint, transient, amount,
                      meta, borrowed)
  BY DEF CreateOrder
<1>2. QED
  BY <1>1, CreateOrderFromBooks

LEMMA PullAndCreateOrderBooks ==
  ASSUME IInv, NEW signer, NEW key \in OrderKeys, NEW zov \in Zovs,
         NEW wallet \in Wallets, NEW mint \in Mints, NEW transient \in BOOLEAN,
         NEW amount \in U64,
         PullAndCreateOrder(signer, key, zov, wallet, mint, transient, amount)
  PROVE  Books'
<1>1. CASE transient
  BY <1>1, BooksKept DEF IInv, PullAndCreateOrder
<1>2. CASE ~transient
  BY <1>2, PulledBook, OneBookChanges DEF IInv, PullAndCreateOrder
<1>3. QED
  BY <1>1, <1>2

LEMMA ReplenishBooks ==
  ASSUME IInv, NEW signer, NEW key \in OrderKeys, NEW amount \in U64,
         NEW close \in BOOLEAN, Replenish(signer, key, amount, close)
  PROVE  Books'
<1> DEFINE t == orders[key]
           u == [t EXCEPT !.amount_in = @ + amount]
           h == audit[key]
           g == [h EXCEPT !.arrived = @ + Arrives(t.mint, amount),
                          !.direct = IF amount > 0 THEN TRUE ELSE @]
<1>1. t \in OrderTracker /\ h \in History /\ Book(t, h) /\ amount \in Nat
  BY OpenIsTracker, AccountFacts DEF IInv, Books, TypeOK, Replenish, ReplenishAccounts
<1>2. Book(u, g)
  BY <1>1, ReplenishedBook
<1>3. /\ orders' = [orders EXCEPT ![key] = IF close THEN None ELSE u]
      /\ audit' = [audit EXCEPT ![key] = g]
  BY DEF Replenish, ReplenishAccounts, IInv, TypeOK
<1> HIDE DEF u, g
<1>4. QED
  BY <1>2, <1>3, OneBookChanges DEF IInv

LEMMA ReplenishAndRepayBooks ==
  ASSUME IInv, NEW key \in OrderKeys, NEW amount \in U64, NEW repay \in U64,
         NEW shares \in [Lenders -> U64], ReplenishAndRepay(key, amount, repay, shares)
  PROVE  Books'
<1> DEFINE t == orders[key]
           total == SumFunction(shares)
           u == [t EXCEPT !.amount_repaid = @ + total, !.amount_in = @ + repay]
           h == audit[key]
           g == [h EXCEPT !.arrived = @ + Arrives(t.mint, amount), !.paid = @ + total]
<1>1. /\ t \in OrderTracker /\ h \in History /\ Book(t, h)
      /\ amount \in Nat /\ repay \in Nat /\ total \in Nat
  BY OpenIsTracker, AccountFacts
      DEF IInv, Books, TypeOK, ReplenishAndRepay, Repayable, BalancesRepaid, TrackerRepaid
<1>2. /\ orders' = [orders EXCEPT ![key] = IF u.amount_in = u.amount_out THEN None ELSE u]
      /\ audit' = [audit EXCEPT ![key] = g]
  BY DEF ReplenishAndRepay, Repayable, BalancesRepaid, TrackerRepaid, IInv, TypeOK
<1>3. /\ repay <= amount /\ repay > 0 /\ repay <= Outstanding(t)
      /\ SharesAccepted(t, repay, total)
  BY DEF ReplenishAndRepay, Repayable, BalancesRepaid, TrackerRepaid
<1> HIDE DEF total, t, h
<1>4. Book(u, g)
  BY <1>1, <1>3, RepaidBook
<1> HIDE DEF u, g
<1>5. QED
  BY <1>2, <1>4, OneBookChanges DEF IInv

LEMMA RecordOrderBooks ==
  ASSUME IInv, NEW signer, NEW key \in OrderKeys, NEW amount \in U64,
         RecordOrder(signer, key, amount)
  PROVE  Books'
<1> DEFINE t == orders[key]
           h == audit[key]
<1>1. h \in History /\ (Open(key) => t \in OrderTracker /\ Ledger(t))
  BY OpenIsTracker DEF IInv, Books, Book, TypeOK
<1>2. CASE Open(key) /\ key[2] # ZeroId
  <2> DEFINE u == [t EXCEPT !.amount_in = @ + amount]
             g == [h EXCEPT !.recorded = TRUE]
  <2>1. Book(u, g)
    BY <1>1, <1>2, RecordedBook
  <2>2. /\ orders' = [orders EXCEPT ![key] = IF Replenished(u) THEN None ELSE u]
        /\ audit' = [audit EXCEPT ![key] = g]
    BY <1>2 DEF RecordOrder, RecordReplenishment, IInv, TypeOK
  <2> HIDE DEF u, g
  <2>3. QED
    BY <2>1, <2>2, OneBookChanges DEF IInv
<1>3. CASE Open(key) /\ key[2] = ZeroId
  <2> DEFINE u == [t EXCEPT !.amount_out = amount, !.amount_borrowed = 0,
                            !.amount_repaid = 0]
             g == [h EXCEPT !.recorded = TRUE]
  <2>1. Book(u, g)
    BY <1>1, <1>3, RecordedBook
  <2>2. orders' = [orders EXCEPT ![key] = u] /\ audit' = [audit EXCEPT ![key] = g]
    BY <1>3 DEF RecordOrder, RecordPayout, IInv, TypeOK
  <2> HIDE DEF u, g
  <2>3. QED
    BY <2>1, <2>2, OneBookChanges DEF IInv
<1>4. CASE ~Open(key)
  <2>1. /\ orders' = [orders EXCEPT ![key] = OpenTracker(None, None, None, 0, amount, 0)]
        /\ audit' = [audit EXCEPT ![key] = [FreshHistory EXCEPT !.recorded = TRUE]]
    BY <1>4 DEF RecordOrder, RecordPayout, IInv, TypeOK
  <2>2. QED
    BY <2>1, RecordedPayoutBook, OneBookChanges DEF IInv
<1>5. QED
  BY <1>2, <1>3, <1>4

LEMMA CloseOrdersBooks ==
  ASSUME IInv, NEW signer, NEW keys \in SUBSET OrderKeys, CloseOrders(signer, keys)
  PROVE  Books'
<1> SUFFICES ASSUME NEW key \in OrderKeys, Open(key)'
             PROVE  Book(orders[key], audit[key])'
  BY DEF Books
<1>1. orders'[key] = orders[key] /\ audit'[key] = audit[key]
  BY DEF CloseOrders, Open
<1>2. Book(orders[key], audit[key])
  BY <1>1 DEF Open, IInv, Books
<1>3. QED
  BY <1>1, <1>2 DEF Book, Ledger, Senior, Covered

LEMMA BooksStep ==
  ASSUME IInv, [Next]_vars
  PROVE  Books'
<1>1. CASE OrderStep
  BY <1>1, CreateOrderBooks, PullAndCreateOrderBooks, ReplenishBooks, RecordOrderBooks
  DEF OrderStep
<1>2. CASE \E key \in OrderKeys, amount, repay \in U64, shares \in [Lenders -> U64] :
              ReplenishAndRepay(key, amount, repay, shares)
  BY <1>2, ReplenishAndRepayBooks
<1>3. CASE \E signer \in Keys, keys \in SUBSET OrderKeys : CloseOrders(signer, keys)
  BY <1>3, CloseOrdersBooks
<1>4. CASE UNCHANGED <<orders, audit>>
  BY <1>4, BooksKept DEF IInv
<1>5. QED
  BY <1>1, <1>2, <1>3, <1>4, NextSplit
-----------------------------------------------------------------------------
\* The handlers that leave orders and history alone keep the types too.
LEMMA ConfigType ==
  ASSUME TypeOK, ConfigNext, UNCHANGED orderVars
  PROVE  TypeOK'
<1>1. config' \in Config /\ config'.mints # {}
  <2>1. CASE \E signer \in Keys, roles \in RoleSets, mints, supplied \in SUBSET Mints :
               Initialize(signer, roles.admin, roles.guardian, mints, supplied)
    BY <2>1 DEF Initialize, Config
  <2>2. CASE \E signer \in Keys, mint \in Mints :
               AddTokenMint(signer, mint) \/ RemoveTokenMint(signer, mint)
    <3>1. PICK signer \in Keys, mint \in Mints :
            AddTokenMint(signer, mint) \/ RemoveTokenMint(signer, mint)
      BY <2>2
    <3>2. config \in Config /\ config.mints # {}
      BY <3>1 DEF AddTokenMint, RemoveTokenMint, IsAdminOrGuardian, TypeOK, Initialized
    <3>3. CASE AddTokenMint(signer, mint)
      BY <3>2, <3>3 DEF AddTokenMint, Config
    <3>4. CASE RemoveTokenMint(signer, mint)
      BY <3>2, <3>4 DEF RemoveTokenMint, Config
    <3>5. QED
      BY <3>1, <3>3, <3>4
  <2>3. QED
    BY <2>1, <2>2 DEF ConfigNext
<1>2. QED
  BY <1>1 DEF TypeOK, orderVars, Initialized, Open

LEMMA BeneficiaryType ==
  ASSUME TypeOK, NEW signer \in Keys, BeneficiarySteps(signer)
  PROVE  TypeOK'
<1>1. PICK partner \in Partners, wallet \in Wallets :
        \/ \E allowTransient \in BOOLEAN :
             WhitelistBeneficiary(signer, partner, wallet, allowTransient)
        \/ ToggleBeneficiary(signer, partner, wallet)
        \/ RevokeBeneficiary(signer, partner, wallet)
  BY DEF BeneficiarySteps
<1>2. beneficiaries' \in [Partners \X Wallets -> Beneficiary \cup {None}]
  <2>1. CASE \E allowTransient \in BOOLEAN :
               WhitelistBeneficiary(signer, partner, wallet, allowTransient)
    BY <2>1 DEF WhitelistBeneficiary, Beneficiary, TypeOK
  <2>2. CASE ToggleBeneficiary(signer, partner, wallet)
    <3> DEFINE b == beneficiaries[<<partner, wallet>>]
    <3>1. b \in Beneficiary
      BY <2>2 DEF ToggleBeneficiary, TypeOK
    <3>2. [b EXCEPT !.is_active = ~@] \in Beneficiary
      BY <3>1, Zenon DEF Beneficiary
    <3>3. beneficiaries' = [beneficiaries EXCEPT
            ![<<partner, wallet>>] = [b EXCEPT !.is_active = ~@]]
      BY <2>2 DEF ToggleBeneficiary, TypeOK
    <3>4. QED
      BY <3>2, <3>3 DEF TypeOK
  <2>3. CASE RevokeBeneficiary(signer, partner, wallet)
    BY <2>3 DEF RevokeBeneficiary, TypeOK
  <2>4. QED
    BY <1>1, <2>1, <2>2, <2>3
<1>3. QED
  BY <1>1, <1>2
  DEF WhitelistBeneficiary, ToggleBeneficiary, RevokeBeneficiary, TypeOK, Initialized

LEMMA GovernanceType ==
  ASSUME TypeOK, NEW roles \in RoleSets, NEW paused \in BOOLEAN,
         GovernanceStep(roles, paused)
  PROVE  TypeOK'
<1>1. config' \in Config /\ config'.mints = config.mints
  BY DEF GovernanceStep, TypeOK, Initialized, Config
<1>2. QED
  BY <1>1 DEF GovernanceStep, TypeOK, orderVars, Initialized

LEMMA TransferNextType ==
  ASSUME TypeOK, TransferNext
  PROVE  TypeOK'
<1>1. PICK from \in (Wallets \cup Lenders) \ (Partners \cup Zovs), to \in Accounts,
           mint \in Mints, amount \in U64 : OutsideTransfer(from, to, mint, amount)
  BY DEF TransferNext
<1>2. bal' \in Balances
  BY <1>1, TransferType, AccountFacts DEF OutsideTransfer, TypeOK, Balances
<1>3. QED
  BY <1>1, <1>2 DEF OutsideTransfer, TypeOK, Balances, Initialized

LEMMA TypeStep ==
  ASSUME IInv, [Next]_vars
  PROVE  TypeOK'
<1>1. TypeOK /\ DebtInv
  BY BooksAreInvariants DEF IInv
<1>2. CASE UNCHANGED vars
  BY <1>1, <1>2 DEF vars, orderVars, TypeOK, Initialized
<1>3. CASE \E signer \in Keys : CreateSteps(signer)
  BY <1>1, <1>3, CreateOrderType, PullAndCreateOrderType DEF CreateSteps
<1>4. CASE \E signer \in Keys : SettleSteps(signer)
  BY <1>1, <1>4, ReplenishType, RecordOrderType DEF SettleSteps
<1>5. CASE \E signer \in Keys : CloseSteps(signer)
  BY <1>1, <1>5, CloseOrdersType DEF CloseSteps
<1>6. CASE OrbitNext
  BY <1>1, <1>6, ReplenishAndRepayType DEF OrbitNext
<1>7. QED
  BY <1>1, <1>2, <1>3, <1>4, <1>5, <1>6, ConfigType, BeneficiaryType, GovernanceType,
     TransferNextType DEF Next

\* The books are balanced and every account well-typed in every reachable state.
THEOREM BooksTheorem == Spec => []IInv
<1>1. Init => IInv
  BY FreshHistoryType DEF Init, IInv, TypeOK, Books, Open, Initialized
<1>2. IInv /\ [Next]_vars => IInv'
  BY BooksStep, TypeStep DEF IInv
<1>3. QED
  BY <1>1, <1>2, PTL DEF Spec

\* Whatever the instructions and their order, the accounts keep the types of
\* their structs and no balance goes below zero.
THEOREM TypeTheorem == Spec => []TypeOK
BY BooksTheorem, PTL DEF IInv

\* A tracker is always a ledger, whatever the order of the instructions: lenders get
\* back no more than they lent, and lent no more than went out.  Nothing is said of
\* amount_in, which replenish may push past amount_out.
THEOREM DebtTheorem == Spec => []DebtInv
<1>1. IInv => DebtInv
  BY BooksAreInvariants DEF IInv
<1>2. QED
  BY <1>1, BooksTheorem, PTL

\* On every order that only Orbit repays, no more than its debt is booked as paid, and
\* of what is booked the house's part comes after the lenders'.  Tokens that the ZOV
\* gets beyond what is booked are no part of this.
THEOREM SeniorTheorem == Spec => []LendersSenior
<1>1. IInv => LendersSenior
  BY BooksAreInvariants DEF IInv
<1>2. QED
  BY <1>1, BooksTheorem, PTL

\* The five checked_sub of replenish_and_repay on the tracker's fields.
SubtractionsDefined(t) ==
  Outstanding(t) >= 0 /\ LentOutstanding(t) >= 0 /\ HouseDebtDefined(t)

\* On an order that only Orbit has repaid the next repayment meets no subtraction that
\* is undefined.  (After a replenish without closing it may: amount_in can then exceed
\* amount_out, and Orbit can no longer repay the order.)
THEOREM DefinedTheorem ==
  Spec => [](\A key \in OrderKeys :
               Open(key) /\ ~audit[key].direct /\ ~audit[key].recorded =>
                 SubtractionsDefined(orders[key]))
<1>1. ASSUME NEW t \in OrderTracker, NEW h, Ledger(t), Senior(t, h), ~h.direct, ~h.recorded
      PROVE  SubtractionsDefined(t)
  <2>1. TrackerNats(t)
    BY TrackerFields
  <2>2. QED
    BY <1>1, <2>1
    DEF Ledger, Senior, TrackerNats, SubtractionsDefined, Outstanding, LentOutstanding,
        HouseDebtDefined
<1>2. IInv => \A key \in OrderKeys :
                Open(key) /\ ~audit[key].direct /\ ~audit[key].recorded =>
                  SubtractionsDefined(orders[key])
  BY <1>1, OpenIsTracker DEF IInv, Books, Book
<1>3. QED
  BY <1>2, BooksTheorem, PTL

\* The house never pays an order's lenders more than the partner sent for it.
THEOREM CoverTheorem == Spec => []LendersPaidByPartner
<1>1. IInv => LendersPaidByPartner
  BY BooksAreInvariants DEF IInv
<1>2. QED
  BY <1>1, BooksTheorem, PTL
-----------------------------------------------------------------------------
\* The numbers behind ClosedMeansSettled: balanced books of a replenished order
\* leave nothing owed to the house, nor to the lenders unless replenish came in.
LEMMA ReplenishedIsSettled ==
  ASSUME NEW t \in OrderTracker, NEW h \in History, Book(t, h), Replenished(t),
         ~h.recorded, t.mint \notin FeeBearing
  PROVE  Settled(t, h)
<1>1. TrackerNats(t) /\ HistoryNats(h)
  BY TrackerFields, HistoryFields
<1>2. QED
  BY <1>1 DEF Book, Ledger, Senior, Covered, Replenished, Settled, TrackerNats, HistoryNats

\* The order with `key` leaves the book in this step, and neither record_order
\* nor a transfer fee hides what came in for it.
Leaves(key) == /\ Open(key) /\ ~Open(key)' /\ ~audit'[key].recorded
               /\ orders[key].mint \notin FeeBearing

LEMMA OrderGone ==
  ASSUME IInv, [Next]_vars, NEW key \in OrderKeys, Leaves(key)
  PROVE  /\ orders[key] \in OrderTracker /\ orders[key] # None /\ orders'[key] = None
         /\ audit[key] \in History /\ audit'[key] \in History
         /\ Book(orders[key], audit[key])
<1>1. TypeOK'
  BY TypeStep
<1>2. QED
  BY <1>1, OpenIsTracker DEF IInv, Books, TypeOK, Open, Leaves

\* Creating an order removes none.
LEMMA CreateKeeps ==
  ASSUME IInv, NEW key \in OrderKeys, NEW other \in OrderKeys, NEW tracker,
         tracker # None, orders[key] # None,
         orders' = orders \/ orders' = [orders EXCEPT ![other] = tracker]
  PROVE  orders'[key] # None
BY DEF IInv, TypeOK

LEMMA ReplenishSettles ==
  ASSUME IInv, [Next]_vars, NEW key \in OrderKeys, Leaves(key),
         NEW other \in OrderKeys, NEW signer, NEW amount \in U64,
         NEW close \in BOOLEAN, Replenish(signer, other, amount, close)
  PROVE  Settled(orders[key], audit'[key])
<1> DEFINE t == orders[key]
           h == audit[key]
           u == [t EXCEPT !.amount_in = @ + amount]
           g == [h EXCEPT !.arrived = @ + Arrives(t.mint, amount),
                          !.direct = IF amount > 0 THEN TRUE ELSE @]
<1>1. /\ t \in OrderTracker /\ t # None /\ orders'[key] = None
      /\ h \in History /\ audit'[key] \in History /\ Book(t, h) /\ amount \in Nat
  BY OrderGone, AccountFacts
<1>2. orders \in [OrderKeys -> OrderTracker \cup {None}] /\ audit \in [OrderKeys -> History]
  BY DEF IInv, TypeOK
<1>3. other = key
  <2> SUFFICES ASSUME other # key PROVE FALSE
    OBVIOUS
  <2>1. orders'[key] = orders[key]
    BY <1>2 DEF Replenish, ReplenishAccounts
  <2>2. QED
    BY <1>1, <2>1
<1>4. /\ orders' = [orders EXCEPT ![key] = IF close THEN None ELSE u]
      /\ audit' = [audit EXCEPT ![key] = g]
      /\ u.amount_in <= MaxU64
      /\ close => Replenished(u)
  BY <1>2, <1>3 DEF Replenish, ReplenishAccounts
<1>5. /\ u.amount_out = t.amount_out /\ u.amount_borrowed = t.amount_borrowed
      /\ u.mint = t.mint /\ u.amount_in = t.amount_in + amount
  BY <1>1 DEF OrderTracker
<1>6. u \in OrderTracker
  BY <1>1, <1>4, <1>5, TrackerUpdates
<1>7. Book(u, g)
  BY <1>1, ReplenishedBook
<1> HIDE DEF t, u, g
<1>8. audit'[key] = g /\ close
  BY <1>1, <1>2, <1>4, <1>6, NoneIsNoAccount
<1>9. ~g.recorded /\ u.mint \notin FeeBearing
  BY <1>5, <1>8 DEF Leaves, t
<1>10. Settled(u, g)
  BY <1>1, <1>4, <1>6, <1>7, <1>8, <1>9, ReplenishedIsSettled
<1>11. QED
  BY <1>5, <1>8, <1>10 DEF Settled, t

LEMMA RepaymentSettles ==
  ASSUME IInv, [Next]_vars, NEW key \in OrderKeys, Leaves(key),
         NEW other \in OrderKeys, NEW amount \in U64, NEW repay \in U64,
         NEW shares \in [Lenders -> U64], ReplenishAndRepay(other, amount, repay, shares)
  PROVE  Settled(orders[key], audit'[key])
<1> DEFINE t == orders[key]
           h == audit[key]
           total == SumFunction(shares)
           u == [t EXCEPT !.amount_repaid = @ + total, !.amount_in = @ + repay]
           g == [h EXCEPT !.arrived = @ + Arrives(t.mint, amount), !.paid = @ + total]
<1>1. /\ t \in OrderTracker /\ t # None /\ orders'[key] = None
      /\ h \in History /\ audit'[key] \in History /\ Book(t, h)
      /\ amount \in Nat /\ repay \in Nat
  BY OrderGone, AccountFacts
<1>2. orders \in [OrderKeys -> OrderTracker \cup {None}] /\ audit \in [OrderKeys -> History]
  BY DEF IInv, TypeOK
<1>3. other = key
  <2> SUFFICES ASSUME other # key PROVE FALSE
    OBVIOUS
  <2>1. orders'[key] = orders[key]
    BY <1>2 DEF ReplenishAndRepay, Repayable, BalancesRepaid, TrackerRepaid
  <2>2. QED
    BY <1>1, <2>1
<1>4. /\ total \in Nat /\ repay <= amount /\ repay > 0 /\ repay <= Outstanding(t)
      /\ SharesAccepted(t, repay, total)
      /\ u.amount_repaid <= MaxU64 /\ u.amount_in <= MaxU64
  BY <1>3, AccountFacts DEF ReplenishAndRepay, Repayable, BalancesRepaid, TrackerRepaid
<1>5. /\ orders' = [orders EXCEPT ![key] = IF u.amount_in = u.amount_out THEN None ELSE u]
      /\ audit' = [audit EXCEPT ![key] = g]
  BY <1>2, <1>3 DEF ReplenishAndRepay, Repayable, BalancesRepaid, TrackerRepaid
<1> HIDE DEF total
<1>6. /\ u.amount_out = t.amount_out /\ u.amount_borrowed = t.amount_borrowed
      /\ u.mint = t.mint /\ u.amount_in = t.amount_in + repay
      /\ u.amount_repaid = t.amount_repaid + total
  BY <1>1 DEF OrderTracker
<1>7. u \in OrderTracker
  BY <1>1, <1>4, <1>6, TrackerUpdates
<1> HIDE DEF t, h
<1>8. Book(u, g)
  BY <1>1, <1>4, RepaidBook
<1> HIDE DEF u, g
<1>9. audit'[key] = g /\ u.amount_in = u.amount_out
  BY <1>1, <1>2, <1>5, <1>7, NoneIsNoAccount
<1>10. Replenished(u)
  BY <1>7, <1>9, TrackerFields DEF Replenished, TrackerNats
<1>11. ~g.recorded /\ u.mint \notin FeeBearing
  BY <1>6, <1>9 DEF Leaves, t
<1>12. Settled(u, g)
  BY <1>1, <1>7, <1>8, <1>9, <1>10, <1>11, ReplenishedIsSettled
<1>13. QED
  BY <1>6, <1>9, <1>12 DEF Settled, t

LEMMA RecordKeeps ==
  ASSUME IInv, [Next]_vars, NEW key \in OrderKeys, Leaves(key),
         NEW other \in OrderKeys, NEW signer, NEW amount \in U64,
         RecordOrder(signer, other, amount)
  PROVE  FALSE
<1>1. /\ orders[key] # None /\ orders'[key] = None /\ audit[key] \in History
      /\ ~audit'[key].recorded
  BY OrderGone DEF Leaves
<1>2. orders \in [OrderKeys -> OrderTracker \cup {None}] /\ audit \in [OrderKeys -> History]
  BY DEF IInv, TypeOK
<1>3. PICK t, h : orders' = [orders EXCEPT ![other] = t]
                  /\ audit' = [audit EXCEPT ![other] = [h EXCEPT !.recorded = TRUE]]
                  /\ h \in History
  <2>1. CASE Open(other) /\ other[2] # ZeroId
    <3>1. audit' = [audit EXCEPT ![other] = [audit[other] EXCEPT !.recorded = TRUE]]
      BY <1>2, <2>1 DEF RecordOrder, RecordReplenishment
    <3>2. QED
      BY <1>2, <2>1, <3>1 DEF RecordOrder, RecordReplenishment
  <2>2. CASE ~(Open(other) /\ other[2] # ZeroId)
    <3> DEFINE h == IF Open(other) THEN audit[other] ELSE FreshHistory
    <3>1. h \in History
      BY <1>2, FreshHistoryType
    <3>2. audit' = [audit EXCEPT ![other] = [h EXCEPT !.recorded = TRUE]]
      BY <1>2, <2>2 DEF RecordOrder, RecordPayout
    <3> HIDE DEF h
    <3>3. QED
      BY <2>2, <3>1, <3>2 DEF RecordOrder, RecordPayout
  <2>3. QED
    BY <2>1, <2>2
<1>4. other = key
  BY <1>1, <1>2, <1>3
<1>5. audit'[key] = [h EXCEPT !.recorded = TRUE]
  BY <1>2, <1>3, <1>4
<1>6. [h EXCEPT !.recorded = TRUE].recorded = TRUE
  BY <1>3, Zenon DEF History
<1>7. QED
  BY <1>1, <1>5, <1>6

\* Orders leave the book settled, written off or as recorded ones.
THEOREM SettledTheorem == Spec => ClosedMeansSettled
<1>1. ASSUME IInv, [Next]_vars, NEW key \in OrderKeys, Leaves(key)
      PROVE  Settled(orders[key], audit'[key]) \/ WrittenOff(key)
  <2>1. orders[key] # None /\ orders'[key] = None
    BY <1>1, OrderGone
  <2>2. ASSUME OrderStep PROVE Settled(orders[key], audit'[key])
    <3>1. PICK other \in OrderKeys, amount \in U64, signer \in Keys :
            \/ \E byOrbit \in BOOLEAN, zov \in Zovs, wallet \in Wallets \cup {None},
                  mint \in Mints, transient \in BOOLEAN, meta \in U64 \cup {None},
                  borrowed \in U64 :
                 CreateOrder(signer, byOrbit, other, zov, wallet, mint, transient,
                             amount, meta, borrowed)
            \/ \E zov \in Zovs, wallet \in Wallets, mint \in Mints, transient \in BOOLEAN :
                 PullAndCreateOrder(signer, other, zov, wallet, mint, transient, amount)
            \/ \E close \in BOOLEAN : Replenish(signer, other, amount, close)
            \/ RecordOrder(signer, other, amount)
      BY <2>2 DEF OrderStep
    <3>2. ASSUME NEW zov \in Zovs, NEW wallet \in Wallets \cup {None}, NEW mint \in Mints,
                 NEW transient \in BOOLEAN, NEW byOrbit \in BOOLEAN,
                 NEW meta \in U64 \cup {None}, NEW borrowed \in U64,
                 CreateOrder(signer, byOrbit, other, zov, wallet, mint, transient,
                             amount, meta, borrowed)
          PROVE FALSE
      <4> DEFINE opened == OpenTracker(zov, wallet, mint, 0,
                                       EffectiveAmount(amount, meta), borrowed)
      <4>1. EffectiveAmount(amount, meta) \in U64 /\ 0 \in U64
        BY DEF EffectiveAmount, U64
      <4>2. opened # None
        BY <4>1, OpenTrackerType, NoneIsNoAccount
      <4>3. orders' = orders \/ orders' = [orders EXCEPT ![other] = opened]
        BY <3>2 DEF CreateOrder, CreateOrderFrom
      <4> HIDE DEF opened
      <4>4. QED
        BY <1>1, <2>1, <4>2, <4>3, CreateKeeps
    <3>3. ASSUME NEW zov \in Zovs, NEW wallet \in Wallets, NEW mint \in Mints,
                 NEW transient \in BOOLEAN,
                 PullAndCreateOrder(signer, other, zov, wallet, mint, transient, amount)
          PROVE FALSE
      <4> DEFINE opened == OpenTracker(zov, wallet, mint, amount, amount, 0)
      <4>1. opened # None
        BY OpenTrackerType, NoneIsNoAccount DEF U64
      <4>2. orders' = orders \/ orders' = [orders EXCEPT ![other] = opened]
        BY <3>3 DEF PullAndCreateOrder
      <4> HIDE DEF opened
      <4>3. QED
        BY <1>1, <2>1, <4>1, <4>2, CreateKeeps
    <3>4. QED
      BY <1>1, <3>1, <3>2, <3>3, ReplenishSettles, RecordKeeps
  <2>3. ASSUME NEW signer \in Keys, NEW keys \in SUBSET OrderKeys, CloseOrders(signer, keys)
        PROVE  WrittenOff(key)
    <3>1. key \in keys
      BY <2>1, <2>3 DEF CloseOrders
    <3>2. signer \in {config.admin, config.guardian}
      BY <2>3 DEF CloseOrders, IsAdminOrGuardian
    <3>3. QED
      BY <2>3, <3>1, <3>2, Zenon DEF WrittenOff
  <2>4. CASE UNCHANGED <<orders, audit>>
    BY <2>1, <2>4
  <2>5. QED
    BY <1>1, <2>2, <2>3, <2>4, NextSplit, RepaymentSettles
<1>2. IInv /\ [Next]_vars =>
        \A key \in OrderKeys :
          Open(key) /\ ~Open(key)' /\ ~audit'[key].recorded
            /\ orders[key].mint \notin FeeBearing =>
              Settled(orders[key], audit'[key]) \/ WrittenOff(key)
  BY <1>1 DEF Leaves
<1>3. QED
  BY <1>2, BooksTheorem, PTL DEF Spec, ClosedMeansSettled
-----------------------------------------------------------------------------
\* Adding to what came in or was repaid keeps the terms.
LEMMA TermsKeptBy ==
  ASSUME NEW t \in OrderTracker, NEW n \in Nat, NEW m \in Nat
  PROVE  /\ TermsKept(t, t)
         /\ TermsKept(t, [t EXCEPT !.amount_in = @ + n])
         /\ TermsKept(t, [t EXCEPT !.amount_repaid = @ + m, !.amount_in = @ + n])
<1>1. TrackerNats(t)
  BY TrackerFields
<1>2. TermsKept(t, t)
  BY <1>1 DEF TermsKept, TrackerNats
<1>3. TermsKept(t, [t EXCEPT !.amount_in = @ + n])
  BY <1>1 DEF TermsKept, TrackerNats, OrderTracker
<1>4. TermsKept(t, [t EXCEPT !.amount_repaid = @ + m, !.amount_in = @ + n])
  BY <1>1 DEF TermsKept, TrackerNats, OrderTracker
<1>5. QED
  BY <1>2, <1>3, <1>4

\* A handler of one order leaves the other orders alone.
LEMMA OthersUntouched ==
  ASSUME IInv, NEW key \in OrderKeys, NEW other \in OrderKeys, NEW signer, NEW amount,
         \/ \E byOrbit, zov, wallet, mint, transient, meta, borrowed :
              CreateOrder(signer, byOrbit, other, zov, wallet, mint, transient, amount,
                          meta, borrowed)
         \/ \E zov, wallet, mint, transient :
              PullAndCreateOrder(signer, other, zov, wallet, mint, transient, amount)
         \/ \E close : Replenish(signer, other, amount, close)
         \/ RecordOrder(signer, other, amount),
         orders'[key] # orders[key]
  PROVE  other = key
<1>1. orders \in [OrderKeys -> OrderTracker \cup {None}]
  BY DEF IInv, TypeOK
<1>2. \E t : orders' \in {orders, [orders EXCEPT ![other] = t]}
  <2>1. ASSUME NEW byOrbit, NEW zov, NEW wallet, NEW mint, NEW transient, NEW meta,
               NEW borrowed,
               CreateOrder(signer, byOrbit, other, zov, wallet, mint, transient, amount,
                           meta, borrowed)
        PROVE  \E t : orders' \in {orders, [orders EXCEPT ![other] = t]}
    BY <2>1, Zenon DEF CreateOrder, CreateOrderFrom
  <2>2. ASSUME NEW zov, NEW wallet, NEW mint, NEW transient,
               PullAndCreateOrder(signer, other, zov, wallet, mint, transient, amount)
        PROVE  \E t : orders' \in {orders, [orders EXCEPT ![other] = t]}
    BY <2>2, Zenon DEF PullAndCreateOrder
  <2>3. ASSUME NEW close, Replenish(signer, other, amount, close)
        PROVE  \E t : orders' \in {orders, [orders EXCEPT ![other] = t]}
    BY <2>3, Zenon DEF Replenish, ReplenishAccounts
  <2>4. ASSUME RecordOrder(signer, other, amount)
        PROVE  \E t : orders' \in {orders, [orders EXCEPT ![other] = t]}
    BY <1>1, <2>4 DEF RecordOrder, RecordPayout, RecordReplenishment
  <2>5. QED
    BY <2>1, <2>2, <2>3, <2>4, Zenon
<1>3. QED
  BY <1>1, <1>2

\* Nobody rewrites the terms of an open order (but the one with the zero id).
THEOREM TermsTheorem == Spec => TermsFixed
<1>1. ASSUME IInv, [Next]_vars, NEW key \in OrderKeys, Open(key), Open(key)',
             key[2] # ZeroId
      PROVE  TermsKept(orders[key], orders'[key])
  <2> DEFINE t == orders[key]
  <2>1. t \in OrderTracker /\ t # None /\ orders'[key] # None
    BY <1>1, OpenIsTracker DEF IInv, Open
  <2>2. orders \in [OrderKeys -> OrderTracker \cup {None}]
    BY <1>1 DEF IInv, TypeOK
  <2>3. SUFFICES ASSUME orders'[key] # orders[key]
                 PROVE  TermsKept(t, orders'[key])
    BY <2>1, TermsKeptBy
  <2>4. ASSUME OrderStep
        PROVE  TermsKept(t, orders'[key])
    <3>1. PICK other \in OrderKeys, amount \in U64, signer \in Keys :
            \/ \E byOrbit \in BOOLEAN, zov \in Zovs, wallet \in Wallets \cup {None},
                  mint \in Mints, transient \in BOOLEAN, meta \in U64 \cup {None},
                  borrowed \in U64 :
                 CreateOrder(signer, byOrbit, other, zov, wallet, mint, transient,
                             amount, meta, borrowed)
            \/ \E zov \in Zovs, wallet \in Wallets, mint \in Mints, transient \in BOOLEAN :
                 PullAndCreateOrder(signer, other, zov, wallet, mint, transient, amount)
            \/ \E close \in BOOLEAN : Replenish(signer, other, amount, close)
            \/ RecordOrder(signer, other, amount)
      BY <2>4 DEF OrderStep
    <3>2. other = key
      BY <2>3, <3>1, OthersUntouched, <1>1
    <3>3. \/ \E close \in BOOLEAN : Replenish(signer, other, amount, close)
          \/ RecordOrder(signer, other, amount)
      BY <1>1, <3>1, <3>2 DEF CreateOrder, CreateOrderFrom, PullAndCreateOrder
    <3>4. amount \in Nat
      BY AccountFacts
    <3>5. orders'[key] = [t EXCEPT !.amount_in = @ + amount]
      <4>1. CASE \E close \in BOOLEAN : Replenish(signer, other, amount, close)
        BY <2>1, <2>2, <3>2, <4>1 DEF Replenish, ReplenishAccounts
      <4>2. CASE RecordOrder(signer, other, amount)
        <5>1. RecordReplenishment(key, amount)
          BY <1>1, <3>2, <4>2 DEF RecordOrder
        <5>2. QED
          BY <2>1, <2>2, <5>1 DEF RecordReplenishment
      <4>3. QED
        BY <3>3, <4>1, <4>2
    <3>6. QED
      BY <2>1, <3>4, <3>5, TermsKeptBy
  <2>5. ASSUME NEW other \in OrderKeys, NEW amount \in U64, NEW repay \in U64,
               NEW shares \in [Lenders -> U64],
               ReplenishAndRepay(other, amount, repay, shares)
        PROVE  TermsKept(t, orders'[key])
    <3> DEFINE total == SumFunction(shares)
               u == [t EXCEPT !.amount_repaid = @ + total, !.amount_in = @ + repay]
    <3>1. total \in Nat /\ repay \in Nat
      BY <2>5, AccountFacts DEF ReplenishAndRepay, Repayable, BalancesRepaid, TrackerRepaid
    <3>2. other = key
      BY <2>2, <2>3, <2>5 DEF ReplenishAndRepay, Repayable, BalancesRepaid, TrackerRepaid
    <3>3. orders' = [orders EXCEPT ![key] = IF u.amount_in = u.amount_out THEN None ELSE u]
      BY <2>5, <3>2 DEF ReplenishAndRepay, Repayable, BalancesRepaid, TrackerRepaid
    <3> HIDE DEF u
    <3>4. orders'[key] = u
      BY <2>1, <2>2, <3>3
    <3> HIDE DEF total
    <3>5. TermsKept(t, u)
      BY <2>1, <3>1, TermsKeptBy DEF u
    <3>6. QED
      BY <3>4, <3>5
  <2>6. CASE \E signer \in Keys, keys \in SUBSET OrderKeys : CloseOrders(signer, keys)
    BY <2>1, <2>3, <2>6 DEF CloseOrders
  <2>7. CASE UNCHANGED <<orders, audit>>
    BY <2>3, <2>7
  <2>8. QED
    BY <1>1, <2>4, <2>5, <2>6, <2>7, NextSplit
<1>2. IInv /\ [Next]_vars =>
        \A key \in OrderKeys : Open(key) /\ Open(key)' /\ key[2] # ZeroId =>
          TermsKept(orders[key], orders'[key])
  BY <1>1
<1>3. QED
  BY <1>2, BooksTheorem, PTL DEF Spec, TermsFixed

\* A pause freezes the book of orders and the vaults.
THEOREM FrozenTheorem == Spec => FrozenWhilePaused
<1>1. ASSUME TypeOK, [Next]_vars, Initialized, config.paused
      PROVE  /\ orders' = orders
             /\ \A vault \in Partners \cup Zovs, mint \in Mints :
                  bal'[vault][mint] >= bal[vault][mint]
  <2>1. ~Running
    BY <1>1 DEF Running
  <2>2. bal \in Balances /\ Partners \cup Zovs \subseteq Accounts
    BY <1>1, AccountFacts DEF TypeOK, Balances
  <2>3. CASE UNCHANGED <<orders, bal>>
    BY <2>2, <2>3 DEF Balances
  <2>4. ASSUME NEW from \in (Wallets \cup Lenders) \ (Partners \cup Zovs),
               NEW to \in Accounts, NEW token \in Mints, NEW amount \in U64,
               OutsideTransfer(from, to, token, amount)
        PROVE  /\ orders' = orders
               /\ \A vault \in Partners \cup Zovs, mint \in Mints :
                    bal'[vault][mint] >= bal[vault][mint]
    <3> DEFINE debited == [bal EXCEPT ![from][token] = @ - amount]
    <3>1. from \in Accounts /\ amount \in Nat
      BY AccountFacts
    <3>2. Arrives(token, amount) \in Nat
      BY <3>1, ArrivesBounds
    <3>3. bal' = [debited EXCEPT ![to][token] = @ + Arrives(token, amount)]
      BY <2>4 DEF OutsideTransfer, Transfer
    <3>4. ASSUME NEW vault \in Partners \cup Zovs, NEW mint \in Mints
          PROVE  bal'[vault][mint] >= bal[vault][mint]
      <4>1. debited[vault] = bal[vault] /\ bal[vault] \in [Mints -> Nat]
        BY <2>2, <3>4 DEF Balances
      <4>2. debited \in [Accounts -> [Mints -> Int]]
        BY <2>2, <3>1 DEF Balances
      <4> HIDE DEF debited
      <4>3. CASE to = vault /\ token = mint
        BY <2>2, <3>2, <3>3, <4>1, <4>2, <4>3
      <4>4. CASE ~(to = vault /\ token = mint)
        BY <2>2, <3>2, <3>3, <4>1, <4>2, <4>4
      <4>5. QED
        BY <4>3, <4>4
    <3>5. QED
      BY <2>4, <3>4 DEF OutsideTransfer
  <2>5. CASE \E signer \in Keys : CreateSteps(signer)
    <3>1. ASSUME NEW signer, NEW byOrbit, NEW key, NEW zov, NEW wallet, NEW mint,
                 NEW transient, NEW amount, NEW meta, NEW borrowed,
                 \/ CreateOrder(signer, byOrbit, key, zov, wallet, mint, transient,
                                amount, meta, borrowed)
                 \/ PullAndCreateOrder(signer, key, zov, wallet, mint, transient, amount)
          PROVE  Running
      BY <3>1, Zenon DEF CreateOrder, CreateOrderFrom, PullAndCreateOrder
    <3>2. PICK signer \in Keys : CreateSteps(signer)
      BY <2>5
    <3>3. PICK key \in OrderKeys, zov \in Zovs, mint \in Mints, transient \in BOOLEAN,
               amount \in U64 :
            \/ \E byOrbit \in BOOLEAN, wallet \in Wallets \cup {None},
                  meta \in U64 \cup {None}, borrowed \in U64 :
                 CreateOrder(signer, byOrbit, key, zov, wallet, mint, transient,
                             amount, meta, borrowed)
            \/ \E wallet \in Wallets :
                 PullAndCreateOrder(signer, key, zov, wallet, mint, transient, amount)
      BY <3>2, Zenon DEF CreateSteps
    <3>4. Running
      BY <3>1, <3>3, Zenon
    <3>5. QED
      BY <2>1, <3>4
  <2>6. CASE OrbitNext \/ \E signer \in Keys : SettleSteps(signer)
    <3>1. ASSUME NEW signer, NEW key, NEW amount, NEW repay, NEW shares, NEW close,
                 \/ Replenish(signer, key, amount, close)
                 \/ ReplenishAndRepay(key, amount, repay, shares)
                 \/ RecordOrder(signer, key, amount)
          PROVE  Running
      BY <3>1, Zenon
      DEF Replenish, ReplenishAccounts, ReplenishAndRepay, Repayable, BalancesRepaid, TrackerRepaid, RecordOrder
    <3>2. QED
      BY <2>1, <2>6, <3>1, Zenon DEF OrbitNext, SettleSteps
  <2>7. CASE \E signer \in Keys : CloseSteps(signer)
    BY <2>1, <2>7 DEF CloseSteps, CloseOrders
  <2>8. CASE \E roles \in RoleSets, paused \in BOOLEAN : GovernanceStep(roles, paused)
    BY <2>3, <2>8 DEF GovernanceStep, orderVars
  <2>9. CASE TransferNext
    BY <2>4, <2>9 DEF TransferNext
  <2>10. CASE ConfigNext /\ UNCHANGED orderVars
    BY <2>3, <2>10 DEF orderVars
  <2>11. CASE \E signer \in Keys : BeneficiarySteps(signer)
    BY <2>3, <2>11
    DEF BeneficiarySteps, WhitelistBeneficiary, ToggleBeneficiary, RevokeBeneficiary
  <2>12. QED
    BY <1>1, <2>3, <2>5, <2>6, <2>7, <2>8, <2>9, <2>10, <2>11 DEF Next, vars, orderVars
<1>2. TypeOK /\ [Next]_vars =>
        (Initialized /\ config.paused =>
           /\ orders' = orders
           /\ \A vault \in Partners \cup Zovs, mint \in Mints :
                bal'[vault][mint] >= bal[vault][mint])
  BY <1>1
<1>3. QED
  BY <1>2, TypeTheorem, PTL DEF Spec, FrozenWhilePaused
-----------------------------------------------------------------------------
(***************************************************************************)
(* Who gets the vaults' money.  It rests on this too: shares which add up  *)
(* to nothing pay nobody.                                                  *)
(***************************************************************************)

\* The only balance that a transfer raises is its destination's, and then the source
\* is somebody else and loses.
LEMMA TransferPaysOne ==
  ASSUME NEW b \in Balances, NEW from \in Accounts, NEW to \in Accounts,
         NEW token \in Mints, NEW amount \in Nat, amount <= b[from][token],
         NEW owner \in Accounts, NEW mint \in Mints,
         Transfer(b, from, to, token, amount)[owner][mint] > b[owner][mint]
  PROVE  /\ owner = to /\ mint = token /\ from # to
         /\ Transfer(b, from, to, token, amount)[from][token] < b[from][token]
<1> DEFINE debited == [b EXCEPT ![from][token] = @ - amount]
           after == Transfer(b, from, to, token, amount)
<1>1. /\ debited \in Balances
      /\ debited[owner][mint] <= b[owner][mint]
      /\ debited[from][token] = b[from][token] - amount
  BY DEF Balances
<1>2. Arrives(token, amount) \in Nat /\ Arrives(token, amount) <= amount
  BY ArrivesBounds
<1>3. after = [debited EXCEPT ![to][token] = @ + Arrives(token, amount)]
  BY DEF Transfer
<1> HIDE DEF debited
<1>4. after[to][token] = debited[to][token] + Arrives(token, amount)
  BY <1>1, <1>3 DEF Balances
<1>5. ASSUME NEW o \in Accounts, NEW m \in Mints, ~(o = to /\ m = token)
      PROVE  after[o][m] = debited[o][m]
  BY <1>1, <1>3, <1>5 DEF Balances
<1> HIDE DEF after
<1>6. /\ b[owner][mint] \in Nat /\ b[from][token] \in Nat
      /\ debited[owner][mint] \in Nat /\ debited[from][token] \in Nat
  BY <1>1 DEF Balances
<1>7. after[owner][mint] > b[owner][mint]
  BY DEF after
<1>8. owner = to /\ mint = token
  BY <1>1, <1>5, <1>6, <1>7
<1>9. from # to
  BY <1>1, <1>2, <1>4, <1>6, <1>7, <1>8
<1>10. after[from][token] = b[from][token] - amount
  BY <1>1, <1>5, <1>9
<1>11. amount # 0
  BY <1>1, <1>2, <1>4, <1>6, <1>7, <1>8
<1>12. QED
  BY <1>6, <1>8, <1>9, <1>10, <1>11 DEF after

\* An outsider owns a token account and no vault.
LEMMA OutsiderFacts ==
  ASSUME NEW owner \in Outsiders
  PROVE  owner \in Accounts /\ owner \notin Partners \cup Zovs
BY DEF Outsiders, Accounts

\* What the property promises of a payment.
Entitled(owner, mint) ==
  /\ Running
  /\ MintAllowed(mint)
  /\ \/ \E partner \in Partners :
           /\ owner \in Wallets
           /\ beneficiaries[<<partner, owner>>] # None
           /\ beneficiaries[<<partner, owner>>].is_active
     \/ \E key \in OrderKeys : /\ owner \in Lenders
                               /\ Open(key)
                               /\ orders[key].mint = mint
                               /\ audit'[key].paid > audit[key].paid

\* create_order pays a beneficiary that is active at that moment, or nobody.
LEMMA CreationPays ==
  ASSUME TypeOK, NEW owner \in Outsiders, NEW mint \in Mints,
         bal'[owner][mint] > bal[owner][mint],
         NEW signer \in Keys, NEW byOrbit, NEW key \in OrderKeys, NEW zov \in Zovs,
         NEW wallet \in Wallets \cup {None}, NEW token \in Mints, NEW transient,
         NEW amount \in U64, NEW meta, NEW borrowed,
         CreateOrder(signer, byOrbit, key, zov, wallet, token, transient, amount,
                     meta, borrowed)
  PROVE  Entitled(owner, mint)
<1>1. /\ Running /\ MintAllowed(token) /\ amount <= bal[zov][token]
      /\ wallet # None => Eligible(key[1], wallet, zov)
      /\ bal' = IF wallet = None THEN bal ELSE Transfer(bal, zov, wallet, token, amount)
  BY Zenon DEF CreateOrder, CreateOrderFrom
<1>2. bal \in Balances /\ owner \in Accounts /\ zov \in Accounts
      /\ amount \in Nat /\ key[1] \in Partners
  BY AccountFacts, OutsiderFacts DEF TypeOK, Balances
<1>3. wallet # None
  <2>1. bal[owner][mint] \in Nat
    BY <1>2 DEF Balances
  <2>2. QED
    BY <1>1, <2>1
<1>4. wallet \in Accounts /\ wallet \in Wallets
  BY <1>3, AccountFacts
<1>5. Transfer(bal, zov, wallet, token, amount)[owner][mint] > bal[owner][mint]
  BY <1>1, <1>3
<1>6. owner = wallet /\ mint = token
  BY <1>1, <1>2, <1>4, <1>5, TransferPaysOne
<1>7. QED
  BY <1>1, <1>2, <1>3, <1>4, <1>6 DEF Entitled, Eligible

\* So does pull_and_create_order, whose first transfer pays a vault.
LEMMA PullPays ==
  ASSUME TypeOK, NEW owner \in Outsiders, NEW mint \in Mints,
         bal'[owner][mint] > bal[owner][mint],
         NEW signer \in Keys, NEW key \in OrderKeys, NEW zov \in Zovs,
         NEW wallet \in Wallets, NEW token \in Mints, NEW transient, NEW amount \in U64,
         PullAndCreateOrder(signer, key, zov, wallet, token, transient, amount)
  PROVE  Entitled(owner, mint)
<1> DEFINE pulled == Transfer(bal, key[1], zov, token, amount)
<1>1. /\ Running /\ MintAllowed(token) /\ Eligible(key[1], wallet, zov)
      /\ amount <= bal[key[1]][token] /\ amount <= pulled[zov][token]
      /\ bal' = Transfer(pulled, zov, wallet, token, amount)
  BY Zenon DEF PullAndCreateOrder
<1>2. /\ bal \in Balances /\ owner \in Accounts /\ zov \in Accounts
      /\ wallet \in Accounts /\ amount \in Nat
      /\ key[1] \in Partners /\ key[1] \in Accounts /\ owner # zov
  BY AccountFacts, OutsiderFacts DEF TypeOK, Balances
<1>3. pulled \in Balances
  BY <1>1, <1>2, TransferType
<1>4. pulled[owner][mint] \in Nat /\ bal[owner][mint] \in Nat
  BY <1>2, <1>3 DEF Balances
<1>5. ~(pulled[owner][mint] > bal[owner][mint])
  BY <1>1, <1>2, TransferPaysOne
<1> HIDE DEF pulled
<1>6. bal' \in Balances
  BY <1>1, <1>2, <1>3, TransferType
<1>7. bal'[owner][mint] \in Nat
  BY <1>2, <1>6 DEF Balances
<1>8. Transfer(pulled, zov, wallet, token, amount)[owner][mint] > pulled[owner][mint]
  BY <1>1, <1>4, <1>5, <1>7
<1>9. owner = wallet /\ mint = token
  BY <1>1, <1>2, <1>3, <1>8, TransferPaysOne
<1>10. QED
  BY <1>1, <1>2, <1>9 DEF Entitled, Eligible

\* The vault of an order in a whitelisted mint is a ZOV: orders recorded for
\* another chain have neither.
LEMMA VaultOfOrder ==
  ASSUME IInv, NEW key \in OrderKeys, Open(key), Running, MintAllowed(orders[key].mint)
  PROVE  orders[key].zynk_op_vault \in Zovs /\ orders[key].mint \in Mints
<1>1. orders[key] \in OrderTracker /\ orders[key].mint \in Mints /\ orders[key].mint # None
  BY OpenIsTracker, AllowedIsMint DEF IInv, Running
<1>2. orders[key].mint = None <=> orders[key].zynk_op_vault = None
  BY DEF IInv, Books, Book, Ledger
<1>3. QED
  BY <1>1, <1>2 DEF OrderTracker

\* replenish pays a vault and so no outsider.
LEMMA ReplenishmentPays ==
  ASSUME IInv, NEW owner \in Outsiders, NEW mint \in Mints,
         NEW signer \in Keys, NEW key \in OrderKeys, NEW amount \in U64, NEW close,
         Replenish(signer, key, amount, close)
  PROVE  ~(bal'[owner][mint] > bal[owner][mint])
<1> DEFINE zov == orders[key].zynk_op_vault
           token == orders[key].mint
<1>1. /\ Open(key) /\ Running /\ MintAllowed(token) /\ amount <= bal[key[1]][token]
      /\ bal' = Transfer(bal, key[1], zov, token, amount)
  BY Zenon DEF Replenish, ReplenishAccounts
<1>2. zov \in Zovs /\ token \in Mints
  BY <1>1, VaultOfOrder
<1>3. /\ bal \in Balances /\ owner \in Accounts /\ owner \notin Zovs
      /\ amount \in Nat /\ key[1] \in Accounts
  BY AccountFacts, OutsiderFacts DEF IInv, TypeOK, Balances
<1> HIDE DEF zov, token
<1>4. zov \in Accounts /\ owner # zov
  BY <1>2, <1>3, AccountFacts
<1>5. QED
  BY <1>1, <1>2, <1>3, <1>4, TransferPaysOne

\* replenish_and_repay pays lenders of the order, and then books what it has paid.
LEMMA RepaymentPays ==
  ASSUME IInv, NEW owner \in Outsiders, NEW mint \in Mints,
         bal'[owner][mint] > bal[owner][mint],
         NEW key \in OrderKeys, NEW amount \in U64, NEW repay \in U64,
         NEW shares \in [Lenders -> U64],
         ReplenishAndRepay(key, amount, repay, shares)
  PROVE  Entitled(owner, mint)
<1> DEFINE t == orders[key]
           zov == t.zynk_op_vault
           token == t.mint
           total == SumFunction(shares)
           paid == Transfer(bal, key[1], zov, token, amount)
<1>1. /\ Open(key) /\ Running /\ MintAllowed(token)
      /\ amount <= bal[key[1]][token]
      /\ bal' = PayShares(paid, zov, token, shares, total)
      /\ audit' = [audit EXCEPT ![key].arrived = @ + Arrives(token, amount),
                                ![key].paid = @ + total]
  BY Zenon DEF ReplenishAndRepay, Repayable, BalancesRepaid
<1>2. zov \in Zovs /\ token \in Mints
  BY <1>1, VaultOfOrder
<1>3. /\ bal \in Balances /\ owner \in Accounts /\ owner \notin Zovs
      /\ amount \in Nat /\ key[1] \in Accounts
      /\ audit \in [OrderKeys -> History]
  BY AccountFacts, OutsiderFacts DEF IInv, TypeOK, Balances
<1>4. shares \in [Lenders -> Nat]
  BY AccountFacts
<1>5. total \in Nat /\ \A l \in Lenders : shares[l] <= total
  BY <1>4, LendersAreFinite, SumBounds
<1> HIDE DEF zov, token, total
<1>6. zov \in Accounts /\ owner # zov
  BY <1>2, <1>3, AccountFacts
<1>7. paid \in Balances /\ ~(paid[owner][mint] > bal[owner][mint])
  BY <1>1, <1>2, <1>3, <1>6, TransferType, TransferPaysOne
<1> HIDE DEF paid
<1>8. paid[owner] \in [Mints -> Nat] /\ paid[owner][mint] \in Nat /\ bal[owner][mint] \in Nat
  BY <1>3, <1>7 DEF Balances
<1> DEFINE got == IF owner \in Lenders THEN Arrives(token, shares[owner]) ELSE 0
<1>9. bal'[owner] = [paid[owner] EXCEPT ![token] = @ - 0 + got]
  BY <1>1, <1>3, <1>6 DEF PayShares
<1>10. got \in Nat
  BY <1>4, ArrivesBounds
<1>11. owner \in Lenders /\ mint = token /\ got > 0
  <2> HIDE DEF got
  <2>1. mint = token
    <3>1. mint # token => bal'[owner][mint] = paid[owner][mint]
      BY <1>8, <1>9
    <3>2. QED
      BY <1>7, <1>8, <3>1
  <2>2. bal'[owner][mint] = paid[owner][mint] + got
    BY <1>8, <1>9, <1>10, <2>1
  <2>3. got > 0
    BY <1>7, <1>8, <1>10, <2>2
  <2>4. QED
    BY <2>1, <2>3 DEF got
<1>12. total > 0
  <2>1. Arrives(token, shares[owner]) <= shares[owner] /\ shares[owner] \in Nat
    BY <1>4, <1>11, ArrivesBounds
  <2>2. QED
    BY <1>5, <1>10, <1>11, <2>1
<1>13. audit'[key].paid > audit[key].paid
  <2>1. audit[key] \in History /\ audit[key].paid \in Nat
    BY <1>3 DEF History
  <2>2. audit'[key].paid = audit[key].paid + total
    BY <1>1, <1>3, <2>1 DEF History
  <2>3. QED
    BY <1>5, <1>12, <2>1, <2>2
<1>14. QED
  BY <1>1, <1>11, <1>13 DEF Entitled, token

\* A transfer by an outsider is no payment by a vault: its sender has less after it.
LEMMA OutsidersPay ==
  ASSUME TypeOK, NEW owner \in Outsiders, NEW mint \in Mints,
         NEW from \in Outsiders, NEW to \in Accounts, NEW token \in Mints,
         NEW amount \in U64, OutsideTransfer(from, to, token, amount)
  PROVE  ~PaidByVault(owner, mint)
<1>1. SUFFICES ASSUME PaidByVault(owner, mint) PROVE FALSE
  OBVIOUS
<1>2. /\ bal \in Balances /\ owner \in Accounts /\ from \in Accounts /\ amount \in Nat
      /\ amount <= bal[from][token]
      /\ bal' = Transfer(bal, from, to, token, amount)
  BY AccountFacts, OutsiderFacts DEF TypeOK, Balances, OutsideTransfer
<1>3. bal' \in Balances
  BY <1>2, TransferType
<1>4. bal'[from][token] < bal[from][token]
  BY <1>1, <1>2, TransferPaysOne DEF PaidByVault
<1>5. bal'[from][token] >= bal[from][token]
  <2>1. mint = token
    BY <1>1, <1>2, TransferPaysOne DEF PaidByVault
  <2>2. QED
    BY <1>1, <2>1 DEF PaidByVault
<1>6. bal'[from][token] \in Nat /\ bal[from][token] \in Nat
  BY <1>2, <1>3 DEF Balances
<1>7. QED
  BY <1>4, <1>5, <1>6
-----------------------------------------------------------------------------
\* Every step.
LEMMA PaymentStep ==
  ASSUME IInv, [Next]_vars, NEW owner \in Outsiders, NEW mint \in Mints,
         PaidByVault(owner, mint)
  PROVE  Entitled(owner, mint)
<1>1. TypeOK /\ bal'[owner][mint] > bal[owner][mint]
  BY DEF IInv, PaidByVault
<1>2. bal' # bal
  <2>1. bal[owner][mint] \in Nat
    BY <1>1, OutsiderFacts DEF TypeOK
  <2>2. QED
    BY <1>1, <2>1
<1>3. CASE UNCHANGED vars \/ (ConfigNext /\ UNCHANGED orderVars)
  BY <1>2, <1>3 DEF vars, orderVars
<1>4. CASE \E signer \in Keys : BeneficiarySteps(signer)
  BY <1>2, <1>4
  DEF BeneficiarySteps, WhitelistBeneficiary, ToggleBeneficiary, RevokeBeneficiary
<1>5. CASE \E signer \in Keys : CreateSteps(signer)
  <2>1. PICK signer \in Keys, key \in OrderKeys, zov \in Zovs, token \in Mints,
             transient \in BOOLEAN, amount \in U64 :
          \/ \E byOrbit \in BOOLEAN, wallet \in Wallets \cup {None},
                meta \in U64 \cup {None}, borrowed \in U64 :
               CreateOrder(signer, byOrbit, key, zov, wallet, token, transient,
                           amount, meta, borrowed)
          \/ \E wallet \in Wallets :
               PullAndCreateOrder(signer, key, zov, wallet, token, transient, amount)
    BY <1>5, Zenon DEF CreateSteps
  <2>2. ASSUME NEW byOrbit, NEW wallet \in Wallets \cup {None}, NEW meta, NEW borrowed,
               CreateOrder(signer, byOrbit, key, zov, wallet, token, transient,
                           amount, meta, borrowed)
        PROVE  Entitled(owner, mint)
    BY <1>1, <2>2, CreationPays, Zenon
  <2>3. ASSUME NEW wallet \in Wallets,
               PullAndCreateOrder(signer, key, zov, wallet, token, transient, amount)
        PROVE  Entitled(owner, mint)
    BY <1>1, <2>3, PullPays, Zenon
  <2>4. QED
    BY <2>1, <2>2, <2>3, Zenon
<1>6. CASE \E signer \in Keys : SettleSteps(signer)
  <2>1. PICK signer \in Keys, key \in OrderKeys, amount \in U64 :
          \/ \E close \in BOOLEAN : Replenish(signer, key, amount, close)
          \/ RecordOrder(signer, key, amount)
    BY <1>6, Zenon DEF SettleSteps
  <2>2. ~RecordOrder(signer, key, amount)
    BY <1>2 DEF RecordOrder
  <2>3. QED
    BY <1>1, <2>1, <2>2, ReplenishmentPays, Zenon
<1>7. CASE \E signer \in Keys : CloseSteps(signer)
  BY <1>2, <1>7 DEF CloseSteps, CloseOrders
<1>8. CASE OrbitNext
  <2>1. PICK key \in OrderKeys, amount \in U64, repay \in U64, shares \in [Lenders -> U64] :
          ReplenishAndRepay(key, amount, repay, shares)
    BY <1>8, Zenon DEF OrbitNext
  <2>2. QED
    BY <1>1, <2>1, RepaymentPays, Zenon
<1>9. CASE \E roles \in RoleSets, paused \in BOOLEAN : GovernanceStep(roles, paused)
  BY <1>2, <1>9 DEF GovernanceStep, orderVars
<1>10. CASE TransferNext
  BY <1>1, <1>10, OutsidersPay, Zenon DEF TransferNext, Outsiders
<1>11. QED
  BY <1>3, <1>4, <1>5, <1>6, <1>7, <1>8, <1>9, <1>10 DEF Next

\* Whoever the vaults pay is at that moment an active beneficiary or a lender of an
\* open order in that mint, whatever happened between decision and payment.
THEOREM EntitledTheorem == Spec => VaultsPayOnlyEntitled
<1>1. IInv /\ [Next]_vars =>
        \A owner \in Outsiders, mint \in Mints :
          PaidByVault(owner, mint) => Entitled(owner, mint)
  BY PaymentStep
<1>2. IInv /\ [Next]_vars =>
        [\A owner \in Outsiders, mint \in Mints : PaidByVault(owner, mint) =>
           /\ Running
           /\ MintAllowed(mint)
           /\ \/ \E partner \in Partners :
                   /\ owner \in Wallets
                   /\ beneficiaries[<<partner, owner>>] # None
                   /\ beneficiaries[<<partner, owner>>].is_active
              \/ \E key \in OrderKeys : /\ owner \in Lenders
                                        /\ Open(key)
                                        /\ orders[key].mint = mint
                                        /\ audit'[key].paid > audit[key].paid]_vars
  BY <1>1, Zenon DEF Entitled
<1>3. QED
  BY <1>2, BooksTheorem, PTL DEF Spec, VaultsPayOnlyEntitled
=============================================================================
