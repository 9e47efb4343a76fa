----------------------------- MODULE CoreOrders -----------------------------
(***************************************************************************)
(* The order book of zynk-core.  A partner's order pays a beneficiary out  *)
(* of a Zynk operational vault (ZOV) and is replenished from the partner's *)
(* deposit vault (PDV); its OrderTracker PDA, one per (partner, order id), *)
(* holds what went out, what came back, and how much of it was lent by     *)
(* Orbit users.  Every handler is one atomic Solana instruction: a failed  *)
(* require! or checked_ operation rolls everything back, so it is a guard. *)
(* Concurrency is the order in which manager, admin, guardian, Orbit and   *)
(* the outside world get their instructions in.                            *)
(***************************************************************************)
EXTENDS Tokens, Functions, FiniteSets

CONSTANTS
  Partners,   \* partner ids; also the owners of the partner deposit vaults
  OrderIds,   \* order ids chosen by the manager
  ZeroId,     \* the all-zero order id, which record_order uses as a sentinel
  Zovs,       \* ZOV ids; also the owners of the operational vaults
  Wallets,    \* wallets that may be whitelisted as beneficiaries
  Lenders,    \* owners of the token accounts Orbit names as repay destinations
  RoleSets    \* the assignments of the three role keys that governance makes

VARIABLES
  beneficiaries,  \* [Partners \X Wallets -> Beneficiary account or None]
  orders,         \* [Partners \X OrderIds -> OrderTracker account or None]
  audit           \* history: per order, the flows its tracker sums up

orderVars == <<beneficiaries, orders, bal, audit>>
vars == <<config, orderVars>>

OrderKeys == Partners \X OrderIds
Accounts == Partners \cup Zovs \cup Wallets \cup Lenders

ASSUME OrdersAssumption ==
  /\ Partners \cap Zovs = {}
  /\ None \notin Wallets \cup Zovs \cup U64
  /\ InitialBalance \in [Accounts -> [Mints -> Nat]]
  /\ RoleSets \subseteq [manager : Keys, admin : Keys, guardian : Keys]

\* The owners that one call's list of destinations can draw on.
ASSUME LendersAreFinite == IsFiniteSet(Lenders)

Beneficiary == [is_active : BOOLEAN, allow_transient : BOOLEAN]

\* An order recorded for another chain has no vault, wallet or mint here.
OrderTracker == [amount_in : U64, amount_out : U64,
                 amount_borrowed : U64, amount_repaid : U64,
                 zynk_op_vault : Zovs \cup {None},
                 beneficiary_wallet : Wallets \cup {None},
                 mint : Mints \cup {None}]

ASSUME NoneIsNoAccount == None \notin Beneficiary /\ None \notin OrderTracker

(***************************************************************************)
(* History of the order under a key, from its creation on.  `arrived` is   *)
(* what reached the ZOV from the PDV for it, `paid` what the ZOV passed on *)
(* to lenders; `direct` and `recorded` tell whether replenish, which       *)
(* ignores lenders, and record_order, which moves no token, touched it.    *)
(***************************************************************************)
History == [arrived : Nat, paid : Nat, direct : BOOLEAN, recorded : BOOLEAN]
FreshHistory ==
  [arrived |-> 0, paid |-> 0, direct |-> FALSE, recorded |-> FALSE]

Open(key) == orders[key] # None
-----------------------------------------------------------------------------
(***************************************************************************)
(* Faulty variants of the definitions below, to see the properties fail:   *)
(* an inactive beneficiary is paid, Orbit lends more than the order, a     *)
(* repayment feeds the house before the lenders or pays them more than it  *)
(* brings, the ZOV keeps what it owes the lenders, an order closes one     *)
(* unit early, a booking overwrites the last.                              *)
(***************************************************************************)
Eligible_EvenInactive(partner, wallet, zov) ==
  beneficiaries[<<partner, wallet>>] # None /\ wallet # zov

BorrowedAllowed_Unbounded(byOrbit, borrowed, effective) == byOrbit \/ borrowed = 0

SharesAccepted_HouseFirst(tracker, repay, total) ==
  total <= tracker.amount_borrowed - tracker.amount_repaid /\ total <= repay

SharesAccepted_BeyondRepay(tracker, repay, total) ==
  /\ total <= tracker.amount_borrowed - tracker.amount_repaid
  /\ total < repay => total = tracker.amount_borrowed - tracker.amount_repaid

BalancesRepaid_KeptByZov(b, key, tracker, amount, shares) ==
  Transfer(b, key[1], tracker.zynk_op_vault, tracker.mint, amount)

Replenished_OneShort(tracker) == tracker.amount_in + 1 >= tracker.amount_out

RecordReplenishment_Overwrites(key, amount) ==
  /\ orders' = [orders EXCEPT ![key].amount_in = amount]
  /\ audit' = [audit EXCEPT ![key].recorded = TRUE]
-----------------------------------------------------------------------------
Init ==
  /\ config = None
  /\ beneficiaries = [pw \in Partners \X Wallets |-> None]
  /\ orders = [key \in OrderKeys |-> None]
  /\ bal = InitialBalance
  /\ audit = [key \in OrderKeys |-> FreshHistory]
-----------------------------------------------------------------------------
(***************************************************************************)
(* create_order.  `wallet` is None when no beneficiary is passed, which is *)
(* allowed only if nothing is transferred.  `meta` is the order's txAmount *)
(* for an order that moves no token (None when there is no meta at all; a  *)
(* meta without a parsable txAmount makes the handler fail).  Only Orbit,  *)
(* which proves itself by the signature of its authority PDA, may declare  *)
(* that part of the amount is borrowed from its lenders.  A transient      *)
(* order closes the tracker it has just created.                           *)
(***************************************************************************)
Eligible(partner, wallet, zov) ==
  /\ beneficiaries[<<partner, wallet>>] # None
  /\ beneficiaries[<<partner, wallet>>].is_active
  /\ wallet # zov

EffectiveAmount(amount, meta) ==
  IF amount = 0 /\ meta # None THEN meta ELSE amount

BorrowedAllowed(byOrbit, borrowed, effective) ==
  borrowed <= (IF byOrbit THEN effective ELSE 0)

OpenTracker(zov, wallet, mint, in, out, borrowed) ==
  [amount_in |-> in, amount_out |-> out,
   amount_borrowed |-> borrowed, amount_repaid |-> 0,
   zynk_op_vault |-> zov, beneficiary_wallet |-> wallet, mint |-> mint]

CreateOrderFrom(b, signer, byOrbit, key, zov, wallet, mint, transient, amount, meta, borrowed) ==
  LET effective == EffectiveAmount(amount, meta)
  IN  /\ IsManager(signer)
      /\ Running
      /\ MintAllowed(mint)
      /\ ~Open(key)
      /\ IF wallet = None
           THEN amount = 0
           ELSE /\ Eligible(key[1], wallet, zov)
                /\ transient => beneficiaries[<<key[1], wallet>>].allow_transient
      /\ amount <= b[zov][mint]
      /\ BorrowedAllowed(byOrbit, borrowed, effective)
      /\ bal' = IF wallet = None
                  THEN b ELSE Transfer(b, zov, wallet, mint, amount)
      /\ IF transient
           THEN UNCHANGED <<orders, audit>>
           ELSE /\ orders' = [orders EXCEPT ![key] =
                      OpenTracker(zov, wallet, mint, 0, effective, borrowed)]
                /\ audit' = [audit EXCEPT ![key] = FreshHistory]
      /\ UNCHANGED <<config, beneficiaries>>

CreateOrder(signer, byOrbit, key, zov, wallet, mint, transient, amount, meta, borrowed) ==
  CreateOrderFrom(bal, signer, byOrbit, key, zov, wallet, mint, transient,
                  amount, meta, borrowed)

(***************************************************************************)
(* pull_and_create_order: PDV -> ZOV -> beneficiary in one instruction.    *)
(* The tracker is born fully replenished, and stays open until closed.     *)
(* allow_transient is not consulted.                                       *)
(***************************************************************************)
PullAndCreateOrder(signer, key, zov, wallet, mint, transient, amount) ==
  LET pulled == Transfer(bal, key[1], zov, mint, amount)
  IN  /\ IsManager(signer)
      /\ Running
      /\ amount > 0
      /\ MintAllowed(mint)
      /\ ~Open(key)
      /\ Eligible(key[1], wallet, zov)
      /\ amount <= bal[key[1]][mint]
      /\ amount <= pulled[zov][mint]
      /\ bal' = Transfer(pulled, zov, wallet, mint, amount)
      /\ IF transient
           THEN UNCHANGED <<orders, audit>>
           ELSE /\ orders' = [orders EXCEPT ![key] =
                      OpenTracker(zov, wallet, mint, amount, amount, 0)]
                /\ audit' = [audit EXCEPT ![key] =
                      [FreshHistory EXCEPT !.arrived = Arrives(mint, amount)]]
      /\ UNCHANGED <<config, beneficiaries>>

(***************************************************************************)
(* replenish: the partner pays back, all of it to the ZOV.  The amount may *)
(* exceed what is outstanding; an amount of zero only serves to close.  A  *)
(* recorded order has no mint and no PDV of this chain, so it never passes *)
(* the account constraints.                                                *)
(***************************************************************************)
ReplenishAccounts(signer, key) ==
  /\ IsManager(signer)
  /\ Open(key)
  /\ MintAllowed(orders[key].mint)

Replenished(tracker) == tracker.amount_in >= tracker.amount_out

Replenish(signer, key, amount, close) ==
  LET tracker == orders[key]
      paidIn == [tracker EXCEPT !.amount_in = @ + amount]
  IN  /\ ReplenishAccounts(signer, key)
      /\ Running
      /\ amount <= bal[key[1]][tracker.mint]
      /\ paidIn.amount_in <= MaxU64
      /\ (amount = 0 \/ close) => Replenished(paidIn)
      /\ bal' = Transfer(bal, key[1], tracker.zynk_op_vault, tracker.mint,
                         amount)
      /\ orders' = [orders EXCEPT ![key] = IF close THEN None ELSE paidIn]
      /\ audit' = [audit EXCEPT
           ![key].arrived = @ + Arrives(tracker.mint, amount),
           ![key].direct = IF amount > 0 THEN TRUE ELSE @]
      /\ UNCHANGED <<config, beneficiaries>>

(***************************************************************************)
(* replenish_and_repay, called by Orbit: `amount` goes from the PDV to the *)
(* ZOV, and of it `repay` reduces the order's debt: shares[l] is passed on *)
(* to lender l, the rest settles what the ZOV itself had advanced, which   *)
(* is allowed only when this very instruction makes the lenders whole.     *)
(***************************************************************************)
Outstanding(tracker) == tracker.amount_out - tracker.amount_in
LentOutstanding(tracker) == tracker.amount_borrowed - tracker.amount_repaid

\* The three checked_sub of the ZOV settlement.
HouseDebtDefined(tracker) ==
  /\ tracker.amount_borrowed <= tracker.amount_out
  /\ tracker.amount_repaid <= tracker.amount_in
  /\ tracker.amount_in - tracker.amount_repaid
       <= tracker.amount_out - tracker.amount_borrowed

\* total_shares and the settlement that is left for the ZOV.
SharesAccepted(tracker, repay, total) ==
  /\ total <= LentOutstanding(tracker)
  /\ total <= repay
  /\ total < repay => total = LentOutstanding(tracker)
                      /\ HouseDebtDefined(tracker)

\* The lenders' transfers out of the ZOV, all in one mint.
PayShares(b, zov, mint, shares, total) ==
  [owner \in Accounts |-> [b[owner] EXCEPT ![mint] =
     @ - (IF owner = zov THEN total ELSE 0)
       + (IF owner \in Lenders THEN Arrives(mint, shares[owner]) ELSE 0)]]

\* The call's checks, and what it makes of the balances and of the tracker; a
\* caller that has moved tokens in the same instruction passes its balances.
Repayable(b, key, tracker, amount, repay, shares) ==
  LET zov == tracker.zynk_op_vault
      total == SumFunction(shares)
  IN  /\ MintAllowed(tracker.mint)
      /\ amount > 0 /\ repay > 0 /\ repay <= amount
      /\ tracker.amount_in <= tracker.amount_out
      /\ repay <= Outstanding(tracker)
      /\ tracker.amount_repaid <= tracker.amount_borrowed
      /\ amount <= b[key[1]][tracker.mint]
      /\ total \in U64
      /\ SharesAccepted(tracker, repay, total)
      /\ zov \in Lenders => shares[zov] = 0
      /\ total <= Transfer(b, key[1], zov, tracker.mint, amount)[zov][tracker.mint]
      /\ tracker.amount_repaid + total <= MaxU64
      /\ tracker.amount_in + repay <= MaxU64

BalancesRepaid(b, key, tracker, amount, shares) ==
  PayShares(Transfer(b, key[1], tracker.zynk_op_vault, tracker.mint, amount),
            tracker.zynk_op_vault, tracker.mint, shares, SumFunction(shares))

TrackerRepaid(tracker, repay, total) ==
  LET repaid == [tracker EXCEPT !.amount_repaid = @ + total,
                                !.amount_in = @ + repay]
  IN  IF repaid.amount_in = repaid.amount_out THEN None ELSE repaid

ReplenishAndRepay(key, amount, repay, shares) ==
  LET tracker == orders[key]
      total == SumFunction(shares)
  IN  /\ Running
      /\ Open(key)
      /\ Repayable(bal, key, tracker, amount, repay, shares)
      /\ bal' = BalancesRepaid(bal, key, tracker, amount, shares)
      /\ orders' = [orders EXCEPT ![key] = TrackerRepaid(tracker, repay, total)]
      /\ audit' = [audit EXCEPT
           ![key].arrived = @ + Arrives(tracker.mint, amount),
           ![key].paid = @ + total]
      /\ UNCHANGED <<config, beneficiaries>>

\* Faulty: an open order with the zero id keeps the debt to its lenders.
RecordPayout_KeepsLenders(key, amount) ==
  /\ orders' = [orders EXCEPT ![key] =
       IF Open(key) THEN [@ EXCEPT !.amount_out = amount]
                    ELSE OpenTracker(None, None, None, 0, amount, 0)]
  /\ audit' = [audit EXCEPT ![key] =
       [(IF Open(key) THEN @ ELSE FreshHistory) EXCEPT !.recorded = TRUE]]

(***************************************************************************)
(* record_order: books an order of another chain, first its payout, then   *)
(* its replenishments.  No token moves here.  It finds the tracker by its  *)
(* seeds alone, so it also books on an order of this chain, and it tells a *)
(* new tracker from an old one by the order id being zero or not.          *)
(***************************************************************************)
RecordPayout(key, amount) ==
  /\ orders' = [orders EXCEPT ![key] =
       IF Open(key)
         THEN [@ EXCEPT !.amount_out = amount, !.amount_borrowed = 0,
                        !.amount_repaid = 0]
         ELSE OpenTracker(None, None, None, 0, amount, 0)]
  /\ audit' = [audit EXCEPT ![key] =
       [(IF Open(key) THEN @ ELSE FreshHistory) EXCEPT !.recorded = TRUE]]

RecordReplenishment(key, amount) ==
  LET booked == [orders[key] EXCEPT !.amount_in = @ + amount]
  IN  /\ booked.amount_in <= MaxU64
      /\ orders' = [orders EXCEPT ![key] =
                      IF Replenished(booked) THEN None ELSE booked]
      /\ audit' = [audit EXCEPT ![key].recorded = TRUE]

RecordOrder(signer, key, amount) ==
  /\ IsManager(signer)
  /\ Running
  /\ amount > 0
  /\ IF Open(key) /\ key[2] # ZeroId
       THEN RecordReplenishment(key, amount)
       ELSE RecordPayout(key, amount)
  /\ UNCHANGED <<config, beneficiaries, bal>>

\* close_orders: admin or guardian close any set of open orders, whatever is
\* still owed on them; one that is already closed fails the whole instruction.
CloseOrders(signer, keys) ==
  /\ IsAdminOrGuardian(signer)
  /\ Running
  /\ \A key \in keys : Open(key)
  /\ orders' = [key \in OrderKeys |-> IF key \in keys THEN None ELSE orders[key]]
  /\ UNCHANGED <<config, beneficiaries, bal, audit>>
-----------------------------------------------------------------------------
(***************************************************************************)
(* The beneficiary whitelist; none of its handlers looks at the pause.     *)
(***************************************************************************)
WhitelistBeneficiary(signer, partner, wallet, allowTransient) ==
  /\ IsAdminOrGuardian(signer)
  /\ beneficiaries[<<partner, wallet>>] = None
  /\ beneficiaries' = [beneficiaries EXCEPT ![<<partner, wallet>>] =
       [is_active |-> TRUE, allow_transient |-> allowTransient]]
  /\ UNCHANGED <<config, orders, bal, audit>>

ToggleBeneficiary(signer, partner, wallet) ==
  /\ IsAdminOrGuardian(signer)
  /\ beneficiaries[<<partner, wallet>>] # None
  /\ beneficiaries' = [beneficiaries EXCEPT ![<<partner, wallet>>].is_active = ~@]
  /\ UNCHANGED <<config, orders, bal, audit>>

RevokeBeneficiary(signer, partner, wallet) ==
  /\ IsAdminOrGuardian(signer)
  /\ beneficiaries[<<partner, wallet>>] # None
  /\ beneficiaries' = [beneficiaries EXCEPT ![<<partner, wallet>>] = None]
  /\ UNCHANGED <<config, orders, bal, audit>>
-----------------------------------------------------------------------------
(***************************************************************************)
(* The surroundings.  GovernanceStep is what the timelocks and the pause   *)
(* can do to the config, in any order (module Governance has their rules). *)
(* OutsideTransfer is a token transfer by an owner who is not a vault:     *)
(* partners' customers paying a PDV, lenders funding a ZOV.                *)
(***************************************************************************)
GovernanceStep(roles, paused) ==
  /\ Initialized
  /\ config' = [config EXCEPT !.manager = roles.manager,
                              !.admin = roles.admin,
                              !.guardian = roles.guardian,
                              !.paused = paused]
  /\ UNCHANGED orderVars

OutsideTransfer(from, to, mint, amount) ==
  /\ amount <= bal[from][mint]
  /\ bal' = Transfer(bal, from, to, mint, amount)
  /\ UNCHANGED <<config, beneficiaries, orders, audit>>

ConfigNext ==
  \/ \E signer \in Keys, roles \in RoleSets, mints, supplied \in SUBSET Mints :
       Initialize(signer, roles.admin, roles.guardian, mints, supplied)
  \/ \E signer \in Keys, mint \in Mints :
       AddTokenMint(signer, mint) \/ RemoveTokenMint(signer, mint)

BeneficiarySteps(signer) ==
  \E partner \in Partners, wallet \in Wallets :
    \/ \E allowTransient \in BOOLEAN :
         WhitelistBeneficiary(signer, partner, wallet, allowTransient)
    \/ ToggleBeneficiary(signer, partner, wallet)
    \/ RevokeBeneficiary(signer, partner, wallet)

CreateSteps(signer) ==
  \E key \in OrderKeys, zov \in Zovs, mint \in Mints,
     transient \in BOOLEAN, amount \in U64 :
    \/ \E byOrbit \in BOOLEAN, wallet \in Wallets \cup {None},
          meta \in U64 \cup {None}, borrowed \in U64 :
         CreateOrder(signer, byOrbit, key, zov, wallet, mint, transient,
                     amount, meta, borrowed)
    \/ \E wallet \in Wallets :
         PullAndCreateOrder(signer, key, zov, wallet, mint, transient, amount)

SettleSteps(signer) ==
  \E key \in OrderKeys, amount \in U64 :
    \/ \E close \in BOOLEAN : Replenish(signer, key, amount, close)
    \/ RecordOrder(signer, key, amount)

CloseSteps(signer) == \E keys \in SUBSET OrderKeys : CloseOrders(signer, keys)

OrbitNext ==
  \E key \in OrderKeys, amount, repay \in U64, shares \in [Lenders -> U64] :
    ReplenishAndRepay(key, amount, repay, shares)

TransferNext ==
  \E from \in (Wallets \cup Lenders) \ (Partners \cup Zovs), to \in Accounts,
     mint \in Mints, amount \in U64 :
    OutsideTransfer(from, to, mint, amount)

Next ==
  \/ ConfigNext /\ UNCHANGED orderVars
  \/ \E signer \in Keys : BeneficiarySteps(signer)
  \/ \E signer \in Keys : CreateSteps(signer)
  \/ \E signer \in Keys : SettleSteps(signer)
  \/ \E signer \in Keys : CloseSteps(signer)
  \/ OrbitNext
  \/ \E roles \in RoleSets, paused \in BOOLEAN : GovernanceStep(roles, paused)
  \/ TransferNext

Spec == Init /\ [][Next]_vars
-----------------------------------------------------------------------------
(***************************************************************************)
(* Properties.                                                             *)
(***************************************************************************)

\* Types: every account has the fields its struct declares, amounts fit a u64,
\* balances never go below zero, and the mint whitelist is never empty.
TypeOK ==
  /\ config \in Config \cup {None}
  /\ Initialized => config.mints # {}
  /\ beneficiaries \in [Partners \X Wallets -> Beneficiary \cup {None}]
  /\ orders \in [OrderKeys -> OrderTracker \cup {None}]
  /\ bal \in [Accounts -> [Mints -> Nat]]
  /\ audit \in [OrderKeys -> History]

\* The fields of an open tracker are a ledger: lenders never get back more than
\* they lent, never lent more than went out, and what they got back is part of
\* what came in; a tracker without vault (recorded for another chain) has no
\* lenders and no mint.  With it the checked_sub of the lenders' part, and those
\* of the house's part but the last, are defined in every replenish_and_repay.
\* It does not bound amount_in by amount_out: a replenish that does not close may
\* overshoot, and such an order can no longer be repaid through Orbit.
Ledger(t) ==
  /\ t.amount_repaid <= t.amount_borrowed
  /\ t.amount_borrowed <= t.amount_out
  /\ t.amount_repaid <= t.amount_in
  /\ t.zynk_op_vault = None => t.amount_borrowed = 0
  /\ t.mint = None <=> t.zynk_op_vault = None

DebtInv == \A key \in OrderKeys : Open(key) => Ledger(orders[key])

\* Lenders are senior to the house in the booked debt: on an order that only Orbit
\* has repaid, no part of amount_in is the house's before all lenders are whole,
\* and never more than the order's debt is booked, so the next repayment meets no
\* undefined checked_sub.  It is about amount_in: what a gross `amount` brings
\* beyond repay_amount stays in the ZOV without being booked for anybody, even
\* while lenders are owed.
Senior(t, h) ==
  ~h.direct /\ ~h.recorded =>
    /\ t.amount_in <= t.amount_out
    /\ t.amount_repaid < t.amount_in => t.amount_repaid = t.amount_borrowed

LendersSenior == \A key \in OrderKeys : Open(key) => Senior(orders[key], audit[key])

\* The house never pays lenders out of its own pocket: for a mint without
\* transfer fee, what a ZOV hands to the lenders of an order is covered by what
\* the partner's vault has sent it for that order, and amount_repaid tells it.
Covered(t, h) ==
  ~h.recorded /\ t.mint \notin FeeBearing =>
    /\ h.paid = t.amount_repaid
    /\ h.paid <= h.arrived
    /\ t.amount_in <= h.arrived

LendersPaidByPartner ==
  \A key \in OrderKeys : Open(key) => Covered(orders[key], audit[key])

\* Unless admin or guardian write it off (close_orders) or the manager books it
\* as recorded (record_order), an order leaves the book only when the ZOV has
\* back, net of what it gave the lenders, all that it had advanced itself; and
\* if replenish never went past the lenders, they have their principal too.
Settled(t, h) ==
  /\ h.arrived - h.paid >= t.amount_out - t.amount_borrowed
  /\ h.direct \/ h.paid = t.amount_borrowed

WrittenOff(key) ==
  \E signer \in {config.admin, config.guardian}, keys \in SUBSET OrderKeys :
    key \in keys /\ CloseOrders(signer, keys)

ClosedMeansSettled ==
  [][\A key \in OrderKeys :
       Open(key) /\ ~Open(key)' /\ ~audit'[key].recorded
         /\ orders[key].mint \notin FeeBearing =>
           Settled(orders[key], audit'[key]) \/ WrittenOff(key)]_vars

\* The terms of a debt are fixed while its order is open: nobody changes the
\* principal, the lenders' part, the vault, the mint or the payee, and what has
\* come in never shrinks.  (Not for the zero order id: record_order takes an
\* open order with that id for a new one and rewrites its terms.)
TermsKept(t, u) ==
  /\ \A field \in {"amount_out", "amount_borrowed", "zynk_op_vault",
                   "beneficiary_wallet", "mint"} : u[field] = t[field]
  /\ u.amount_in >= t.amount_in
  /\ u.amount_repaid >= t.amount_repaid

TermsFixed ==
  [][\A key \in OrderKeys : Open(key) /\ Open(key)' /\ key[2] # ZeroId =>
       TermsKept(orders[key], orders'[key])]_vars

\* A step in which `owner`, who is not a vault, receives tokens of `mint` that
\* no other outsider has sent: the vaults have paid them.
Outsiders == (Wallets \cup Lenders) \ (Partners \cup Zovs)
PaidByVault(owner, mint) ==
  /\ bal'[owner][mint] > bal[owner][mint]
  /\ \A other \in Outsiders : bal'[other][mint] >= bal[other][mint]

\* Vaults pay only those entitled: whoever receives their tokens is at that
\* moment an active beneficiary of some partner, or a lender of an open order in
\* that mint; the program is not paused and the mint is on the whitelist.
VaultsPayOnlyEntitled ==
  [][\A owner \in Outsiders, mint \in Mints : PaidByVault(owner, mint) =>
       /\ Running
       /\ MintAllowed(mint)
       /\ \/ \E partner \in Partners :
               /\ owner \in Wallets
               /\ beneficiaries[<<partner, owner>>] # None
               /\ beneficiaries[<<partner, owner>>].is_active
          \/ \E key \in OrderKeys : /\ owner \in Lenders
                                    /\ Open(key)
                                    /\ orders[key].mint = mint
                                    /\ audit'[key].paid > audit[key].paid]_vars

\* While the program is paused no order is opened, settled or closed, and no
\* vault pays; only the outside world can still send a vault money.
FrozenWhilePaused ==
  [][Initialized /\ config.paused =>
       /\ orders' = orders
       /\ \A vault \in Partners \cup Zovs, mint \in Mints :
            bal'[vault][mint] >= bal[vault][mint]]_vars
-----------------------------------------------------------------------------
(***************************************************************************)
(* What a comment of the repository says of the program and its code does  *)
(* not do: the property of a run that finds a counterexample.              *)
(***************************************************************************)

\* lib.rs 271, on a beneficiary's allow_transient: "Whether this beneficiary may
\* receive funds via transient orders."  A wallet that vaults pay without leaving
\* a tracker behind is one that was allowed to be paid that way.
TransientNeedsPermission ==
  [][\A wallet \in Wallets \cap Outsiders, mint \in Mints :
       PaidByVault(wallet, mint) /\ orders' = orders =>
         \E partner \in Partners :
           /\ beneficiaries[<<partner, wallet>>] # None
           /\ beneficiaries[<<partner, wallet>>].allow_transient]_vars
=============================================================================
