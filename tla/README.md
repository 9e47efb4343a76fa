# The Zynk programs in TLA+

This directory specifies the two Solana programs of this repository,
`zynk-core` (orders between partners, the Zynk house and lenders; governance) and
`zynk-orbit` (users whose money is lent to those orders), checks the specifications
with TLC on small instances and proves the most important properties with TLAPS for
all values of the constants. Line numbers refer to `src/programs/...`.

## 1. The system

Both programs are Anchor programs: their state are accounts, their operations are
instructions. One instruction, with every call it makes into the other program or
into the token program, is atomic: a failed `require!`, a checked arithmetic
operation or a failed inner call undoes all of it. So there are no steps inside a handler to
interleave with; what is concurrent is the **order** in which independent
signers (manager, admin, guardian, users' wallets, partners, outsiders) get their
instructions in, and what goes stale between two instructions of one business
transaction. Nothing is lost on a crash, and nothing is retried by the programs.

| Component | State | Operations | Meets |
|---|---|---|---|
| Config, roles, mints (`initialize.rs`, `token_whitelist.rs`) | `Config` PDA: three role keys, `paused`, whitelisted mints | `initialize`, add and remove a mint | read by every handler of both programs |
| Governance (`governance.rs`) | one `Timelock` PDA per action | request, ack, revoke, execute, pause, unpause | writes the roles and the pause flag |
| Orders (`create_order.rs`, `pull_and_create_order.rs`, `replenish.rs`, `replenish_and_repay.rs`, `record_order.rs`, `close_orders.rs`) | `OrderTracker` PDA per (partner, order id): `amount_in`, `amount_out`, `amount_borrowed`, `amount_repaid`; token accounts of partner deposit vaults (PDV) and operational vaults (ZOV) | create, pull and create, replenish, replenish and repay, record, close | called by Orbit (`create_order`, `replenish_and_repay`) |
| Beneficiaries (`beneficiaries.rs`) | `Beneficiary` PDA per (partner, wallet) | whitelist, toggle, revoke | decide whom orders may pay |
| Orbit users (`users.rs`, `deposit.rs`, `pledge.rs`, `withdrawals.rs`, `cliff.rs`, `disburse.rs`, `revoke.rs`) | `User` PDA (wallets, type, mint, cliff, principal in and out, cap, allowlists), pending withdraw and cliff requests, custody accounts, Orbit vault | register, update, deposit, pledge, request / approve / revoke a withdrawal, propose / accept / reject a cliff, disburse, revoke | custody is what lending draws on |
| Orbit lending (`borrow.rs`, `repay.rs`, `claim.rs`, `cctp.rs`) | `Position` PDA per (order id, user) | borrow, repay, claim, cctp | creates and repays Core's orders by CPI |
| Orbit vault and CCTP (`cctp.rs`, `utils.rs`) | recipients of the Orbit vault | add, remove, burn | external: Circle's CCTP |

What is hard in this code:

* **Two sets of books.** Core's tracker says in one number what an order owes to
  lenders; Orbit's positions say it lender by lender. Neither program can see the
  other's account disappear, and Core's own `replenish`, `record_order` and
  `close_orders` know nothing of positions.
* **Who gets a repayment first.** Lenders' shares, the house's share, rounding and caps
  are computed in Orbit and checked, differently, in Core.
* **State checked long before it is used.** A withdrawal is requested in one
  instruction and approved in another; so are role changes, cliffs and unpauses.
* **Accounts that are closed and opened again** under the same key: users, orders,
  positions, timelocks.
* **Boundaries:** u64 sums, amounts of zero, `amount_in` beyond `amount_out`, the all-zero
  order id that `record_order` uses as a sentinel, the limited room of the Orbit vault.

What makes the components correct: no open tracker gives lenders back more than they
lent; of what is booked on an order, lenders come before the house, and they are paid with
the partner's money; an order is gone only
when settled, written off or recorded; vaults pay only those entitled; a pause stops
every order and every payment by a vault (beneficiaries, mints and timelocks can be changed
all the same); one key alone changes no role; a user's cap holds; custody
and open positions cover what users have recorded as principal; the two sets of books
agree. `PROJECT.json` lists the hazards behind these at their lines. Some hazards have no
property because the code allows what they describe (a direct replenishment or a booking
that passes over the lenders, an overshoot, an id used again after a write-off, an unpause
requested long before): their notes say which properties exempt the case.

## 2. Modules

```
ZynkConfig <- Tokens <- CoreOrders   <- MCCoreOrders
    ^             ^---- OrbitUsers   <- MCOrbitUsers
    |                      ^---- OrbitLending (INSTANCE CoreOrders, LoanLedger) <- MCOrbitLending
    |        OrbitShares <---------'      <- MCOrbitShares
    +------ Governance  <- MCGovernance
                 ^---- ZynkCore (INSTANCE CoreOrders) <- MCZynkCore

Tokens_proofs <- OrbitUsers_proofs <---------.
Sums_proofs   <- CoreOrders_proofs <----- LendingBooks_proofs <- OrbitLending_proofs
              <- OrbitShares_proofs (of MCOrbitShares)
ZynkCore_proofs (of Governance and ZynkCore)
```

* **ZynkConfig** - the `Config` account, the role checks of the account constraints,
  `initialize` and the mint whitelist. `None` is an account that does not exist.
* **Tokens** - `bal[owner][mint]`, `transfer_checked`; a mint with a Token-2022 fee
  withholds one unit of each transfer.
* **CoreOrders** - `beneficiaries`, `orders` and all nine instructions that write them,
  one action each. `audit` is a history variable: what reached the ZOV for an order and
  what the ZOV passed on to lenders; no handler reads it. Governance appears as one step
  that may change roles and pause at any time, which includes whatever the timelocks
  allow. Helpers are named for the code's local values (`Outstanding`,
  `LentOutstanding`, `SharesAccepted`, `EffectiveAmount`, `TrackerRepaid`).
* **Governance** - the timelocks and the clock, and the changes of the mint whitelist. `history` remembers who has signed, the
  initial roles, when a request was made and what its acknowledger saw.
* **ZynkCore** - zynk-core as one program: the steps of Governance and the instructions of
  CoreOrders over one `Config` account, with `signers`, the keys that have signed anything.
  Where CoreOrders lets governance do as it likes, here it takes its own steps.
* **OrbitUsers** - everything of Orbit but lending. `users[u]`, `withdraws[u]`,
  `cliffs[u]` are the PDAs of user id `u`; `u` is also the owner of its custody account.
  `carried` is history: withdraw requests that outlived the registration they were made
  under.
* **OrbitShares** - the arithmetic of `repay`: the sum of what is owed, how much may go to
  positions, what may go to the house, and the shares. It uses recursive functions, so
  that it can be proved about.
* **LoanLedger** - what lending promises of its books, without programs: per order a debt to
  the house and one to each lender, which fall only when the partner pays and the lender
  receives, the house's last. It is about debts, not about tokens: what the partner pays
  beyond the debt that falls is no part of it. OrbitLending implements it (`OneLedger`).
* **OrbitLending** - extends OrbitUsers and OrbitShares and instantiates CoreOrders as `Core`, whose lenders are the owners that
  Orbit may name as repay destinations. `borrow` and `cctp` contain
  `Core!CreateOrderFrom`, `repay` contains `Core!ReplenishAndRepay`, as the handlers
  contain the CPI; `claim` is a recursive function over its operations, each of which uses
  `Core!Repayable`, `Core!BalancesRepaid` and `Core!TrackerRepaid` on the state that
  the one before has left. `touched` holds the orders whose debt was changed behind the positions'
  back (by Core's own instructions, by revoking a position, or by a repay that names a
  position twice), `struck` the users who lost a position to `revoke`. `borrow` may take a
  loan from any account that the PDA owns or has been approved for (`MaySpend`): the
  user's own custody, or a wallet that has approved that PDA, whosever it is.
  `CoreNext` is Core without Orbit: `UnlentNext` (create with a wallet or for another chain,
  pull and create, transient or not), `SettleNext` (replenish, record, close) and the pause.
  It leaves out changes of beneficiaries, mints and roles, which only decide which of
  these are allowed: here every wallet is a beneficiary that may receive everything.

`...Accounts` operators (`ReplenishAccounts`, `BorrowAccounts`, `RepayAccounts`,
`ClaimAccounts`, `CctpAccounts`) are the constraints of an instruction's accounts struct
(`contexts.rs`), which Anchor checks before the handler runs.

An action has the guard of its handler (account constraints, `require!`s and checked
operations, evaluated up front because failure undoes everything) and its whole effect.
Faulty variants with a suffix (`SharesAccepted_HouseFirst`, ...) stand before the
definition they vary; nothing uses them but `PROJECT.json`'s mutants, which show that
each property can fail.

## 3. Runs

| Run | Instance | Shows |
|---|---|---|
| `core_debt` | one order, two lenders (symmetric), all amounts of a 2-bit u64 | `TypeOK`, `DebtInv`, `LendersSenior`, `LendersPaidByPartner`, `ClosedMeansSettled`, `TermsFixed` |
| `core_access` | the zero order id, one lender, roles that move, two mints (one with fees), pause, u64 up to 2 | `DebtInv`, `VaultsPayOnlyEntitled`, `FrozenWhilePaused` |
| `core_governed` | orders and governance together: two keys, requests for the manager's role, one order, one beneficiary | `OneKeyPaysNoWallet`: no key alone gets a vault to pay a wallet |
| `gov_roles` | requests for admin and guardian, three keys, with admin = guardian or not | `TypeOK`, `SlotsTruthful`, `OneKeyChangesNoRole`, `TwoKeysKeepGuardian`, `RoleChangesReviewed` |
| `gov_pause` | requests for manager and unpause | `PauseHolds` |
| `users` | one user of any type, one wallet, revoked and registered anew | `UsersTypeOK`, `WithinCap`, `CustodyBacks` |
| `shares` | up to five positions with balances up to 5, any amount they absorb | `DistributesPot`, `Proportional`: the rounding neither loses a unit nor favours anybody by more than it must |
| `lending_books` | one custodial user from registration to revocation, loans of 1 out of custody or an approved wallet, Core's own orders and settlements | `LendingTypeOK`, `BooksAgree`, `PrincipalCovered`, and `OneLedger`: the two programs' books implement LoanLedger |
| `lending_loans` | a custodial and a non-custodial lender on one order, amounts to 3, repays and claims of up to two positions | the same, with proportional shares, and `SurplusOnlyPastUnnamed` |
| `loans_end` | two custodial lenders on one order, a manager that keeps repaying | `LoansRepaid`: no loan is ever wedged |

Two runs check what the repository says and the code does not do; TLC finds a
counterexample in each (section 5).

`OneLedger` maps LoanLedger's variables as follows: a loan is what is left of a position,
the house's debt is `LentOutstanding` taken from `Outstanding` of Core's tracker, the purse is
the partner's deposit vault, and what a lender holds is its custody account and its
wallets (a claim pays wallets). `spoiled` is `touched`. A step of the programs is then a
new advance, a payment in which every debt falls by no more than somebody pays and
its owner receives, an interference with a touched order, or no step at all. This is
where a share that is paid and not booked, booked twice or booked on another lender's
position would show, although each program's own invariants still hold.

Tokens are another matter than debts. `repay` hands Core the gross amount (`repay.rs:288`)
and has it book only what goes to the named positions and, once all lenders are whole, to the
house; what is over stays in the ZOV and is booked for nobody. So lenders come first only
of what is booked: on an order of 2 with two lenders of 1 each, a repayment of 2 that names
one of them pays that one, and leaves 1 in the ZOV while the other is still owed 1. Neither
`LendersSenior` nor `OneLedger` is about that token. `SurplusOnlyPastUnnamed` says what
holds of it: an order that stays open loses tokens in this way only by a repayment that
leaves out a lender who is owed.

`DebtInv` bounds the lenders' part of a tracker, not `amount_in`: a `replenish` that does not
close may overshoot (`replenish.rs:40`). `LendersSenior` therefore bounds `amount_in` only on
orders that nobody but Orbit has repaid, and on those the next repayment meets no
undefined subtraction (`DefinedTheorem`).

### Bounds, and why they are enough

* `MaxU64` (1 to 6): integers keep their overflow behaviour at a small width, so checked
  additions do fail within the instance. Width 2 or 3 gives partial payments, exact ones
  and surplus.
* `Amounts`, `DirectAmounts`: the amounts callers ask for, in Orbit and in Core's own
  instructions. In `lending_loans` they let two loans of different size, 1 and 2, share one
  order of 3, and one repayment of 1 to 3.
* `MaxOperations`: positions named in one repay or claim; 2 is the least that rounds,
  caps, and repeats.
* `MaxPositions`, `MaxBalance`: with five positions of different size the roundings of the
  first ones leave less than a share for the last. The theorems of section 4 need no bound.
* `MaxTime`: ticks of the clock. Cliffs and timelock delays (6, 12, 24, 48 hours) are
  scaled to a few ticks that keep their order (in `gov_pause` so that an unpause can come
  before, at and after its delay); `Never` stands for `i64::MAX`.
* One PDV, one ZOV, one beneficiary and one order at a time: instructions of other vaults
  and orders touch other accounts, except for the balances of a shared vault, which
  outside transfers change in every way that another order could. For several orders
  the theorems of section 4 hold.
* `core_governed` has the keys and the one request that matter to its question: a manager, a
  key that is admin and guardian, and the request by which either could get the other's
  role. `FourEyesTheorem` covers all keys, requests and delays.
* Fees are one unit per transfer and owner: what matters is that less arrives than was sent.
  In `core_access` amounts of 2 deliver 1, so orders in the mint with fees do pay.
* `lending_books` has `OvaultRoom = 0`, so the Orbit vault's recipients and its burns are
  not in it; they touch neither orders nor positions, and `users` has them.
* `lending_loans` starts with users registered and funded, a state that registration and
  deposit lead to, and steps by what changes loans: borrow, cctp (which finds no
  recipient), repay, claim, Core's settlements, the pause and the revocation of positions.
  Wallets approve the Orbit vault's PDA only, and for all they hold. Orders that nothing is
  lent to are left to `lending_books`.
* Both have `VIEW WhatMatters`, which lets TLC take two states for one when they differ only
  in what beneficiaries have received, in what has been paid out for an order so far, in the
  history of an order that is gone, or in whether a user's empty partner whitelist or one
  with the only partner's number lets it lend. No guard depends on these (`wallet`
  is never a source, and `audit` is read by no handler), and the properties of the two runs
  read only the balances of users, wallets of users and partners, and what arrived for open
  orders; so states with one view have successors with one view, and satisfy the same.

Deadlock is checked in all runs; none of the instances can stop. `SYMMETRY` is used where
no definition names a member of the set: lenders in `core_debt`, recipients in `users`.

### Fairness

The programs run only when somebody sends an instruction, so nothing in the code
promises that anything happens. `LoansRepaid` therefore asks not whether the manager
repays but whether the programs let it: `Diligence` is strong fairness of `RepayAll(key)`,
the manager's repay of one order that names every open position of it and some amount.
Strong, because the instruction is disabled and enabled again by a pause, by other
loans and by an empty vault, and a manager that retries is not put off by that. The
premise `[]<>Payable(key)` says that the partner's vault and the pause give it a chance
again and again. What may come in between, at any time, is what `loans_end` has: new
loans, claims by lenders, other repayments, write-offs, the revocation of positions (both
exempt the order, as they touch it) and the pause. What the property then excludes is a
state in which positions are open and yet every repayment fails one of the checks of the
two programs, on shares, on sums, on what is left for the house.

It is no more than that. A manager that repays is a person, not code. And the run leaves
out what would block a repayment from outside the arithmetic: users are not revoked, their
wallets not changed and the mint not removed; Core's own replenish, record and orders
without lenders do not occur (`DirectAmounts = {}`), so neither does an overshoot, after which
Orbit cannot repay an order at all. The partner's vault is not refilled either: its 3
tokens are enough for a loan of 2 and part of the next, and once it is empty the premise
asks for nothing more.

No other run assumes fairness. That a partner pays, an admin approves a withdrawal or a
second key acknowledges a request is nobody's obligation in this code.

## 4. Proofs

`CoreOrders_proofs` proves, for any sets of partners, orders, vaults, wallets, lenders
and mints and any width of u64:

* `BooksTheorem`: the inductive invariant `IInv == TypeOK /\ Books`. `Books` is the
  conjunction, per order, of `Ledger` (the lenders' part in the tracker's fields), `Senior` and `Covered` (their
  relation to `audit`). None of the three is inductive alone: `Covered` needs
  `amount_repaid <= amount_in`, which is the ledger's; `Senior` needs the bound on shares that the
  ledger gives; typing of balances needs that a ZOV can pay the shares. Each action has a
  typing lemma and a book lemma; the book lemmas reduce a step to one order
  (`OneBookChanges`), since every action but `CloseOrders` writes at most one tracker.
* `TypeTheorem`, `DebtTheorem`, `SeniorTheorem`, `CoverTheorem`: its parts. `DefinedTheorem`
  draws a consequence of `Ledger` and `Senior`: on an order that only Orbit has repaid, every
  `checked_sub` of the next repayment is defined. Where a replenishment has overshot,
  the first one is not (`replenish_and_repay.rs:20`).
* `SettledTheorem`, `TermsTheorem`, `FrozenTheorem`: the action properties
  `ClosedMeansSettled`, `TermsFixed` and `FrozenWhilePaused`, from `IInv`.

Its second part adds `EntitledTheorem` (`VaultsPayOnlyEntitled`). One lemma per instruction
says whose balance it raises: a transfer raises only its destination's
(`TransferPaysOne`), an outsider's transfer lowers the sender's. For a repayment it needs
that shares with a positive member have a positive sum, a fact about the community
modules' `SumFunction`, which `Sums_proofs` unfolds for finite sets (`LendersAreFinite` is
assumed).

`ZynkCore_proofs` proves all properties of `gov_roles` and `gov_pause` (`TypeCorrect`,
`SlotsAlwaysTruthful`, `OneKeyTheorem`, `TwoKeysTheorem`, `PauseTheorem`, `ReviewTheorem`).
`OneKeyTheorem` rests on `SlotsTruthful` (the requester has signed) and on the fact that
only an execution changes roles (`RolesChangeByExecution`), whose signer differs from
the requester; `TwoKeysTheorem` adds the acknowledger.

It then comes to the composition. `GovernanceTheorem` and `OrdersTheorem`: the
whole program implements the specification of each part, so all that is proved of
Governance and of CoreOrders holds of it; in particular every step of the timelocks is one
that CoreOrders' free governance step allows. `FourEyesTheorem` (`OneKeyPaysNoWallet`) goes
by the invariant `SoloInv`: as long as one key alone has signed, roles are those of the
genesis, and if that key is not admin or guardian then nobody is a beneficiary
(`NoPayee`). A wallet is then paid neither by the manager, who finds no payee, nor by
admin or guardian, who cannot create orders; `Shape` says what this needs of the vaults that
trackers name.

`OrbitUsers_proofs` proves the three properties of `users` for any number of users
(`UsersTypeTheorem`, `CapTheorem`, `CustodyTheorem`) from `UsersInv(owed)`: typing, a finite list
of recipients (so that adding to it counts one more) and, per registered user, `Sound`: net
principal within the cap and, for custodial users, within the balance of the custody
account and what others owe the user, `owed`. For users alone that is `Nothing`; lending
uses the same lemmas with the debts of its positions. A step either changes no user and
takes nothing from custody (`CustodyGrows`) or rewrites one user, which has to stay sound (`OneUserChanges`). The approval of a
withdrawal keeps custody whole although the amount was checked long before, because it
takes the same amount from both sides. The one fact about addresses it needs is that
custody accounts belong to PDAs, which are neither wallets nor the Orbit or ZOV vault.

`OrbitShares_proofs` proves both properties of `shares` for any number of positions and
any balances. What the two recursive functions compute is shown by induction on the
position, with a set in the place of the property (`SetInduction`), since the library's
induction theorems take an operator. Before position `i`, with `o` still owed from there
on, what is left lies between `pot * o / all` less the units that rounding up has taken
from each position passed, and `pot * o / all` (`OneShare`); at the end nothing is owed, so
nothing is left.

`Tokens_proofs` holds what both order book and users need of transfers: they keep balances
natural, and only the source loses.

### Lending

`LendingBooks_proofs` and `OrbitLending_proofs` are about the whole of Orbit with Core's
order book under it, for any number of users, partners, orders, wallets and mints, any
width of u64 and any length of a repay or a claim. `LendingTheorem` is the inductive
invariant, `LendingInv == UsersPart /\ OrdersPart`:

* `UsersPart`: types and caps of users, and, for every user that `revoke` has not struck, `Backed`:
  what an ICV user has as net principal, in a mint without fees, is in its custody account or
  owed to it on its positions (`Debts(positions)`). The cap is part of it because an update of a user has to keep both.
* `OrdersPart`: Core's own invariant (`CoreOK`), the types of positions, none of which is
  paid in full (`PositionsOK`), `Agree`, the equation of `BooksAgree` on every order not
  touched, and `Clean`: an open order that is not touched was neither replenished nor recorded by
  Core alone. `BooksAgree` is not inductive without the rest: that the last repayment of an
  order leaves no position behind follows from seniority (`Senior`), which Core promises
  of orders that are clean, and that a share fits the tracker follows from the ledger
  of Core's tracker.

`InvMeansProperties` gives `LendingTypeTheorem`, `BooksTheorem`, `CoverTheorem` and, since
`WithinCap` and Core's promises are parts of it, `ComponentsTheorem`. The proof
has one lemma per instruction; steps of users alone go through the lemmas of
`OrbitUsers_proofs` with `owed` the debts of positions, and steps of Core through those of
`CoreOrders_proofs`. New in it:

* A repayment is computed position by position and paid owner by owner. The shares per owner
  are sums over the positions with that owner (`SumsBy`), and their sum is the sum over all
  positions (`SumGrouped`), which is what Core adds up.
* A claim is a loop. `Progressing` is its loop invariant: after `i` operations the books hold
  and agree, no user's custody has changed since the start, what has been counted as paid is
  what the user's positions have lost, and no other user's have. It is shown of every `i`
  by induction over a set (`SetInduction`); one operation is one repayment with one payee.

`LedgerTheorem`: OrbitLending implements LoanLedger (`OneLedger`) by the mapping of section 3.
`PaidOff` says, of any balances, orders and positions before and after, that debts fall, the
partner has given and the lenders have got at least as much, and the house is
paid last of what is booked; it composes (`PaidOffTwice`), so that a claim of many operations is one payment of the
ledger. `RepaidIsPaid` shows it of one order, for a repay and for one operation of a
claim alike. Borrow, cctp and Core's orders are advances (`LedgerAdvances`); Core's own
replenish, record and close, a revocation and a repay that names a position
twice spoil (`LedgerSpoils`); what remains changes nothing of the ledger (`LedgerUntouched`). The
strengthening is `HouseSound`: on an untouched order the house is never owed less than nothing.

The theorem has two hypotheses. `FeeBearing = {}`: where a mint withholds fees the lender
gets less than the debt falls by, and the ledger's promise is not kept to the unit. And no
partner's vault is a user, a user's wallet or the Orbit vault: `register_user` and
`update_wallets` do not compare the wallets they are given with partners' vaults, and a
partner that is a lender's wallet would pay itself. The run `lending_books` satisfies both,
and so does every deployment in which wallets are keys that sign.

### Assumptions, and what is only model-checked

Assumptions are the named `ASSUME`s of the modules: sets of keys, mints and accounts
do not contain `None`, partners and ZOVs are different PDAs, initial balances are
natural numbers, `MaxU64` is a natural number, and lenders, order ids, partners and
mints are finitely many. TLC evaluates each in the runs of its module.

Only model-checked: `LoansRepaid`, since liveness under fairness is out of the provers'
reach, and `SurplusOnlyPastUnnamed`. The two runs of section 5 are counterexamples. Everything else that a run
checks is proved; `OneLedger` under the hypotheses above.

## 5. Where the code and its comments differ

| Run | Comment | What the run shows |
|---|---|---|
| `doc_transient` | `zynk-core/src/lib.rs:271`: `allow_transient` says whether a beneficiary may be paid by transient orders | a transient `pull_and_create_order` pays any active beneficiary |
| `doc_share_cap` | `zynk-orbit/.../repay.rs:173`: each share is capped by the position's balance | a position named twice is capped twice, and gets more than its balance |

Observed while modelling, not made a run: shares of a repayment need not "sum exactly to
`repay_amount`" (`zynk-core/src/lib.rs:166`; `replenish_and_repay.rs:75` accepts less and settles
the house with the rest once lenders are whole); positions need not "exactly equal the order
amount" (`zynk-orbit/src/lib.rs:36`, and `tests/zynk-orbit.ts:1614` expects less to fail; `borrow.rs:43`
only excludes more, and the ZOV advances the difference); `amount_in` counts only `repay_amount` although
`amount` moves (`replenish_and_repay.rs:146`; `state.rs:59` speaks of all tokens); a pulled
order stays open although `amount_in = amount_out` (`state.rs:50`); after a `replenish` beyond
the debt that leaves the order open, no repayment through Orbit is possible
(`replenish.rs:40`, `replenish_and_repay.rs:20`); a repayment that names one of two lenders
leaves the excess of the partner's money in the ZOV, unbooked, although `repay.rs:158-162` says
that excess cannot go to the ZOV then (`repay.rs:262` and `288` say and do otherwise; section 3
has the example); a pending withdrawal
may come to exceed the principal it was checked against (`withdrawals.rs:31`);
`borrow` does not look at who owns the account that funds a position, for users of
either kind (`borrow.rs:116`, `137`).

## 6. Not modelled

* Events and error codes: they write no state (an error is a failed guard). The entry points
  of `lib.rs` are the disjuncts of the next-state relations.
* Parsing and hashing of partner ids: the model needs one number and one hash per partner.
* Rent, lamports and the allocation of accounts: an account exists or is `None`.
* What CCTP does on the other chain; here it burns.
* `client/`, `migrations/`, tests: templates and test code (read for what they state).

## 7. Plan

In this order, the most important behaviour first; all but the last are done.

1. ZynkConfig, Tokens, CoreOrders: the order book; invariants and action properties proved.
2. Governance: checked and proved.
3. OrbitUsers: checked and proved.
4. OrbitLending, composed with CoreOrders: checked, with the liveness of loans.
5. OrbitShares: checked and proved.
6. Tokens and sums: the facts that the other proofs share.
7. LoanLedger, the abstract promise of lending, implemented by OrbitLending.
8. ZynkCore, the composition of Governance with CoreOrders: it implements both, and
   `OneKeyPaysNoWallet` is proved of it.
9. Proofs about OrbitLending: types, `BooksAgree`, `PrincipalCovered`, and that it implements
   LoanLedger.
10. An abstract `OrderDebt` that CoreOrders implements by itself (open, paid down, settled or
    written off), the mapping proved step by step; OrbitLending with `revoke`, shown to
    implement the specification of users, up to what positions owe.
