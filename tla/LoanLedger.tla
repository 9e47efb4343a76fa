----------------------------- MODULE LoanLedger -----------------------------
(***************************************************************************)
(* What lending promises, as one book kept by nobody in particular: on     *)
(* each order the partner owes the house something and each lender its     *)
(* loan, and these debts fall only when the partner pays and the lender    *)
(* receives.  It is a book of debts: what is paid beyond them is not in    *)
(* it.  The two programs keep this book between them, Core in an order's   *)
(* tracker and Orbit in its positions: OrbitLending implements it.         *)
(***************************************************************************)
EXTENDS Integers, Functions

CONSTANTS
  Orders,    \* orders that may be lent to
  Payers,    \* the partners that owe
  PayerOf,   \* [Orders -> Payers]
  Creditors  \* users that lend

VARIABLES
  house,    \* [Orders -> what the partner owes to the house]
  loans,    \* [Orders -> [Creditors -> what it owes to each lender]]
  purse,    \* [Payers -> what the partner has to pay with]
  hand,     \* [Creditors -> what the lender holds]
  spoiled   \* orders whose debts somebody has changed by hand: no promise holds

debts == <<house, loans, spoiled>>

Sound == Orders \ spoiled'
Unchanged(order) == house'[order] = house[order] /\ loans'[order] = loans[order]
Free(order) == house[order] = 0 /\ \A u \in Creditors : loans[order][u] = 0

\* By how much the debt to a lender, to the house or on a whole order falls.
LoanFalls(order, u) == loans[order][u] - loans'[order][u]
HouseFalls(order) == house[order] - house'[order]
DebtFalls(order) ==
  HouseFalls(order) + SumFunction([u \in Creditors |-> LoanFalls(order, u)])

Init ==
  /\ \A order \in Orders : Free(order)
  /\ spoiled = {}

\* An order is advanced, by lenders and the house, when nothing is owed on it.
Advance(order) ==
  /\ Free(order)
  /\ house'[order] >= 0
  /\ \A u \in Creditors : loans'[order][u] >= 0
  /\ \A other \in Sound \ {order} : Unchanged(other)

\* Debts are paid off: no debt rises or is paid twice, the house's is reduced after
\* all the lenders', partners give and lenders get at least what their debts fall by.
PayOff ==
  /\ \A order \in Sound :
       /\ HouseFalls(order) \in 0..house[order]
       /\ \A u \in Creditors : LoanFalls(order, u) \in 0..loans[order][u]
       /\ HouseFalls(order) > 0 => \A u \in Creditors : loans'[order][u] = 0
  /\ \A payer \in Payers :
       SumFunction([order \in {o \in Sound : PayerOf[o] = payer} |-> DebtFalls(order)])
         <= purse[payer] - purse'[payer]
  /\ \A u \in Creditors :
       SumFunction([order \in Sound |-> LoanFalls(order, u)]) <= hand'[u] - hand[u]

\* Somebody interferes with orders; the other debts stay as they are.
Spoil == \A order \in Sound : Unchanged(order)

Next ==
  /\ spoiled \subseteq spoiled'
  /\ Spoil \/ PayOff \/ \E order \in Sound : Advance(order)

Spec == Init /\ [][Next]_debts
=============================================================================
