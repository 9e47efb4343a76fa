----------------------------- MODULE OrbitShares -----------------------------
(***************************************************************************)
(* How zynk-orbit's repay spreads one repayment over the positions it was  *)
(* given, in the order given: each gets its proportional part, rounded up, *)
(* as long as there is something left.  `remaining[i]` is what is still    *)
(* owed on the i-th position.  The products are taken in u128 and cannot   *)
(* overflow, so plain integers stand for them.                             *)
(***************************************************************************)
EXTENDS Integers, SequencesExt

\* Faulty variants of the definitions below: shares are rounded down, whoever comes
\* first is paid in full, and the house never gets its part.
CeilDiv_Floor(a, b) == a \div b

Undistributed_InFull(pot, remaining) ==
  LET left[i \in 0..Len(remaining)] ==
        IF i = 0 THEN pot ELSE left[i - 1] - Min({remaining[i], left[i - 1]})
  IN  left

HouseShare_Never(prepared, cap, aggregate) == 0
-----------------------------------------------------------------------------
\* The sum of a sequence of amounts, added up in turn.
Total(amounts) ==
  LET sum[i \in 0..Len(amounts)] == IF i = 0 THEN 0 ELSE sum[i - 1] + amounts[i]
  IN  sum[Len(amounts)]

\* What may go to positions: no more than is owed on those that were supplied, than
\* Core says is owed to lenders, and than the partner pays.
RepayCap(prepared, remaining, aggregate) ==
  Min({Total(remaining), aggregate, prepared})

\* The surplus is for the house only when this call leaves no debt to any lender,
\* supplied or not.
HouseShare(prepared, cap, aggregate) ==
  IF cap = aggregate THEN prepared - cap ELSE 0

CeilDiv(a, b) == (a + b - 1) \div b

\* What is left to distribute after share i: shares are handed out in turn.
Undistributed(pot, remaining) ==
  LET all == Total(remaining)
      left[i \in 0..Len(remaining)] ==
        IF i = 0 THEN pot
        ELSE LET before == left[i - 1]
             IN  before - Min({CeilDiv(pot * remaining[i], all), remaining[i], before})
  IN  left

Shares(pot, remaining) ==
  LET left == Undistributed(pot, remaining)
  IN  [i \in 1..Len(remaining) |-> IF pot = 0 THEN 0 ELSE left[i - 1] - left[i]]
=============================================================================
