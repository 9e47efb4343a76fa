--------------------------- MODULE MCOrbitShares ----------------------------
(***************************************************************************)
(* OrbitShares over bounded inputs: the states are the inputs, built up    *)
(* position by position, with any amount they can absorb.                  *)
(***************************************************************************)
EXTENDS OrbitShares

CONSTANTS MaxPositions, MaxBalance    \* bounds on the inputs

ASSUME BoundsAssumption == MaxPositions \in Nat /\ MaxBalance \in Nat

VARIABLES remaining, pot

Init == remaining = <<>> /\ pot = 0

AddPosition ==
  /\ Len(remaining) < MaxPositions
  /\ \E balance \in 1..MaxBalance : remaining' = Append(remaining, balance)
  /\ pot' = 0

PayIn ==
  /\ pot' \in 0..Total(remaining)
  /\ UNCHANGED remaining

Spec == Init /\ [][AddPosition \/ PayIn]_<<remaining, pot>>

\* A repayment is distributed to the last unit, and no position gets more than is
\* owed on it, however the roundings fall (repay.rs 173): Core, which is told the
\* sum, would refuse any other call.
DistributesPot ==
  LET shares == Shares(pot, remaining)
  IN  /\ Total(shares) = pot
      /\ \A i \in DOMAIN shares : shares[i] \in 0..remaining[i]

\* Nobody is favoured by more than the rounding: a lender gets less than one unit
\* above its exact part, and is short by at most one unit for each lender that was
\* supplied before it.
Proportional ==
  LET shares == Shares(pot, remaining)
      all == Total(remaining)
  IN  \A i \in DOMAIN shares :
        /\ all * shares[i] < pot * remaining[i] + all
        /\ all * (shares[i] + i - 1) >= pot * remaining[i]
=============================================================================
