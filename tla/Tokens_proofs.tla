---------------------------- MODULE Tokens_proofs ----------------------------
(***************************************************************************)
(* Facts about token transfers, for any set of owners and mints.           *)
(***************************************************************************)
EXTENDS Tokens, TLAPS

\* What arrives of a transfer is a natural number and no more than was sent.
LEMMA ArrivesBounds ==
  ASSUME NEW mint, NEW amount \in Nat
  PROVE  /\ Arrives(mint, amount) \in Nat
         /\ Arrives(mint, amount) <= amount
         /\ mint \notin FeeBearing => Arrives(mint, amount) = amount
BY DEF Arrives

\* What token accounts of a set of owners may hold.
BalancesOf(owned) == [owned -> [Mints -> Nat]]

\* A transfer that the source can afford leaves no balance below zero.
LEMMA TransferKeepsType ==
  ASSUME NEW Owned, NEW b \in BalancesOf(Owned),
         NEW from \in Owned, NEW to \in Owned, NEW mint \in Mints,
         NEW amount \in Nat, amount <= b[from][mint]
  PROVE  Transfer(b, from, to, mint, amount) \in BalancesOf(Owned)
<1> DEFINE debited == [b EXCEPT ![from][mint] = @ - amount]
<1>1. debited \in BalancesOf(Owned)
  BY DEF BalancesOf
<1>2. debited[to][mint] + Arrives(mint, amount) \in Nat
  BY <1>1, ArrivesBounds DEF BalancesOf
<1>3. QED
  BY <1>1, <1>2 DEF Transfer, BalancesOf

\* Only the source of a transfer loses anything.
LEMMA TransferTakesFromSource ==
  ASSUME NEW Owned, NEW b \in BalancesOf(Owned),
         NEW from \in Owned, NEW to \in Owned, NEW mint \in Mints,
         NEW amount \in Nat, amount <= b[from][mint],
         NEW owner \in Owned, owner # from, NEW m \in Mints
  PROVE  /\ b[owner][m] <= Transfer(b, from, to, mint, amount)[owner][m]
         /\ owner = to /\ m = mint =>
              Transfer(b, from, to, mint, amount)[owner][m]
                = b[owner][m] + Arrives(mint, amount)
<1> DEFINE debited == [b EXCEPT ![from][mint] = @ - amount]
<1>1. debited \in BalancesOf(Owned) /\ debited[owner] = b[owner]
  BY DEF BalancesOf
<1>2. Arrives(mint, amount) \in Nat
  BY ArrivesBounds
<1>3. QED
  BY <1>1, <1>2 DEF Transfer, BalancesOf

\* And it loses what was sent, if it does not send to itself.
LEMMA TransferDebits ==
  ASSUME NEW Owned, NEW b \in BalancesOf(Owned),
         NEW from \in Owned, NEW to \in Owned, NEW mint \in Mints,
         NEW amount \in Nat, amount <= b[from][mint], from # to
  PROVE  Transfer(b, from, to, mint, amount)[from]
           = [b[from] EXCEPT ![mint] = @ - amount]
BY DEF Transfer, BalancesOf
=============================================================================
