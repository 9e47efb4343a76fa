----------------------------- MODULE MCZynkCore -----------------------------
(***************************************************************************)
(* ZynkCore on two keys, one of which is manager and the other both admin  *)
(* and guardian, one order and one wallet.                                 *)
(***************************************************************************)
EXTENDS ZynkCore, TLC

CONSTANTS k1, k2, m1  \* model values

\* A request for the manager can be executed one tick after it was made.
ShortDelay == [action \in TimelockAction |-> 1]

Separate == {[manager |-> k1, admin |-> k2, guardian |-> k2]}

\* Every vault holds one unit.
VaultsFunded ==
  [owner \in Partners \cup Zovs \cup Wallets \cup Lenders |-> [mint \in Mints |->
     IF owner \in Partners \cup Zovs THEN 1 ELSE 0]]
=============================================================================
