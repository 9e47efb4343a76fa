------------------------------- MODULE Tokens -------------------------------
(***************************************************************************)
(* The token program, as far as the Zynk programs use it.  An owner has    *)
(* one token account per mint, and bal[owner][mint] is its balance.  A     *)
(* partner's deposit vault (PDV) is named by its partner, an operational   *)
(* vault (ZOV) by its zov_id and the custody account of an Orbit user by   *)
(* the user: the seeds of the PDAs that own them.                          *)
(***************************************************************************)
EXTENDS ZynkConfig

CONSTANTS
  MaxU64,         \* the largest u64
  InitialBalance  \* what the token accounts hold to begin with

VARIABLE bal

U64 == 0..MaxU64

ASSUME WidthAssumption == MaxU64 \in Nat

\* What a transfer of `amount` credits: Token-2022 withholds the fee.
Arrives(mint, amount) ==
  IF mint \in FeeBearing /\ amount > 0 THEN amount - 1 ELSE amount

\* transfer_checked; the caller guards the source's balance.
Transfer(b, from, to, mint, amount) ==
  LET debited == [b EXCEPT ![from][mint] = @ - amount]
  IN  [debited EXCEPT ![to][mint] = @ + Arrives(mint, amount)]
=============================================================================
