----------------------------- MODULE ZynkConfig -----------------------------
(***************************************************************************)
(* The Config account of zynk-core (state.rs): the three role keys, the    *)
(* pause flag and the whitelist of token mints.  Every handler of the      *)
(* program reads it; Governance and the mint whitelist write it.  The PDA  *)
(* is a singleton, created once by `initialize`; before that it is None.   *)
(***************************************************************************)
EXTENDS Integers

CONSTANTS
  Keys,            \* signing keys (public keys other than the null address)
  Mints,           \* token mints
  FeeBearing,      \* the mints with a Token-2022 transfer-fee extension
  InitialManager,  \* the only key whose signature `initialize` accepts
  None             \* an account that does not exist, an absent Option

VARIABLE config

ASSUME ConfigAssumption ==
  /\ FeeBearing \subseteq Mints
  /\ InitialManager \in Keys
  /\ None \notin Keys \cup Mints

Config == [manager  : Keys,
           admin    : Keys,
           guardian : Keys,
           paused   : BOOLEAN,
           mints    : SUBSET Mints]

ASSUME NoneIsNoConfig == None \notin Config

Initialized == config # None

IsManager(key) == Initialized /\ key = config.manager
IsAdminOrManager(key) == Initialized /\ key \in {config.admin, config.manager}
IsAdminOrGuardian(key) == Initialized /\ key \in {config.admin, config.guardian}

\* Faulty variants of definitions below: the pause is not looked at, and the last
\* mint can be removed.
Running_EvenPaused == Initialized
RemoveTokenMint_EvenLast(signer, mint) ==
  /\ IsAdminOrGuardian(signer)
  /\ mint \in config.mints
  /\ config' = [config EXCEPT !.mints = @ \ {mint}]

\* A handler that moves money or touches an order refuses to run when paused.
Running == Initialized /\ ~config.paused

MintAllowed(mint) == mint \in config.mints

\* validate_not_fee_bearing, of a mint account that was passed.
NotFeeBearing(mint) == mint \notin FeeBearing
-----------------------------------------------------------------------------
(***************************************************************************)
(* initialize: `supplied` are the mint accounts the caller chose to pass   *)
(* as remaining accounts.  Only those are inspected for a transfer fee, so *)
(* a fee-bearing mint whose account is left out enters the whitelist.      *)
(* `admin` and `guardian` may coincide with each other or the manager.     *)
(***************************************************************************)
Initialize(signer, admin, guardian, mints, supplied) ==
  /\ ~Initialized
  /\ signer = InitialManager
  /\ mints # {}
  /\ \A mint \in mints \cap supplied : NotFeeBearing(mint)
  /\ config' = [manager |-> signer, admin |-> admin, guardian |-> guardian,
                paused |-> FALSE, mints |-> mints]

\* update_whitelisted_token_mint with WhitelistAction::Add: the mint account
\* itself must be supplied, so a fee-bearing mint is always recognised here.
AddTokenMint(signer, mint) ==
  /\ IsAdminOrGuardian(signer)
  /\ mint \notin config.mints
  /\ NotFeeBearing(mint)
  /\ config' = [config EXCEPT !.mints = @ \cup {mint}]

\* update_whitelisted_token_mint with WhitelistAction::Remove: the last mint
\* can never go.
RemoveTokenMint(signer, mint) ==
  /\ IsAdminOrGuardian(signer)
  /\ mint \in config.mints
  /\ config.mints # {mint}
  /\ config' = [config EXCEPT !.mints = @ \ {mint}]
=============================================================================
