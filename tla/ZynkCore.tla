------------------------------ MODULE ZynkCore ------------------------------
(***************************************************************************)
(* zynk-core as it is deployed: governance and the order book in one       *)
(* program over one Config account.  CoreOrders lets governance do at any  *)
(* time what it likes to the roles and the pause; here it takes the steps  *)
(* of Governance.  `signers` remembers every key that has signed anything. *)
(***************************************************************************)
EXTENDS Governance

CONSTANTS Partners, OrderIds, ZeroId, Zovs, Wallets, Lenders,  \* as in CoreOrders
          MaxU64, InitialBalance                               \* as in Tokens

VARIABLES bal, beneficiaries, orders, audit, signers

Orders == INSTANCE CoreOrders WITH RoleSets <- Roles

ASSUME ZynkAssumption ==
  /\ Orders!OrdersAssumption
  /\ Orders!WidthAssumption
  /\ Orders!NoneIsNoAccount

bookVars == <<bal, beneficiaries, orders, audit>>
governanceVars == <<timelocks, now, history>>
zynkVars == <<vars, bookVars, signers>>

ZynkInit == Init /\ Orders!Init /\ signers = {}

\* The instructions of governance; Start is signed by the manager that it appoints.
Govern ==
  /\ Next
  /\ signers' = signers \cup history'.signers
  /\ UNCHANGED bookVars

\* The instructions on orders and beneficiaries that need a role.
Operate(signer) ==
  /\ \/ Orders!BeneficiarySteps(signer)
     \/ Orders!CreateSteps(signer)
     \/ Orders!SettleSteps(signer)
     \/ Orders!CloseSteps(signer)
  /\ signers' = signers \cup {signer}
  /\ UNCHANGED governanceVars

\* Orbit's calls, which its authority PDA signs, and transfers by other owners.
Surroundings ==
  /\ Orders!OrbitNext \/ Orders!TransferNext
  /\ UNCHANGED <<governanceVars, signers>>

ZynkNext == Govern \/ (\E signer \in Keys : Operate(signer)) \/ Surroundings

ZynkSpec == ZynkInit /\ [][ZynkNext]_zynkVars
-----------------------------------------------------------------------------
(***************************************************************************)
(* Properties.                                                             *)
(***************************************************************************)

\* Whatever timelocks, acknowledgements and pauses do to the Config account is a
\* step that the order book has been checked against.
OrdersImplemented == Orders!Spec

\* Four eyes on every payout: in a deployment whose manager is neither admin nor
\* guardian, one key alone never gets a vault to pay a wallet (other than an Orbit
\* lender's), however it combines requests, waiting, whitelisting and orders: paying
\* takes the manager, allowing a payee takes admin or guardian, and no key can give
\* itself the other role.
Separated == /\ Initialized
             /\ history.genesis.manager \notin {history.genesis.admin, history.genesis.guardian}

OneKeyPaysNoWallet ==
  [][\A key \in Keys, wallet \in Orders!Outsiders \ Lenders, mint \in Mints :
       Separated /\ signers' \subseteq {key} => ~Orders!PaidByVault(wallet, mint)]_zynkVars
=============================================================================
