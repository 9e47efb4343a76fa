----------------------------- MODULE Governance -----------------------------
(***************************************************************************)
(* Governance of zynk-core: who may hold the three roles and who may stop  *)
(* and restart the program.  A change of role, or an unpause, is requested *)
(* in a timelock PDA (one per action), may be acknowledged by a second key *)
(* or revoked, and is executed once its conditions hold.  Pausing is       *)
(* immediate.  The keys act in any order; `now` is the cluster's clock.    *)
(***************************************************************************)
EXTENDS ZynkConfig

CONSTANTS
  Null,      \* the default public key, stored when a request names no value
  Delay,     \* TimelockAction::delay, in units of the clock
  RoleSets,  \* the role assignments a deployment may start with
  InPlay,    \* the actions that are requested
  MaxTime    \* bound on the clock

VARIABLES
  timelocks,  \* [TimelockAction -> Timelock account or None]
  now,        \* Clock::unix_timestamp
  history     \* what the properties remember; no handler reads it

TimelockAction == {"UpdateAdmin", "UpdateManager", "UpdateGuardian", "Unpause"}

ASSUME GovernanceAssumption ==
  /\ Null \notin Keys /\ Null # None
  /\ Delay \in [TimelockAction -> Nat]
  /\ RoleSets \subseteq [manager : Keys, admin : Keys, guardian : Keys]
  /\ InPlay \subseteq TimelockAction
  /\ MaxTime \in Nat

Timelock == [value : Keys \cup {Null}, eta : Nat,
             req_by : Keys, ack_by : Keys \cup {None}]

ASSUME NoneIsNoTimelock == None \notin Timelock

(***************************************************************************)
(* signers: the keys that have signed a governance instruction since the   *)
(* program was initialized; genesis: the roles it was initialized with;    *)
(* asked[a]: when the pending request for a was made; agreed[a]: the value *)
(* its acknowledger saw; paused: when the last pause began.                *)
(***************************************************************************)
Roles == [manager : Keys, admin : Keys, guardian : Keys]
History == [signers : SUBSET Keys,
            genesis : Roles \cup {None},
            asked   : [TimelockAction -> Nat],
            agreed  : [TimelockAction -> Keys \cup {Null, None}],
            paused  : Nat]

vars == <<config, timelocks, now, history>>

RolesOf(c) == [manager |-> c.manager, admin |-> c.admin, guardian |-> c.guardian]
Pending(action) == timelocks[action] # None

Acked(action) == timelocks[action].ack_by # None
EtaReady(action) == now >= timelocks[action].eta

Signed(key) == history' = [history EXCEPT !.signers = @ \cup {key}]
-----------------------------------------------------------------------------
(***************************************************************************)
(* Faulty variants of the definitions below: what the handlers would be    *)
(* with a forgotten check.  They serve to see the properties fail.         *)
(***************************************************************************)
NotRequester_Unchecked(signer, action) == TRUE
NotAcker_Unchecked(signer, action) == TRUE
ValueGiven_Unchecked(action) == TRUE
Reviewed_TimeOrKey(action) == EtaReady(action) \/ Acked(action)
UnpauseReady_AtOnce == Pending("Unpause")
-----------------------------------------------------------------------------
Init ==
  /\ config = None
  /\ timelocks = [action \in TimelockAction |-> None]
  /\ now = 0
  /\ history = [signers |-> {}, genesis |-> None,
                asked   |-> [action \in TimelockAction |-> 0],
                agreed  |-> [action \in TimelockAction |-> None],
                paused  |-> 0]

Start(signer, roles, mints) ==
  /\ Initialize(signer, roles.admin, roles.guardian, mints, Mints)
  /\ history' = [history EXCEPT !.genesis = RolesOf(config')]
  /\ UNCHANGED <<timelocks, now>>

\* request_timelock: the PDA is created here, so an action that is already
\* pending cannot be requested again.  No value means the null address.
RequestTimelock(signer, action, value) ==
  /\ IsAdminOrManager(signer)
  /\ ~Pending(action)
  /\ timelocks' = [timelocks EXCEPT ![action] =
       [value |-> value, eta |-> now + Delay[action],
        req_by |-> signer, ack_by |-> None]]
  /\ history' = [history EXCEPT !.signers = @ \cup {signer},
                                !.asked[action] = now,
                                !.agreed[action] = None]
  /\ UNCHANGED <<config, now>>

\* SignTimelock: the account constraints of revoke, ack, execute and unpause.
MaySign(signer, action) == IsAdminOrGuardian(signer) /\ Pending(action)

NotRequester(signer, action) == timelocks[action].req_by # signer
NotAcker(signer, action) == timelocks[action].ack_by # signer

RevokeTimelock(signer, action) ==
  /\ MaySign(signer, action)
  /\ NotRequester(signer, action)
  /\ timelocks' = [timelocks EXCEPT ![action] = None]
  /\ Signed(signer)
  /\ UNCHANGED <<config, now>>

AckTimelock(signer, action) ==
  /\ MaySign(signer, action)
  /\ NotRequester(signer, action)
  /\ ~Acked(action)
  /\ timelocks' = [timelocks EXCEPT ![action].ack_by = signer]
  /\ history' = [history EXCEPT !.signers = @ \cup {signer},
                                !.agreed[action] = timelocks[action].value]
  /\ UNCHANGED <<config, now>>

\* execute_request.  Time or a second key suffices for admin and manager; the
\* guardian is replaced only with both.  An Unpause request is not for here.
Reviewed(action) ==
  IF action = "UpdateGuardian" THEN EtaReady(action) /\ Acked(action)
                               ELSE EtaReady(action) \/ Acked(action)

ValueGiven(action) == timelocks[action].value # Null

ExecuteRequest(signer, action) ==
  LET value == timelocks[action].value
  IN  /\ MaySign(signer, action)
      /\ NotRequester(signer, action)
      /\ NotAcker(signer, action)
      /\ Reviewed(action)
      /\ ValueGiven(action)
      /\ \/ /\ action = "UpdateAdmin"
            /\ config' = [config EXCEPT !.admin = value]
         \/ /\ action = "UpdateManager"
            /\ config' = [config EXCEPT !.manager = value]
         \/ /\ action = "UpdateGuardian"
            /\ config' = [config EXCEPT !.guardian = value]
      /\ timelocks' = [timelocks EXCEPT ![action] = None]
      /\ Signed(signer)
      /\ UNCHANGED now

\* unpause: unlike execute_request it asks nothing of the signer's relation to
\* the request, and it works on a program that is not paused, too.
UnpauseReady == EtaReady("Unpause") \/ Acked("Unpause")

Unpause(signer) ==
  /\ MaySign(signer, "Unpause")
  /\ UnpauseReady
  /\ config' = [config EXCEPT !.paused = FALSE]
  /\ timelocks' = [timelocks EXCEPT !["Unpause"] = None]
  /\ Signed(signer)
  /\ UNCHANGED now

Pause(signer) ==
  /\ IsAdminOrManager(signer)
  /\ config' = [config EXCEPT !.paused = TRUE]
  /\ history' = [history EXCEPT !.signers = @ \cup {signer},
                                !.paused = IF config.paused THEN @ ELSE now]
  /\ UNCHANGED <<timelocks, now>>

\* update_whitelisted_token_mint, see ZynkConfig.
UpdateMints(signer, mint) ==
  /\ AddTokenMint(signer, mint) \/ RemoveTokenMint(signer, mint)
  /\ Signed(signer)
  /\ UNCHANGED <<timelocks, now>>

Tick ==
  /\ now < MaxTime
  /\ now' = now + 1
  /\ UNCHANGED <<config, timelocks, history>>

Next ==
  \/ Tick
  \/ \E signer \in Keys, roles \in RoleSets, mints \in SUBSET Mints :
       Start(signer, roles, mints)
  \/ \E signer \in Keys, action \in InPlay :
       \/ \E value \in Keys \cup {Null} : RequestTimelock(signer, action, value)
       \/ RevokeTimelock(signer, action)
       \/ AckTimelock(signer, action)
       \/ ExecuteRequest(signer, action)
  \/ \E signer \in Keys :
       \/ Unpause(signer)
       \/ Pause(signer)
       \/ \E mint \in Mints : UpdateMints(signer, mint)

Spec == Init /\ [][Next]_vars
-----------------------------------------------------------------------------
(***************************************************************************)
(* Properties.                                                             *)
(***************************************************************************)

\* Types; in particular no role is ever given to the null address.
TypeOK ==
  /\ config \in Config \cup {None}
  /\ timelocks \in [TimelockAction -> Timelock \cup {None}]
  /\ now \in Nat
  /\ history \in History

\* What a pending request records is true: its author and its acknowledger are
\* two keys that did sign, its eta is its delay after the request, and the
\* acknowledger saw the value it carries.
SlotsTruthful ==
  \A action \in TimelockAction : Pending(action) =>
    LET slot == timelocks[action]
    IN  /\ Initialized
        /\ slot.req_by \in history.signers
        /\ slot.eta = history.asked[action] + Delay[action]
        /\ Acked(action) => /\ slot.ack_by \in history.signers
                            /\ slot.ack_by # slot.req_by
                            /\ history.agreed[action] = slot.value

\* One key alone, whatever roles it holds and however long it waits, never
\* changes who holds which role: it takes a requester and another executor.
OneKeyChangesNoRole ==
  \A key \in Keys : Initialized /\ history.signers \subseteq {key} =>
    RolesOf(config) = history.genesis

\* Two keys alone never replace the guardian (requester, acknowledger and
\* executor are three keys), so admin and manager cannot get rid of it.
TwoKeysKeepGuardian ==
  \A key1, key2 \in Keys :
    Initialized /\ history.signers \subseteq {key1, key2} =>
      config.guardian = history.genesis.guardian

\* A role passes only to the key that was asked for, and only after the delay
\* of its action has passed since the request or, except for the guardian, a
\* second key has agreed to this very key.
RoleChangeReviewed(action) ==
  LET waited == now - history.asked[action] >= Delay[action]
      agreed == history.agreed[action] = timelocks[action].value
  IN  /\ timelocks[action].value \in {config'.admin, config'.manager, config'.guardian}
      /\ waited \/ agreed
      /\ config'.guardian # config.guardian => waited /\ agreed

RoleChangesReviewed ==
  [][\A action \in TimelockAction :
       Initialized /\ RolesOf(config') # RolesOf(config)
         /\ Pending(action) /\ ~Pending(action)' => RoleChangeReviewed(action)]_vars

\* A pause lasts: it is lifted early only if a second key acknowledged the
\* request to unpause, or the request was already waiting when the pause began.
PauseHolds ==
  [][Initialized /\ config.paused /\ ~config'.paused =>
       \/ now - history.paused >= Delay["Unpause"]
       \/ Acked("Unpause")
       \/ history.asked["Unpause"] <= history.paused]_vars
=============================================================================
