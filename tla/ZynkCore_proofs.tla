--------------------------- MODULE ZynkCore_proofs --------------------------
(***************************************************************************)
(* Proofs about Governance, and then about the whole of zynk-core, for any *)
(* keys, delays and length of time.  The inductive invariant of Governance *)
(* is TypeOK /\ SlotsTruthful /\ the two statements about few keys: an     *)
(* execution by one more key than has signed so far is impossible because  *)
(* the slot's two signers are among those counted.  The whole implements   *)
(* both of its parts, so what is shown of Governance holds of it; with     *)
(* that, one key that is manager can never have allowed a payee.           *)
(***************************************************************************)
EXTENDS ZynkCore, TLAPS

\* A step keeps the types: whatever a handler writes is of its field's type.
LEMMA TypeCorrectStep == TypeOK /\ [Next]_vars => TypeOK'
<1> SUFFICES ASSUME TypeOK, [Next]_vars PROVE TypeOK'
  OBVIOUS
<1> USE DEF TypeOK
<1>1. ASSUME Tick PROVE TypeOK'
  BY <1>1 DEF Tick
<1>2. ASSUME NEW signer \in Keys, NEW roles \in RoleSets,
             NEW mints \in SUBSET Mints, Start(signer, roles, mints)
      PROVE TypeOK'
  <2>1. roles \in Roles
    BY GovernanceAssumption DEF Roles
  <2>2. config' \in Config
    BY <1>2, <2>1 DEF Start, Initialize, Config, Roles
  <2>3. RolesOf(config') \in Roles
    BY <2>2 DEF RolesOf, Config, Roles
  <2>4. QED
    BY <1>2, <2>2, <2>3 DEF Start, History
<1>3. ASSUME NEW signer \in Keys, NEW action \in TimelockAction,
             NEW value \in Keys \cup {Null}, RequestTimelock(signer, action, value)
      PROVE TypeOK'
  <2>1. now + Delay[action] \in Nat
    BY GovernanceAssumption
  <2>2. [value |-> value, eta |-> now + Delay[action],
         req_by |-> signer, ack_by |-> None] \in Timelock
    BY <2>1 DEF Timelock
  <2>3. history' \in History
    BY <1>3 DEF RequestTimelock, History
  <2>4. QED
    BY <1>3, <2>2, <2>3 DEF RequestTimelock
<1>4. ASSUME NEW signer \in Keys, NEW action \in TimelockAction,
             RevokeTimelock(signer, action)
      PROVE TypeOK'
  BY <1>4 DEF RevokeTimelock, Signed, History
<1>5. ASSUME NEW signer \in Keys, NEW action \in TimelockAction,
             AckTimelock(signer, action)
      PROVE TypeOK'
  <2>1. timelocks[action] \in Timelock
    BY <1>5 DEF AckTimelock, MaySign, Pending
  <2>2. [timelocks[action] EXCEPT !.ack_by = signer] \in Timelock
    BY <2>1 DEF Timelock
  <2>3. history' \in History
    BY <1>5, <2>1 DEF AckTimelock, History, Timelock
  <2>4. QED
    BY <1>5, <2>2, <2>3 DEF AckTimelock
<1>6. ASSUME NEW signer \in Keys, NEW action \in TimelockAction,
             ExecuteRequest(signer, action)
      PROVE TypeOK'
  <2>1. timelocks[action] \in Timelock /\ config \in Config
    BY <1>6 DEF ExecuteRequest, MaySign, Pending, IsAdminOrGuardian, Initialized
  <2>2. timelocks[action].value \in Keys
    BY <1>6, <2>1 DEF ValueGiven, ExecuteRequest, Timelock
  <2>3. config' \in Config
    BY <1>6, <2>1, <2>2 DEF ExecuteRequest, Config
  <2>4. QED
    BY <1>6, <2>3 DEF ExecuteRequest, Signed, History
<1>7. ASSUME NEW signer \in Keys, Unpause(signer) PROVE TypeOK'
  <2>1. config \in Config
    BY <1>7 DEF Unpause, MaySign, IsAdminOrGuardian, Initialized
  <2>2. config' \in Config
    BY <1>7, <2>1 DEF Unpause, Config
  <2>3. QED
    BY <1>7, <2>2 DEF Unpause, Signed, History, TimelockAction
<1>8. ASSUME NEW signer \in Keys, Pause(signer) PROVE TypeOK'
  <2>1. config \in Config
    BY <1>8 DEF Pause, IsAdminOrManager, Initialized
  <2>2. config' \in Config
    BY <1>8, <2>1 DEF Pause, Config
  <2>3. QED
    BY <1>8, <2>2 DEF Pause, History
<1>9. ASSUME NEW signer \in Keys, NEW mint \in Mints, UpdateMints(signer, mint)
      PROVE TypeOK'
  <2>1. config \in Config
    BY <1>9 DEF UpdateMints, AddTokenMint, RemoveTokenMint, IsAdminOrGuardian, Initialized
  <2>2. config' \in Config
    BY <1>9, <2>1 DEF UpdateMints, AddTokenMint, RemoveTokenMint, Config
  <2>3. QED
    BY <1>9, <2>2 DEF UpdateMints, Signed, History
<1>10. CASE UNCHANGED vars
  BY <1>10 DEF vars
<1>11. QED
  BY <1>1, <1>2, <1>3, <1>4, <1>5, <1>6, <1>7, <1>8, <1>9, <1>10, GovernanceAssumption
  DEF Next

\* The Config account is never closed.
LEMMA StaysInitialized == TypeOK /\ Initialized /\ [Next]_vars => Initialized'
<1> SUFFICES ASSUME TypeOK, Initialized, [Next]_vars PROVE Initialized'
  OBVIOUS
<1>1. config \in Config
  BY DEF TypeOK, Initialized
<1>2. ASSUME NEW action \in TimelockAction, NEW signer \in Keys,
             ExecuteRequest(signer, action)
      PROVE config' \in Config
  <2>1. timelocks[action].value \in Keys
    BY <1>2 DEF ValueGiven, ExecuteRequest, MaySign, Pending, TypeOK, Timelock
  <2>2. QED
    BY <1>1, <1>2, <2>1 DEF ExecuteRequest, Config
<1>3. ASSUME NEW signer \in Keys, Unpause(signer) \/ Pause(signer)
      PROVE config' \in Config
  BY <1>1, <1>3 DEF Unpause, Pause, Config
<1>4. ASSUME NEW signer \in Keys, NEW mint \in Mints, UpdateMints(signer, mint)
      PROVE config' \in Config
  BY <1>1, <1>4 DEF UpdateMints, AddTokenMint, RemoveTokenMint, Config
<1>5. CASE config' = config
  BY <1>5 DEF Initialized
<1>6. QED
  BY <1>2, <1>3, <1>4, <1>5, NoneIsNoConfig, GovernanceAssumption
  DEF Next, vars, Initialized, Start, Initialize, Tick, RequestTimelock,
      RevokeTimelock, AckTimelock

\* Every reachable state has the declared types.
THEOREM TypeCorrect == Spec => []TypeOK
<1>1. Init => TypeOK
  BY GovernanceAssumption DEF Init, TypeOK, History
<1>2. QED
  BY <1>1, TypeCorrectStep, PTL DEF Spec
-----------------------------------------------------------------------------
\* What a pending request records is true, in every reachable state.
THEOREM SlotsAlwaysTruthful == Spec => []SlotsTruthful
<1>1. Init => SlotsTruthful
  BY DEF Init, SlotsTruthful, Pending
<1>2. TypeOK /\ SlotsTruthful /\ [Next]_vars => SlotsTruthful'
  <2> SUFFICES ASSUME TypeOK, SlotsTruthful, [Next]_vars,
                      NEW a \in TimelockAction, Pending(a)'
               PROVE  /\ Initialized'
                      /\ timelocks'[a].req_by \in history'.signers
                      /\ timelocks'[a].eta = history'.asked[a] + Delay[a]
                      /\ timelocks'[a].ack_by # None =>
                           /\ timelocks'[a].ack_by \in history'.signers
                           /\ timelocks'[a].ack_by # timelocks'[a].req_by
                           /\ history'.agreed[a] = timelocks'[a].value
    BY DEF SlotsTruthful, Acked
  <2> DEFINE Truthful ==
        Pending(a) => /\ Initialized
                      /\ timelocks[a].req_by \in history.signers
                      /\ timelocks[a].eta = history.asked[a] + Delay[a]
                      /\ timelocks[a].ack_by # None =>
                           /\ timelocks[a].ack_by \in history.signers
                           /\ timelocks[a].ack_by # timelocks[a].req_by
                           /\ history.agreed[a] = timelocks[a].value
  <2>0. Truthful
    BY DEF SlotsTruthful, Acked
  <2>live. Initialized => Initialized'
    BY StaysInitialized
  <2> USE DEF TypeOK, Pending
  <2>1. CASE Tick
    BY <2>0, <2>1 DEF Tick, Initialized
  <2>2. ASSUME NEW signer \in Keys, NEW roles \in RoleSets,
               NEW mints \in SUBSET Mints, Start(signer, roles, mints)
        PROVE FALSE
    BY <2>0, <2>2 DEF Start, Initialize, Initialized
  <2>3. ASSUME NEW signer \in Keys, NEW action \in TimelockAction,
               NEW value \in Keys \cup {Null}, RequestTimelock(signer, action, value)
        PROVE Truthful'
    <3>1. Initialized'
      BY <2>3 DEF RequestTimelock, IsAdminOrManager, Initialized
    <3>2. history'.signers = history.signers \cup {signer}
      BY <2>3 DEF RequestTimelock, History
    <3>3. CASE a = action
      BY <2>3, <3>1, <3>2, <3>3 DEF RequestTimelock, History
    <3>4. CASE a # action
      BY <2>0, <2>3, <3>1, <3>2, <3>4 DEF RequestTimelock, History
    <3>5. QED
      BY <3>3, <3>4
  <2>4. ASSUME NEW signer \in Keys, NEW action \in TimelockAction,
               RevokeTimelock(signer, action)
        PROVE Truthful'
    BY <2>0, <2>4 DEF RevokeTimelock, Signed, History, Initialized
  <2>5. ASSUME NEW signer \in Keys, NEW action \in TimelockAction,
               AckTimelock(signer, action)
        PROVE Truthful'
    <3>1. Initialized'
      BY <2>5 DEF AckTimelock, MaySign, IsAdminOrGuardian, Initialized
    <3>2. history'.signers = history.signers \cup {signer} /\ history'.asked = history.asked
      BY <2>5 DEF AckTimelock, History
    <3>3. CASE a = action
      <4>1. timelocks[a] \in Timelock
        BY <2>5, <3>3 DEF AckTimelock, MaySign
      <4>2. timelocks'[a] = [timelocks[a] EXCEPT !.ack_by = signer]
        BY <2>5, <3>3 DEF AckTimelock
      <4>3. history'.agreed[a] = timelocks[a].value
        BY <2>5, <3>3 DEF AckTimelock, History
      <4>4. QED
        BY <2>0, <2>5, <3>1, <3>2, <3>3, <4>1, <4>2, <4>3
        DEF NotRequester, AckTimelock, Timelock, MaySign
    <3>4. CASE a # action
      BY <2>0, <2>5, <3>1, <3>2, <3>4 DEF AckTimelock, History
    <3>5. QED
      BY <3>3, <3>4
  <2>6. ASSUME NEW signer \in Keys, NEW action \in TimelockAction,
               ExecuteRequest(signer, action)
        PROVE Truthful'
    BY <2>0, <2>6, <2>live DEF ExecuteRequest, Signed, History
  <2>7. ASSUME NEW signer \in Keys, Unpause(signer) PROVE Truthful'
    BY <2>0, <2>7, <2>live DEF Unpause, Signed, History
  <2>8. ASSUME NEW signer \in Keys, Pause(signer) PROVE Truthful'
    BY <2>0, <2>8, <2>live DEF Pause, History
  <2>9. ASSUME NEW signer \in Keys, NEW mint \in Mints, UpdateMints(signer, mint)
        PROVE Truthful'
    BY <2>0, <2>9, <2>live DEF UpdateMints, Signed, History
  <2>10. CASE UNCHANGED vars
    BY <2>0, <2>10 DEF vars, Initialized
  <2>11. QED
    BY <2>1, <2>2, <2>3, <2>4, <2>5, <2>6, <2>7, <2>8, <2>9, <2>10, GovernanceAssumption
    DEF Next, Initialized
<1>3. QED
  BY <1>1, <1>2, TypeCorrect, PTL DEF Spec
-----------------------------------------------------------------------------
\* Only `initialize` sets the genesis, and only it and an execution by a key
\* other than the requester and the acknowledger touch a role.
LEMMA RolesChangeByExecution ==
  ASSUME TypeOK, SlotsTruthful, [Next]_vars, Initialized
  PROVE  /\ history.signers \subseteq history'.signers
         /\ history'.genesis = history.genesis
         /\ \/ RolesOf(config') = RolesOf(config)
            \/ \E signer \in Keys, action \in TimelockAction :
                 /\ ExecuteRequest(signer, action)
                 /\ {signer, timelocks[action].req_by} \subseteq history'.signers
<1>1. config \in Config
  BY DEF TypeOK, Initialized
<1>2. ASSUME NEW signer \in Keys, NEW action \in TimelockAction,
             ExecuteRequest(signer, action)
      PROVE  /\ history'.signers = history.signers \cup {signer}
             /\ history'.genesis = history.genesis
             /\ timelocks[action].req_by \in history.signers
  BY <1>2 DEF ExecuteRequest, Signed, TypeOK, History, SlotsTruthful, MaySign
<1>3. CASE Tick \/ UNCHANGED vars
  BY <1>3 DEF Tick, vars
<1>4. ASSUME NEW signer \in Keys, NEW action \in TimelockAction,
             \/ \E value \in Keys \cup {Null} : RequestTimelock(signer, action, value)
             \/ RevokeTimelock(signer, action)
             \/ AckTimelock(signer, action)
      PROVE  /\ history.signers \subseteq history'.signers
             /\ history'.genesis = history.genesis
             /\ RolesOf(config') = RolesOf(config)
  <2>1. config' = config
    BY <1>4 DEF RequestTimelock, RevokeTimelock, AckTimelock
  <2>2. CASE \E value \in Keys \cup {Null} : RequestTimelock(signer, action, value)
    BY <2>1, <2>2 DEF RequestTimelock, TypeOK, History
  <2>3. CASE RevokeTimelock(signer, action)
    BY <2>1, <2>3 DEF RevokeTimelock, Signed, TypeOK, History
  <2>4. CASE AckTimelock(signer, action)
    BY <2>1, <2>4 DEF AckTimelock, TypeOK, History
  <2>5. QED
    BY <1>4, <2>2, <2>3, <2>4
<1>5. ASSUME NEW signer \in Keys,
             \/ Unpause(signer)
             \/ Pause(signer)
             \/ \E mint \in Mints : UpdateMints(signer, mint)
      PROVE  /\ history.signers \subseteq history'.signers
             /\ history'.genesis = history.genesis
             /\ RolesOf(config') = RolesOf(config)
  BY <1>1, <1>5 DEF Unpause, Pause, UpdateMints, AddTokenMint, RemoveTokenMint,
                    Signed, TypeOK, History, RolesOf, Config
<1>6. QED
  <2>1. CASE \E signer \in Keys, action \in TimelockAction :
               ExecuteRequest(signer, action)
    BY <1>2, <2>1
  <2>2. CASE ~\E signer \in Keys, action \in TimelockAction :
                ExecuteRequest(signer, action)
    BY <1>3, <1>4, <1>5, <2>2, GovernanceAssumption
    DEF Next, Start, Initialize, Initialized
  <2>3. QED
    BY <2>1, <2>2

\* One key alone never changes who holds which role.
THEOREM OneKeyTheorem == Spec => []OneKeyChangesNoRole
<1>1. Init => OneKeyChangesNoRole
  BY DEF Init, OneKeyChangesNoRole, Initialized
<1>2. TypeOK /\ SlotsTruthful /\ OneKeyChangesNoRole /\ [Next]_vars
        => OneKeyChangesNoRole'
  <2> SUFFICES ASSUME TypeOK, SlotsTruthful, OneKeyChangesNoRole, [Next]_vars,
                      NEW key \in Keys, Initialized',
                      history'.signers \subseteq {key}
               PROVE RolesOf(config') = history'.genesis
    BY DEF OneKeyChangesNoRole
  <2>1. CASE ~Initialized
    <3>1. PICK signer \in Keys, roles \in RoleSets, mints \in SUBSET Mints :
            Start(signer, roles, mints)
      BY <2>1 DEF Next, vars, Initialized, Tick, RequestTimelock, RevokeTimelock,
                  AckTimelock, ExecuteRequest, Unpause, Pause, UpdateMints, AddTokenMint,
                  RemoveTokenMint, MaySign, IsAdminOrManager, IsAdminOrGuardian
    <3>2. QED
      BY <3>1 DEF Start, TypeOK, History
  <2>2. CASE Initialized
    <3>1. history.signers \subseteq {key} /\ history'.genesis = history.genesis
      BY <2>2, RolesChangeByExecution
    <3>2. RolesOf(config') = RolesOf(config)
      BY <2>2, RolesChangeByExecution DEF NotRequester, ExecuteRequest
    <3>3. QED
      BY <2>2, <3>1, <3>2 DEF OneKeyChangesNoRole
  <2>3. QED
    BY <2>1, <2>2
<1>3. QED
  BY <1>1, <1>2, TypeCorrect, SlotsAlwaysTruthful, PTL DEF Spec

\* Two keys alone never replace the guardian.
THEOREM TwoKeysTheorem == Spec => []TwoKeysKeepGuardian
<1>1. Init => TwoKeysKeepGuardian
  BY DEF Init, TwoKeysKeepGuardian, Initialized
<1>2. TypeOK /\ SlotsTruthful /\ TwoKeysKeepGuardian /\ [Next]_vars
        => TwoKeysKeepGuardian'
  <2> SUFFICES ASSUME TypeOK, SlotsTruthful, TwoKeysKeepGuardian, [Next]_vars,
                      NEW key1 \in Keys, NEW key2 \in Keys, Initialized',
                      history'.signers \subseteq {key1, key2}
               PROVE config'.guardian = history'.genesis.guardian
    BY DEF TwoKeysKeepGuardian
  <2>1. CASE ~Initialized
    <3>1. PICK signer \in Keys, roles \in RoleSets, mints \in SUBSET Mints :
            Start(signer, roles, mints)
      BY <2>1 DEF Next, vars, Initialized, Tick, RequestTimelock, RevokeTimelock,
                  AckTimelock, ExecuteRequest, Unpause, Pause, UpdateMints, AddTokenMint,
                  RemoveTokenMint, MaySign, IsAdminOrManager, IsAdminOrGuardian
    <3>2. QED
      BY <3>1 DEF Start, TypeOK, History, RolesOf
  <2>2. CASE Initialized
    <3>1. /\ history.signers \subseteq {key1, key2}
          /\ history'.genesis = history.genesis
          /\ config.guardian = history.genesis.guardian
      BY <2>2, RolesChangeByExecution DEF TwoKeysKeepGuardian
    <3>2. ASSUME NEW signer \in Keys, NEW action \in TimelockAction,
                 ExecuteRequest(signer, action)
          PROVE config'.guardian = config.guardian
      <4>1. config \in Config
        BY <2>2 DEF TypeOK, Initialized
      <4>2. CASE action = "UpdateGuardian"
        <5>1. /\ timelocks[action].req_by \in history.signers
              /\ timelocks[action].ack_by \in history.signers
              /\ timelocks[action].ack_by # timelocks[action].req_by
          BY <3>2, <4>2 DEF ExecuteRequest, Reviewed, MaySign, SlotsTruthful
        <5>2. signer \in history'.signers
          BY <3>2 DEF ExecuteRequest, Signed, TypeOK, History
        <5>3. signer \notin {timelocks[action].req_by, timelocks[action].ack_by}
          BY <3>2 DEF NotRequester, NotAcker, ExecuteRequest
        <5>4. QED
          BY <3>1, <5>1, <5>2, <5>3
      <4>3. CASE action # "UpdateGuardian"
        BY <3>2, <4>1, <4>3 DEF ExecuteRequest, Config
      <4>4. QED
        BY <4>2, <4>3
    <3>3. CASE RolesOf(config') = RolesOf(config)
      BY <3>1, <3>3 DEF RolesOf
    <3>4. QED
      BY <2>2, <3>1, <3>2, <3>3, RolesChangeByExecution
  <2>3. QED
    BY <2>1, <2>2
<1>3. QED
  BY <1>1, <1>2, TypeCorrect, SlotsAlwaysTruthful, PTL DEF Spec
-----------------------------------------------------------------------------
\* A pause is lifted early only by two keys or by a request that preceded it.
THEOREM PauseTheorem == Spec => PauseHolds
<1>1. ASSUME TypeOK, SlotsTruthful, [Next]_vars
      PROVE Initialized /\ config.paused /\ ~config'.paused =>
              \/ now - history.paused >= Delay["Unpause"]
              \/ Acked("Unpause")
              \/ history.asked["Unpause"] <= history.paused
  <2> SUFFICES ASSUME Initialized, config.paused, ~config'.paused, ~Acked("Unpause")
               PROVE  \/ now - history.paused >= Delay["Unpause"]
                      \/ history.asked["Unpause"] <= history.paused
    OBVIOUS
  <2>1. config \in Config
    BY <1>1 DEF TypeOK, Initialized
  <2>2. PICK signer \in Keys : Unpause(signer)
    BY <1>1, <2>1 DEF Next, vars, Config, Tick, Start, Initialize, Initialized,
       RequestTimelock, RevokeTimelock, AckTimelock, ExecuteRequest, Pause,
       UpdateMints, AddTokenMint, RemoveTokenMint
  <2>3. now >= history.asked["Unpause"] + Delay["Unpause"]
    BY <1>1, <2>2 DEF Unpause, UnpauseReady, MaySign, EtaReady, SlotsTruthful, TimelockAction
  <2>4. /\ now \in Nat /\ history.paused \in Nat
        /\ history.asked["Unpause"] \in Nat /\ Delay["Unpause"] \in Nat
    BY <1>1, GovernanceAssumption DEF TypeOK, History, TimelockAction
  <2>5. QED
    BY <2>3, <2>4
<1>2. QED
  BY <1>1, TypeCorrect, SlotsAlwaysTruthful, PTL DEF Spec, PauseHolds

\* A role passes only to the key asked for, after its delay or with a second
\* key's consent to that key; the guardian's only with both.
THEOREM ReviewTheorem == Spec => RoleChangesReviewed
<1>1. ASSUME TypeOK, SlotsTruthful, [Next]_vars, NEW action \in TimelockAction,
             Initialized, RolesOf(config') # RolesOf(config),
             Pending(action), ~Pending(action)'
      PROVE RoleChangeReviewed(action)
  <2>1. config \in Config /\ timelocks[action] \in Timelock
    BY <1>1 DEF TypeOK, Initialized, Pending
  <2>2. PICK signer \in Keys, other \in TimelockAction : ExecuteRequest(signer, other)
    BY <1>1, RolesChangeByExecution
  <2>3. other = action
    BY <1>1, <2>2 DEF ExecuteRequest, Pending, TypeOK
  <2>4. EtaReady(action) => now - history.asked[action] >= Delay[action]
    BY <1>1, <2>1, GovernanceAssumption
    DEF EtaReady, SlotsTruthful, TypeOK, History
  <2>5. Acked(action) => history.agreed[action] = timelocks[action].value
    BY <1>1 DEF SlotsTruthful
  <2>6. timelocks[action].value \in {config'.admin, config'.manager, config'.guardian}
    BY <2>1, <2>2, <2>3 DEF ExecuteRequest, Config
  <2>7. config'.guardian # config.guardian => action = "UpdateGuardian"
    BY <2>1, <2>2, <2>3 DEF ExecuteRequest, Config
  <2>8. QED
    BY <2>2, <2>3, <2>4, <2>5, <2>6, <2>7
    DEF ExecuteRequest, Reviewed, RoleChangeReviewed
<1>2. TypeOK /\ SlotsTruthful /\ [Next]_vars =>
        \A action \in TimelockAction :
          Initialized /\ RolesOf(config') # RolesOf(config)
            /\ Pending(action) /\ ~Pending(action)' => RoleChangeReviewed(action)
  BY <1>1
<1>3. QED
  BY <1>2, TypeCorrect, SlotsAlwaysTruthful, PTL DEF Spec, RoleChangesReviewed
-----------------------------------------------------------------------------
(***************************************************************************)
(* The whole of zynk-core.                                                 *)
(***************************************************************************)

\* Instructions on orders do not write the Config account.
LEMMA OrdersKeepConfig ==
  ASSUME \/ \E signer \in Keys : Operate(signer)
         \/ Surroundings
  PROVE  UNCHANGED vars
<1>1. ASSUME NEW signer \in Keys, Operate(signer)
      PROVE  UNCHANGED vars
  <2>1. CASE Orders!BeneficiarySteps(signer)
    BY <1>1, <2>1
    DEF Operate, governanceVars, vars, Orders!BeneficiarySteps,
        Orders!WhitelistBeneficiary, Orders!ToggleBeneficiary, Orders!RevokeBeneficiary
  <2>2. CASE Orders!CreateSteps(signer)
    <3>1. ASSUME NEW key, NEW zov, NEW mint, NEW transient, NEW amount, NEW byOrbit,
                 NEW wallet, NEW meta, NEW borrowed,
                 \/ Orders!CreateOrder(signer, byOrbit, key, zov, wallet, mint, transient,
                                       amount, meta, borrowed)
                 \/ Orders!PullAndCreateOrder(signer, key, zov, wallet, mint, transient,
                                              amount)
          PROVE  config' = config
      BY <3>1, Zenon DEF Orders!CreateOrder, Orders!CreateOrderFrom, Orders!PullAndCreateOrder
    <3>2. config' = config
      BY <2>2, <3>1, Zenon DEF Orders!CreateSteps
    <3>3. QED
      BY <1>1, <3>2 DEF Operate, governanceVars, vars
  <2>3. CASE Orders!SettleSteps(signer)
    BY <1>1, <2>3
    DEF Operate, governanceVars, vars, Orders!SettleSteps, Orders!Replenish,
        Orders!RecordOrder
  <2>4. CASE Orders!CloseSteps(signer)
    BY <1>1, <2>4
    DEF Operate, governanceVars, vars, Orders!CloseSteps, Orders!CloseOrders
  <2>5. QED
    BY <1>1, <2>1, <2>2, <2>3, <2>4 DEF Operate
<1>2. CASE Surroundings
  BY <1>2
  DEF Surroundings, governanceVars, vars, Orders!OrbitNext, Orders!ReplenishAndRepay,
      Orders!TransferNext, Orders!OutsideTransfer
<1>3. QED
  BY <1>1, <1>2

\* As far as governance can see, the program takes only governance's steps.
THEOREM GovernanceTheorem == ZynkSpec => Spec
<1>1. ZynkInit => Init
  BY DEF ZynkInit
<1>2. [ZynkNext]_zynkVars => [Next]_vars
  BY OrdersKeepConfig DEF ZynkNext, Govern, zynkVars
<1>3. QED
  BY <1>1, <1>2, PTL DEF ZynkSpec, Spec
-----------------------------------------------------------------------------
\* Each step of governance is one that the order book's specification allows.
LEMMA GovernStep ==
  ASSUME TypeOK, Govern
  PROVE  Orders!Next \/ UNCHANGED Orders!vars
<1> USE DEF Orders!orderVars, Orders!vars, Orders!Initialized, Initialized
<1>1. UNCHANGED Orders!orderVars
  BY DEF Govern, bookVars
<1>2. ASSUME config' = config
      PROVE  UNCHANGED Orders!vars
  BY <1>1, <1>2
<1>3. ASSUME NEW signer \in Keys, NEW roles \in RoleSets, NEW mints \in SUBSET Mints,
             Start(signer, roles, mints)
      PROVE  Orders!ConfigNext
  <2>1. roles \in Roles /\ Mints \in SUBSET Mints
    BY GovernanceAssumption DEF Roles
  <2>2. Orders!Initialize(signer, roles.admin, roles.guardian, mints, Mints)
    BY <1>3 DEF Start, Initialize, Orders!Initialize, NotFeeBearing, Orders!NotFeeBearing
  <2>3. QED
    BY <2>1, <2>2 DEF Orders!ConfigNext
<1>4. ASSUME NEW signer \in Keys, NEW mint \in Mints, UpdateMints(signer, mint)
      PROVE  Orders!ConfigNext
  <2>1. Orders!AddTokenMint(signer, mint) \/ Orders!RemoveTokenMint(signer, mint)
    BY <1>4
    DEF UpdateMints, AddTokenMint, RemoveTokenMint, Orders!AddTokenMint,
        Orders!RemoveTokenMint, IsAdminOrGuardian, Orders!IsAdminOrGuardian,
        NotFeeBearing, Orders!NotFeeBearing
  <2>2. QED
    BY <2>1 DEF Orders!ConfigNext
<1>5. ASSUME Initialized, config \in Config, config' \in Config, config'.mints = config.mints
      PROVE  \E roles \in Roles, paused \in BOOLEAN : Orders!GovernanceStep(roles, paused)
  <2>1. RolesOf(config') \in Roles /\ config'.paused \in BOOLEAN
    BY <1>5 DEF Config, Roles, RolesOf
  <2>2. config' = [config EXCEPT !.manager = config'.manager, !.admin = config'.admin,
                                 !.guardian = config'.guardian, !.paused = config'.paused]
    BY <1>5 DEF Config
  <2>3. Orders!GovernanceStep(RolesOf(config'), config'.paused)
    BY <1>1, <1>5, <2>2 DEF Orders!GovernanceStep, RolesOf
  <2>4. QED
    BY <2>1, <2>3
<1>6. ASSUME NEW signer \in Keys,
             \/ Unpause(signer) \/ Pause(signer)
             \/ \E action \in TimelockAction : ExecuteRequest(signer, action)
      PROVE  \E roles \in Roles, paused \in BOOLEAN : Orders!GovernanceStep(roles, paused)
  <2>1. Initialized /\ config \in Config
    BY <1>6
    DEF TypeOK, Unpause, Pause, ExecuteRequest, MaySign, IsAdminOrGuardian, IsAdminOrManager
  <2>2. config' \in Config /\ config'.mints = config.mints
    <3>1. CASE Unpause(signer) \/ Pause(signer)
      BY <2>1, <3>1 DEF Unpause, Pause, Config
    <3>2. ASSUME NEW action \in TimelockAction, ExecuteRequest(signer, action)
          PROVE  config' \in Config /\ config'.mints = config.mints
      <4>1. timelocks[action].value \in Keys
        BY <3>2 DEF ExecuteRequest, MaySign, Pending, ValueGiven, TypeOK, Timelock
      <4>2. QED
        BY <2>1, <3>2, <4>1 DEF ExecuteRequest, Config
    <3>3. QED
      BY <1>6, <3>1, <3>2
  <2>3. QED
    BY <1>5, <2>1, <2>2
<1>7. ASSUME NEW signer \in Keys, NEW action \in TimelockAction,
             \/ \E value \in Keys \cup {Null} : RequestTimelock(signer, action, value)
             \/ RevokeTimelock(signer, action)
             \/ AckTimelock(signer, action)
      PROVE  config' = config
  BY <1>7 DEF RequestTimelock, RevokeTimelock, AckTimelock
<1>8. CASE Tick
  BY <1>2, <1>8 DEF Tick
<1>9. QED
  BY <1>1, <1>2, <1>3, <1>4, <1>6, <1>7, <1>8, GovernanceAssumption
  DEF Govern, Next, Orders!Next

\* The whole program implements the order book's specification, so what holds of that
\* one under governance that may do anything holds of the program.
THEOREM OrdersTheorem == ZynkSpec => OrdersImplemented
<1>1. ZynkInit => Orders!Init
  BY DEF ZynkInit
<1>2. TypeOK /\ [ZynkNext]_zynkVars => [Orders!Next]_Orders!vars
  <2> SUFFICES ASSUME TypeOK, [ZynkNext]_zynkVars
               PROVE  Orders!Next \/ UNCHANGED Orders!vars
    OBVIOUS
  <2>1. ASSUME NEW signer \in Keys, Operate(signer)
        PROVE  Orders!Next
    BY <2>1 DEF Operate, Orders!Next
  <2>2. CASE Surroundings
    BY <2>2 DEF Surroundings, Orders!Next
  <2>3. CASE UNCHANGED zynkVars
    BY <2>3 DEF zynkVars, vars, bookVars, Orders!vars, Orders!orderVars
  <2>4. QED
    BY <2>1, <2>2, <2>3, GovernStep DEF ZynkNext
<1>3. QED
  BY <1>1, <1>2, GovernanceTheorem, TypeCorrect, PTL
  DEF ZynkSpec, OrdersImplemented, Orders!Spec
-----------------------------------------------------------------------------
(***************************************************************************)
(* Four eyes.  NoPayee is what one key alone cannot end, if it is the      *)
(* manager; Shape, what it takes to see who gains by a step.               *)
(***************************************************************************)
NoPayee == \A pw \in Partners \X Wallets : beneficiaries[pw] = None

SoloInv ==
  /\ history.signers \subseteq signers
  /\ ~Initialized => NoPayee
  /\ \A key \in Keys :
       Separated /\ signers \subseteq {key} /\ key = history.genesis.manager => NoPayee

\* The role checks of the two instances of ZynkConfig are the same.
LEMMA SameChecks ==
  ASSUME NEW key
  PROVE  /\ Orders!IsManager(key) <=> IsManager(key)
         /\ Orders!IsAdminOrGuardian(key) <=> IsAdminOrGuardian(key)
BY DEF Orders!IsManager, IsManager, Orders!IsAdminOrGuardian, IsAdminOrGuardian,
       Orders!Initialized, Initialized

\* Only admin and guardian write the whitelist of beneficiaries.
LEMMA PayeesNeedAdmin ==
  ASSUME NEW signer \in Keys, Operate(signer), beneficiaries' # beneficiaries
  PROVE  IsAdminOrGuardian(signer)
<1>1. CASE Orders!BeneficiarySteps(signer)
  BY <1>1, SameChecks
  DEF Orders!BeneficiarySteps, Orders!WhitelistBeneficiary, Orders!ToggleBeneficiary,
      Orders!RevokeBeneficiary
<1>2. CASE Orders!CreateSteps(signer)
  <2>1. ASSUME NEW key, NEW zov, NEW mint, NEW transient, NEW amount, NEW byOrbit,
               NEW wallet, NEW meta, NEW borrowed,
               \/ Orders!CreateOrder(signer, byOrbit, key, zov, wallet, mint, transient,
                                     amount, meta, borrowed)
               \/ Orders!PullAndCreateOrder(signer, key, zov, wallet, mint, transient,
                                            amount)
        PROVE  beneficiaries' = beneficiaries
    BY <2>1, Zenon DEF Orders!CreateOrder, Orders!CreateOrderFrom, Orders!PullAndCreateOrder
  <2>2. QED
    BY <1>2, <2>1, Zenon DEF Orders!CreateSteps
<1>3. CASE Orders!SettleSteps(signer) \/ Orders!CloseSteps(signer)
  BY <1>3
  DEF Orders!SettleSteps, Orders!Replenish, Orders!RecordOrder, Orders!CloseSteps,
      Orders!CloseOrders
<1>4. QED
  BY <1>1, <1>2, <1>3 DEF Operate

\* Before initialization nothing can be signed but `initialize`.
LEMMA OperateNeedsConfig ==
  ASSUME NEW signer \in Keys, IsAdminOrGuardian(signer)
  PROVE  Initialized
BY DEF IsAdminOrGuardian

\* Nobody gives itself the second role, so SoloInv is preserved.
LEMMA SoloStep ==
  ASSUME TypeOK, SlotsTruthful, OneKeyChangesNoRole, SoloInv, [ZynkNext]_zynkVars
  PROVE  SoloInv'
<1>1. ASSUME NEW signer \in Keys, Operate(signer)
      PROVE  SoloInv'
  <2>1. UNCHANGED vars /\ signers' = signers \cup {signer}
    BY <1>1, OrdersKeepConfig DEF Operate
  <2>2. CASE beneficiaries' = beneficiaries
    BY <2>1, <2>2 DEF SoloInv, vars, NoPayee, Separated, Initialized
  <2>3. CASE beneficiaries' # beneficiaries
    <3>1. IsAdminOrGuardian(signer)
      BY <1>1, <2>3, PayeesNeedAdmin
    <3>2. ASSUME NEW key \in Keys, Separated, signers' \subseteq {key},
                 key = history.genesis.manager
          PROVE  FALSE
      <4>1. RolesOf(config) = history.genesis
        BY <2>1, <3>2 DEF OneKeyChangesNoRole, SoloInv, Separated
      <4>2. signer = key
        BY <2>1, <3>2
      <4>3. signer \in {history.genesis.admin, history.genesis.guardian}
        BY <3>1, <4>1 DEF IsAdminOrGuardian, RolesOf
      <4>4. QED
        BY <3>2, <4>2, <4>3 DEF Separated
    <3>3. QED
      BY <2>1, <3>1, <3>2, OperateNeedsConfig DEF SoloInv, vars, Separated, Initialized
  <2>4. QED
    BY <2>2, <2>3
<1>2. CASE Surroundings
  <2>1. UNCHANGED vars /\ UNCHANGED <<signers, beneficiaries>>
    BY <1>2, OrdersKeepConfig
    DEF Surroundings, Orders!OrbitNext, Orders!ReplenishAndRepay, Orders!TransferNext,
        Orders!OutsideTransfer
  <2>2. QED
    BY <2>1 DEF SoloInv, vars, NoPayee, Separated, Initialized
<1>3. CASE Govern
  <2>1. beneficiaries' = beneficiaries /\ signers' = signers \cup history'.signers
    BY <1>3 DEF Govern, bookVars
  <2>2. CASE Initialized
    <3>1. history'.genesis = history.genesis
      BY <1>3, <2>2, RolesChangeByExecution DEF Govern
    <3>2. Initialized' /\ (Separated' => Separated)
      BY <1>3, <2>2, <3>1, StaysInitialized DEF Govern, Separated
    <3>3. NoPayee' <=> NoPayee
      BY <2>1 DEF NoPayee
    <3>4. QED
      BY <2>1, <3>1, <3>2, <3>3 DEF SoloInv
  <2>3. CASE ~Initialized
    BY <2>1, <2>3 DEF SoloInv, NoPayee
  <2>4. QED
    BY <2>2, <2>3
<1>4. CASE UNCHANGED zynkVars
  BY <1>4 DEF zynkVars, vars, bookVars, SoloInv, NoPayee, Separated, Initialized
<1>5. QED
  BY <1>1, <1>2, <1>3, <1>4 DEF ZynkNext

\* One key that was manager from the start never allows a payee.
LEMMA SoloTheorem == ZynkSpec => []SoloInv
<1>1. ZynkInit => SoloInv
  BY DEF ZynkInit, Init, SoloInv, NoPayee, Initialized, Separated, Orders!Init
<1>2. QED
  BY <1>1, SoloStep, GovernanceTheorem, TypeCorrect, SlotsAlwaysTruthful, OneKeyTheorem,
     PTL DEF ZynkSpec
-----------------------------------------------------------------------------
\* Balances are numbers, and an open order's vault is a ZOV.
Funds == [Orders!Accounts -> [Mints -> Int]]
KnownVault(t) ==
  t # None => "zynk_op_vault" \in DOMAIN t /\ t.zynk_op_vault \in Zovs \cup {None}
Shape ==
  /\ bal \in Funds
  /\ orders = [key \in Orders!OrderKeys |-> orders[key]]
  /\ \A key \in Orders!OrderKeys : KnownVault(orders[key])

\* Amounts are numbers, no transfer creates any, and `None` is no account of theirs.
LEMMA AmountFacts ==
  /\ Orders!U64 \subseteq Nat
  /\ \A mint : \A amount \in Int : Orders!Arrives(mint, amount) \in Int
  /\ \A mint : \A amount \in Nat : Orders!Arrives(mint, amount) \in 0..amount
  /\ None \notin Zovs \cup Wallets \cup Orders!U64
  /\ Partners \cup Zovs \cup Wallets \cup Lenders = Orders!Accounts
  /\ Partners \cap Zovs = {}
<1>1. MaxU64 \in Nat
  BY ZynkAssumption DEF Orders!WidthAssumption
<1>2. QED
  BY <1>1, ZynkAssumption
  DEF Orders!U64, Orders!Arrives, Orders!OrdersAssumption, Orders!Accounts

\* An outsider owns no vault, and `None` is nobody.
LEMMA OutsidersAreNoVaults ==
  ASSUME NEW wallet \in Orders!Outsiders \ Lenders
  PROVE  wallet \in Orders!Accounts \ (Partners \cup Zovs \cup {None})
BY AmountFacts DEF Orders!Outsiders

\* A transfer pays nobody but its destination, and that no less than nothing.
LEMMA TransferEffect ==
  ASSUME NEW b \in Funds, NEW from \in Orders!Accounts, NEW to, NEW mint \in Mints,
         NEW amount \in Nat
  PROVE  /\ Orders!Transfer(b, from, to, mint, amount) \in Funds
         /\ \A owner \in Orders!Accounts, m \in Mints :
              owner # to => Orders!Transfer(b, from, to, mint, amount)[owner][m] <= b[owner][m]
<1> DEFINE debited == [b EXCEPT ![from][mint] = @ - amount]
<1>1. debited \in Funds
  BY DEF Funds
<1>2. \A owner \in Orders!Accounts, m \in Mints : debited[owner][m] <= b[owner][m]
  BY DEF Funds
<1>3. Orders!Arrives(mint, amount) \in Int
  BY AmountFacts
<1>4. Orders!Transfer(b, from, to, mint, amount)
        = [debited EXCEPT ![to][mint] = @ + Orders!Arrives(mint, amount)]
  BY DEF Orders!Transfer
<1> HIDE DEF debited
<1>5. [debited EXCEPT ![to][mint] = @ + Orders!Arrives(mint, amount)] \in Funds
  <2>1. CASE to \in Orders!Accounts
    <3>1. debited[to][mint] + Orders!Arrives(mint, amount) \in Int
      BY <1>1, <1>3, <2>1 DEF Funds
    <3>2. [debited[to] EXCEPT ![mint] = @ + Orders!Arrives(mint, amount)] \in [Mints -> Int]
      BY <1>1, <2>1, <3>1 DEF Funds
    <3>3. QED
      BY <1>1, <2>1, <3>2 DEF Funds
  <2>2. CASE to \notin Orders!Accounts
    BY <1>1, <2>2 DEF Funds
  <2>3. QED
    BY <2>1, <2>2
<1>6. \A owner \in Orders!Accounts :
        owner # to => Orders!Transfer(b, from, to, mint, amount)[owner] = debited[owner]
  BY <1>1, <1>4 DEF Funds
<1>7. QED
  BY <1>2, <1>4, <1>5, <1>6

\* A transfer leaves those it does not name alone.
LEMMA TransferFrame ==
  ASSUME NEW b \in Funds, NEW from \in Orders!Accounts, NEW to, NEW mint \in Mints,
         NEW amount \in Nat, NEW owner \in Orders!Accounts, owner # from, owner # to
  PROVE  Orders!Transfer(b, from, to, mint, amount)[owner] = b[owner]
<1> DEFINE debited == [b EXCEPT ![from][mint] = @ - amount]
<1>1. debited \in Funds /\ debited[owner] = b[owner]
  BY DEF Funds
<1>2. Orders!Transfer(b, from, to, mint, amount)
        = [debited EXCEPT ![to][mint] = @ + Orders!Arrives(mint, amount)]
  BY DEF Orders!Transfer
<1> HIDE DEF debited
<1>3. QED
  BY <1>1, <1>2 DEF Funds

\* Rewriting one tracker keeps the orders in shape if its vault stays.
LEMMA OneOrderChanges ==
  ASSUME Shape, NEW key \in Orders!OrderKeys, NEW t, KnownVault(t),
         orders' = [orders EXCEPT ![key] = t], bal' \in Funds
  PROVE  Shape'
BY DEF Shape

\* Rewriting amounts keeps a tracker's vault.
LEMMA AmountsChange ==
  ASSUME NEW t, KnownVault(t), t # None, NEW in, NEW out, NEW borrowed, NEW repaid
  PROVE  /\ KnownVault([t EXCEPT !.amount_in = in])
         /\ KnownVault([t EXCEPT !.amount_repaid = repaid, !.amount_in = in])
         /\ KnownVault([t EXCEPT !.amount_out = out, !.amount_borrowed = borrowed,
                                !.amount_repaid = repaid])
BY DEF KnownVault

\* A new tracker names the vault it is opened on.
LEMMA NewTracker ==
  ASSUME NEW zov \in Zovs \cup {None}, NEW wallet, NEW mint, NEW in, NEW out, NEW borrowed
  PROVE  KnownVault(Orders!OpenTracker(zov, wallet, mint, in, out, borrowed))
BY DEF KnownVault, Orders!OpenTracker

\* A closed order names none.
LEMMA NoTracker == KnownVault(None)
BY DEF KnownVault

\* What the creation of an order does to money and orders: a wallet that is paid is
\* an active beneficiary's.
LEMMA CreateEffect ==
  ASSUME TypeOK, Shape, NEW signer \in Keys, Orders!CreateSteps(signer)
  PROVE  /\ IsManager(signer)
         /\ Shape'
         /\ NoPayee => bal' = bal
<1>1. PICK key \in Orders!OrderKeys, zov \in Zovs, mint \in Mints, transient \in BOOLEAN,
           amount \in Orders!U64 :
        \/ \E byOrbit \in BOOLEAN, wallet \in Wallets \cup {None},
              meta \in Orders!U64 \cup {None}, borrowed \in Orders!U64 :
             Orders!CreateOrder(signer, byOrbit, key, zov, wallet, mint, transient,
                                amount, meta, borrowed)
        \/ \E wallet \in Wallets :
             Orders!PullAndCreateOrder(signer, key, zov, wallet, mint, transient, amount)
  BY Zenon DEF Orders!CreateSteps
<1>2. /\ zov \in Orders!Accounts /\ key[1] \in Orders!Accounts /\ amount \in Nat
      /\ key[1] \in Partners /\ bal \in Funds
  BY AmountFacts DEF Orders!OrderKeys, Shape
<1>3. ASSUME NEW byOrbit \in BOOLEAN, NEW wallet \in Wallets \cup {None},
             NEW meta \in Orders!U64 \cup {None}, NEW borrowed \in Orders!U64,
             Orders!CreateOrder(signer, byOrbit, key, zov, wallet, mint, transient,
                                amount, meta, borrowed)
      PROVE  /\ IsManager(signer)
             /\ Shape'
             /\ NoPayee => bal' = bal
  <2>1. /\ Orders!IsManager(signer)
        /\ wallet # None => Orders!Eligible(key[1], wallet, zov)
        /\ bal' = IF wallet = None THEN bal ELSE Orders!Transfer(bal, zov, wallet, mint, amount)
        /\ \/ UNCHANGED orders
           \/ \E out : orders' = [orders EXCEPT ![key] =
                          Orders!OpenTracker(zov, wallet, mint, 0, out, borrowed)]
    BY <1>3, Zenon DEF Orders!CreateOrder, Orders!CreateOrderFrom
  <2>2. bal' \in Funds
    BY <1>2, <2>1, TransferEffect
  <2>3. Shape'
    BY <2>1, <2>2, NewTracker, OneOrderChanges DEF Shape
  <2>4. NoPayee => wallet = None
    BY <1>2, <2>1 DEF NoPayee, Orders!Eligible
  <2>5. QED
    BY <2>1, <2>3, <2>4, SameChecks
<1>4. ASSUME NEW wallet \in Wallets,
             Orders!PullAndCreateOrder(signer, key, zov, wallet, mint, transient, amount)
      PROVE  /\ IsManager(signer)
             /\ Shape'
             /\ ~NoPayee
  <2> DEFINE pulled == Orders!Transfer(bal, key[1], zov, mint, amount)
  <2>1. /\ Orders!IsManager(signer)
        /\ Orders!Eligible(key[1], wallet, zov)
        /\ bal' = Orders!Transfer(pulled, zov, wallet, mint, amount)
        /\ \/ UNCHANGED orders
           \/ orders' = [orders EXCEPT ![key] =
                           Orders!OpenTracker(zov, wallet, mint, amount, amount, 0)]
    BY <1>4, Zenon DEF Orders!PullAndCreateOrder
  <2>2. pulled \in Funds
    BY <1>2, TransferEffect
  <2> HIDE DEF pulled
  <2>3. bal' \in Funds
    BY <1>2, <2>1, <2>2, TransferEffect
  <2>4. Shape'
    BY <2>1, <2>3, NewTracker, OneOrderChanges DEF Shape
  <2>5. ~NoPayee
    BY <1>2, <2>1 DEF NoPayee, Orders!Eligible
  <2>6. QED
    BY <2>1, <2>4, <2>5, SameChecks
<1>5. QED
  BY <1>1, <1>3, <1>4

\* A replenishment pays a ZOV, a booking nobody; both leave every wallet as it is.
LEMMA SettleEffect ==
  ASSUME TypeOK, Shape, NEW signer \in Keys, Orders!SettleSteps(signer)
  PROVE  /\ Shape'
         /\ \A wallet \in Orders!Outsiders \ Lenders : bal'[wallet] = bal[wallet]
<1>1. PICK key \in Orders!OrderKeys, amount \in Orders!U64 :
        \/ \E close \in BOOLEAN : Orders!Replenish(signer, key, amount, close)
        \/ Orders!RecordOrder(signer, key, amount)
  BY Zenon DEF Orders!SettleSteps
<1> DEFINE tracker == orders[key]
<1>2. /\ key[1] \in Partners /\ key[1] \in Orders!Accounts /\ amount \in Nat
      /\ bal \in Funds /\ KnownVault(tracker)
  BY AmountFacts DEF Orders!OrderKeys, Shape
<1> HIDE DEF tracker
<1>3. CASE \E close \in BOOLEAN : Orders!Replenish(signer, key, amount, close)
  <2> DEFINE paidIn == [tracker EXCEPT !.amount_in = @ + amount]
  <2>1. /\ Orders!Running
        /\ tracker # None
        /\ Orders!MintAllowed(tracker.mint)
        /\ bal' = Orders!Transfer(bal, key[1], tracker.zynk_op_vault, tracker.mint, amount)
        /\ \/ orders' = [orders EXCEPT ![key] = None]
           \/ orders' = [orders EXCEPT ![key] = paidIn]
    BY <1>3, Zenon
    DEF Orders!Replenish, Orders!ReplenishAccounts, Orders!Open, tracker
  <2>2. tracker.mint \in Mints
    BY <2>1
    DEF Orders!MintAllowed, Orders!Running, Orders!Initialized, TypeOK, Config
  <2>3. bal' \in Funds
    BY <1>2, <2>1, <2>2, TransferEffect
  <2>4. KnownVault(paidIn)
    BY <1>2, <2>1, AmountsChange
  <2> HIDE DEF paidIn
  <2>5. Shape'
    BY <2>1, <2>3, <2>4, NoTracker, OneOrderChanges
  <2>6. ASSUME NEW wallet \in Orders!Outsiders \ Lenders
        PROVE  bal'[wallet] = bal[wallet]
    <3>1. wallet \in Orders!Accounts /\ wallet # key[1] /\ wallet # tracker.zynk_op_vault
      BY <1>2, <2>1, OutsidersAreNoVaults DEF KnownVault
    <3>2. Orders!Transfer(bal, key[1], tracker.zynk_op_vault, tracker.mint, amount)[wallet]
            = bal[wallet]
      BY <1>2, <2>2, <3>1, TransferFrame
    <3>3. QED
      BY <2>1, <3>2
  <2>7. QED
    BY <2>5, <2>6
<1>4. CASE Orders!RecordOrder(signer, key, amount)
  <2>1. bal' = bal
    BY <1>4 DEF Orders!RecordOrder
  <2>2. \E t : KnownVault(t) /\ orders' = [orders EXCEPT ![key] = t]
    <3>1. CASE Orders!RecordReplenishment(key, amount) /\ tracker # None
      <4> DEFINE booked == [tracker EXCEPT !.amount_in = @ + amount]
      <4>1. orders' = [orders EXCEPT ![key] =
                         IF Orders!Replenished(booked) THEN None ELSE booked]
        BY <3>1 DEF Orders!RecordReplenishment, tracker
      <4>2. KnownVault(booked)
        BY <1>2, <3>1, AmountsChange
      <4> HIDE DEF booked
      <4>3. QED
        BY <4>1, <4>2, NoTracker
    <3>2. CASE Orders!RecordPayout(key, amount)
      <4>1. CASE tracker = None
        <5>1. orders' = [orders EXCEPT ![key] =
                           Orders!OpenTracker(None, None, None, 0, amount, 0)]
          BY <3>2, <4>1 DEF Orders!RecordPayout, Orders!Open, tracker, Shape
        <5>2. QED
          BY <5>1, NewTracker
      <4>2. CASE tracker # None
        <5>1. orders' = [orders EXCEPT ![key] =
                [tracker EXCEPT !.amount_out = amount, !.amount_borrowed = 0,
                                !.amount_repaid = 0]]
          BY <3>2, <4>2 DEF Orders!RecordPayout, Orders!Open, tracker, Shape
        <5>2. QED
          BY <1>2, <4>2, <5>1, AmountsChange
      <4>3. QED
        BY <4>1, <4>2
    <3>3. QED
      BY <1>4, <3>1, <3>2 DEF Orders!RecordOrder, Orders!Open, tracker
  <2>3. QED
    BY <1>2, <2>1, <2>2, OneOrderChanges
<1>5. QED
  BY <1>1, <1>3, <1>4

\* Paying lenders out of a ZOV changes no other account.
LEMMA PaySharesEffect ==
  ASSUME NEW b \in Funds, NEW zov, NEW mint \in Mints, NEW total \in Nat,
         NEW shares \in [Lenders -> Orders!U64]
  PROVE  /\ Orders!PayShares(b, zov, mint, shares, total) \in Funds
         /\ \A owner \in Orders!Accounts :
              owner \notin Lenders /\ owner # zov =>
                Orders!PayShares(b, zov, mint, shares, total)[owner] = b[owner]
<1>0. \A owner \in Lenders : shares[owner] \in Int
  <2>1. Orders!U64 \subseteq Int
    BY AmountFacts
  <2>2. QED
    BY <2>1
<1> DEFINE out(owner) == IF owner = zov THEN total ELSE 0
           in(owner) == IF owner \in Lenders THEN Orders!Arrives(mint, shares[owner]) ELSE 0
           row(owner) == [b[owner] EXCEPT ![mint] = @ - out(owner) + in(owner)]
<1>1. Orders!PayShares(b, zov, mint, shares, total) = [owner \in Orders!Accounts |-> row(owner)]
  BY DEF Orders!PayShares
<1>2. ASSUME NEW owner \in Orders!Accounts
      PROVE  /\ row(owner) \in [Mints -> Int]
             /\ owner \notin Lenders /\ owner # zov => row(owner) = b[owner]
  <2>1. out(owner) \in Int
    OBVIOUS
  <2>2. in(owner) \in Int
    BY <1>0, AmountFacts
  <2>3. b[owner] \in [Mints -> Int]
    BY DEF Funds
  <2>4. owner \notin Lenders /\ owner # zov => out(owner) = 0 /\ in(owner) = 0
    OBVIOUS
  <2> HIDE DEF out, in
  <2>5. QED
    BY <2>1, <2>2, <2>3, <2>4
<1> HIDE DEF row
<1>3. QED
  BY <1>1, <1>2 DEF Funds

\* Orbit's repayments pay the ZOV and lenders only.
LEMMA RepayEffect ==
  ASSUME TypeOK, Shape, Orders!OrbitNext
  PROVE  /\ Shape'
         /\ \A wallet \in Orders!Outsiders \ Lenders : bal'[wallet] = bal[wallet]
<1>1. PICK key \in Orders!OrderKeys, amount \in Orders!U64, repay \in Orders!U64,
           shares \in [Lenders -> Orders!U64] :
        Orders!ReplenishAndRepay(key, amount, repay, shares)
  BY Zenon DEF Orders!OrbitNext
<1> DEFINE tracker == orders[key]
           total == Orders!SumFunction(shares)
           zov == tracker.zynk_op_vault
           mint == tracker.mint
           paid == Orders!Transfer(bal, key[1], zov, mint, amount)
<1>2. /\ Orders!Running /\ tracker # None /\ Orders!MintAllowed(mint)
      /\ total \in Orders!U64
      /\ bal' = Orders!PayShares(paid, zov, mint, shares, total)
      /\ orders' = [orders EXCEPT ![key] = Orders!TrackerRepaid(tracker, repay, total)]
  BY <1>1
  DEF Orders!ReplenishAndRepay, Orders!Open, Orders!Repayable, Orders!BalancesRepaid
<1>3. /\ key[1] \in Partners /\ key[1] \in Orders!Accounts
      /\ amount \in Nat /\ total \in Nat
      /\ bal \in Funds /\ KnownVault(tracker)
  BY <1>2, AmountFacts DEF Orders!OrderKeys, Shape
<1>4. mint \in Mints
  BY <1>2 DEF Orders!MintAllowed, Orders!Running, Orders!Initialized, TypeOK, Config
<1> HIDE DEF tracker, total
<1>5. paid \in Funds
  BY <1>3, <1>4, TransferEffect
<1>6. bal' \in Funds
  <2> HIDE DEF paid, zov, mint
  <2>1. QED
    BY <1>2, <1>3, <1>4, <1>5, PaySharesEffect
<1>7. KnownVault(Orders!TrackerRepaid(tracker, repay, total))
  BY <1>2, <1>3, AmountsChange, NoTracker, Zenon DEF Orders!TrackerRepaid
<1>8. ASSUME NEW wallet \in Orders!Outsiders \ Lenders
      PROVE  bal'[wallet] = bal[wallet]
  <2>1. wallet \in Orders!Accounts /\ wallet # key[1] /\ wallet # zov
    BY <1>2, <1>3, OutsidersAreNoVaults DEF KnownVault
  <2>2. paid[wallet] = bal[wallet]
    BY <1>3, <1>4, <2>1, TransferFrame
  <2> HIDE DEF paid, zov, mint
  <2>3. bal'[wallet] = paid[wallet]
    BY <1>2, <1>3, <1>4, <1>5, <2>1, PaySharesEffect
  <2>4. QED
    BY <2>2, <2>3
<1>9. QED
  BY <1>2, <1>6, <1>7, <1>8, OneOrderChanges

\* Write-offs and the whitelist move nothing.
LEMMA QuietEffect ==
  ASSUME Shape, NEW signer \in Keys,
         Orders!BeneficiarySteps(signer) \/ Orders!CloseSteps(signer)
  PROVE  Shape' /\ bal' = bal
<1>1. CASE Orders!BeneficiarySteps(signer)
  BY <1>1
  DEF Orders!BeneficiarySteps, Orders!WhitelistBeneficiary, Orders!ToggleBeneficiary,
      Orders!RevokeBeneficiary, Shape
<1>2. CASE Orders!CloseSteps(signer)
  <2>1. PICK keys : orders' = [key \in Orders!OrderKeys |->
                                 IF key \in keys THEN None ELSE orders[key]]
    BY <1>2 DEF Orders!CloseSteps, Orders!CloseOrders
  <2>2. bal' = bal
    BY <1>2 DEF Orders!CloseSteps, Orders!CloseOrders
  <2>3. QED
    BY <2>1, <2>2, NoTracker DEF Shape
<1>3. QED
  BY <1>1, <1>2

\* When an outsider is paid in a transfer, another outsider pays.
LEMMA TransfersHavePayers ==
  ASSUME TypeOK, Shape, Orders!TransferNext
  PROVE  /\ Shape'
         /\ \A wallet \in Orders!Outsiders \ Lenders, mint \in Mints :
              ~Orders!PaidByVault(wallet, mint)
<1>1. PICK from \in (Wallets \cup Lenders) \ (Partners \cup Zovs), to \in Orders!Accounts,
           m \in Mints, amount \in Orders!U64 :
        Orders!OutsideTransfer(from, to, m, amount)
  BY Zenon DEF Orders!TransferNext
<1>2. bal' = Orders!Transfer(bal, from, to, m, amount) /\ orders' = orders
  BY <1>1 DEF Orders!OutsideTransfer
<1>3. /\ from \in Orders!Accounts /\ from \in Orders!Outsiders
      /\ bal \in Funds /\ amount \in Nat
  BY AmountFacts DEF Shape, Orders!Outsiders
<1>4. Shape'
  BY <1>2, <1>3, TransferEffect DEF Shape
<1>5. ASSUME NEW wallet \in Orders!Outsiders \ Lenders, NEW mint \in Mints,
             Orders!PaidByVault(wallet, mint)
      PROVE  FALSE
  <2>1. wallet \in Orders!Accounts
    BY OutsidersAreNoVaults
  <2>2. bal'[wallet][mint] > bal[wallet][mint] /\ bal'[from][mint] >= bal[from][mint]
    BY <1>3, <1>5 DEF Orders!PaidByVault
  <2>3. bal[wallet][mint] \in Int /\ bal[from][mint] \in Int /\ bal[from][m] \in Int
    BY <1>3, <2>1 DEF Funds
  <2>4. CASE from = to
    <3>1. bal' = [[bal EXCEPT ![from][m] = @ - amount]
                    EXCEPT ![from][m] = @ + Orders!Arrives(m, amount)]
      BY <1>2, <2>4 DEF Orders!Transfer
    <3>2. Orders!Arrives(m, amount) \in 0..amount
      BY <1>3, AmountFacts
    <3>3. bal'[wallet][mint] <= bal[wallet][mint]
      BY <1>3, <2>1, <2>3, <3>1, <3>2 DEF Funds
    <3>4. QED
      BY <1>4, <2>1, <2>2, <2>3, <3>3 DEF Shape, Funds
  <2>5. CASE from # to
    <3>1. bal' = [[bal EXCEPT ![from][m] = @ - amount]
                    EXCEPT ![to][m] = @ + Orders!Arrives(m, amount)]
      BY <1>2 DEF Orders!Transfer
    <3>2. Orders!Arrives(m, amount) \in 0..amount
      BY <1>3, AmountFacts
    <3>3. bal'[from][m] = bal[from][m] - amount
      BY <1>3, <2>5, <3>1 DEF Funds
    <3>4. wallet = to /\ mint = m
      BY <1>3, <2>1, <2>2, <2>3, <2>5, <3>1 DEF Funds
    <3>5. amount = 0
      BY <1>3, <2>2, <2>3, <3>3, <3>4
    <3>6. bal'[wallet][mint] = bal[wallet][mint]
      BY <1>3, <2>1, <2>3, <2>5, <3>1, <3>2, <3>4, <3>5 DEF Funds
    <3>7. QED
      BY <2>2, <2>3, <3>6
  <2>6. QED
    BY <2>4, <2>5
<1>6. QED
  BY <1>4, <1>5

\* Accounts keep their shape.
LEMMA ShapeStep ==
  ASSUME TypeOK, Shape, [ZynkNext]_zynkVars
  PROVE  Shape'
<1>1. ASSUME NEW signer \in Keys, Operate(signer)
      PROVE  Shape'
  BY <1>1, CreateEffect, SettleEffect, QuietEffect DEF Operate
<1>2. CASE Surroundings
  BY <1>2, RepayEffect, TransfersHavePayers DEF Surroundings
<1>3. CASE Govern \/ UNCHANGED zynkVars
  <2>1. UNCHANGED <<bal, orders>>
    BY <1>3 DEF Govern, zynkVars, bookVars
  <2>2. QED
    BY <2>1 DEF Shape
<1>4. QED
  BY <1>1, <1>2, <1>3 DEF ZynkNext

\* The manager cannot pay a wallet alone; without the manager nobody can.
LEMMA FourEyesStep ==
  ASSUME TypeOK, OneKeyChangesNoRole, SoloInv, Shape, [ZynkNext]_zynkVars,
         NEW key \in Keys, NEW wallet \in Orders!Outsiders \ Lenders, NEW mint \in Mints,
         Separated, signers' \subseteq {key}
  PROVE  ~Orders!PaidByVault(wallet, mint)
<1>1. SUFFICES ASSUME Orders!PaidByVault(wallet, mint)
               PROVE  FALSE
  OBVIOUS
<1>2. bal'[wallet] # bal[wallet]
  <2>1. wallet \in Orders!Accounts
    BY OutsidersAreNoVaults
  <2>2. bal[wallet][mint] \in Int
    BY <2>1 DEF Shape, Funds
  <2>3. QED
    BY <1>1, <2>2 DEF Orders!PaidByVault
<1>3. ASSUME NEW signer \in Keys, Operate(signer)
      PROVE  FALSE
  <2>1. CASE Orders!CreateSteps(signer)
    <3>1. IsManager(signer) /\ ~NoPayee
      BY <1>2, <2>1, CreateEffect
    <3>2. signer = key /\ signers \subseteq {key}
      BY <1>3 DEF Operate
    <3>3. RolesOf(config) = history.genesis
      BY <3>2 DEF OneKeyChangesNoRole, SoloInv, Separated
    <3>4. key = history.genesis.manager
      BY <3>1, <3>2, <3>3 DEF IsManager, RolesOf
    <3>5. QED
      BY <3>1, <3>2, <3>4 DEF SoloInv
  <2>2. CASE ~Orders!CreateSteps(signer)
    BY <1>2, <1>3, <2>2, SettleEffect, QuietEffect DEF Operate
  <2>3. QED
    BY <2>1, <2>2
<1>4. CASE Surroundings
  BY <1>1, <1>2, <1>4, RepayEffect, TransfersHavePayers DEF Surroundings
<1>5. CASE Govern \/ UNCHANGED zynkVars
  BY <1>2, <1>5 DEF Govern, zynkVars, bookVars
<1>6. QED
  BY <1>3, <1>4, <1>5 DEF ZynkNext

\* In a deployment whose manager is neither admin nor guardian, one key alone never
\* gets a vault to pay a beneficiary, whatever it signs in governance and orders.
THEOREM FourEyesTheorem == ZynkSpec => OneKeyPaysNoWallet
<1>1. ZynkInit => Shape
  BY ZynkAssumption, NoTracker
  DEF ZynkInit, Orders!Init, Shape, Funds, Orders!OrdersAssumption
<1>2. TypeOK /\ Shape /\ [ZynkNext]_zynkVars => Shape'
  BY ShapeStep
<1>3. TypeOK /\ OneKeyChangesNoRole /\ SoloInv /\ Shape /\ [ZynkNext]_zynkVars =>
        \A key \in Keys, wallet \in Orders!Outsiders \ Lenders, mint \in Mints :
          Separated /\ signers' \subseteq {key} => ~Orders!PaidByVault(wallet, mint)
  BY FourEyesStep
<1>4. QED
  BY <1>1, <1>2, <1>3, GovernanceTheorem, TypeCorrect, OneKeyTheorem, SoloTheorem, PTL
  DEF ZynkSpec, OneKeyPaysNoWallet
=============================================================================
