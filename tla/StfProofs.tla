----------------------------- MODULE StfProofs -----------------------------
(***************************************************************************)
(* Proofs about Stf, for every value of its constants.                     *)
(***************************************************************************)
EXTENDS Stf, TLAPS

USE DEF storage_value_key, storage_map_key, storage_double_map_key

\* The kinds of keys are pairwise disjoint: their module and storage
\* prefixes differ.
LEMMA KindsDisjoint ==
    /\ NonceKeys \cap (BalanceKeys \cup RegistryKeys \cup ParamKeys \cup SchedulerKeys) = {}
    /\ BalanceKeys \cap (RegistryKeys \cup ParamKeys \cup SchedulerKeys) = {}
    /\ RegistryKeys \cap (ParamKeys \cup SchedulerKeys) = {}
    /\ ParamKeys \cap SchedulerKeys = {}
    /\ PhaseKey # CindexKey /\ PhaseKey # CurrencyIdsKey /\ CindexKey # CurrencyIdsKey
  BY DEF NonceKeys, BalanceKeys, RegistryKeys, ParamKeys, SchedulerKeys,
         nonce_key_hash, BalanceKey, RegistryKey, PhaseKey, CindexKey,
         CurrencyIdsKey, RewardKey, TimeToleranceKey, LocationToleranceKey

\* nonce_key_hash is injective.
LEMMA NonceKeyInjective ==
    \A a, b \in Accounts : nonce_key_hash(a) = nonce_key_hash(b) => a = b
  BY DEF nonce_key_hash

\* Keys built from accounts and currencies belong to their kind.
LEMMA KeysIn ==
    /\ \A a \in Accounts : nonce_key_hash(a) \in NonceKeys
    /\ \A cid \in Cids, a \in Accounts : BalanceKey(cid, a) \in BalanceKeys
    /\ \A cid \in Cids, c \in CeremonyIndices, a \in Accounts :
          RegistryKey(cid, c, a) \in RegistryKeys
    /\ {PhaseKey, CindexKey, CurrencyIdsKey} = SchedulerKeys
    /\ NonceKeys \cup BalanceKeys \cup RegistryKeys \cup ParamKeys
         \cup SchedulerKeys = Keys
  BY DEF NonceKeys, BalanceKeys, RegistryKeys, Keys, SchedulerKeys

\* Writing a nonce at an account's nonce key keeps the store well typed.
LEMMA NonceWriteType ==
    ASSUME NEW s, StoreType(s), NEW a \in Accounts, NEW n \in Nonces
    PROVE  StoreType([s EXCEPT ![nonce_key_hash(a)] = n])
  BY KindsDisjoint, KeysIn, NonceKeyInjective DEF StoreType

\* Writing a number at a balance key keeps the store well typed.
LEMMA BalanceWriteType ==
    ASSUME NEW s, StoreType(s), NEW cid \in Cids, NEW a \in Accounts, NEW v \in Nat
    PROVE  StoreType([s EXCEPT ![BalanceKey(cid, a)] = v])
  BY KindsDisjoint, KeysIn DEF StoreType

\* Marking a registration keeps the store well typed.
LEMMA RegistryWriteType ==
    ASSUME NEW s, StoreType(s), NEW cid \in Cids, NEW c \in CeremonyIndices,
           NEW a \in Accounts
    PROVE  StoreType([s EXCEPT ![RegistryKey(cid, c, a)] = 1])
  BY KindsDisjoint, KeysIn DEF StoreType

\* The reads with defaults return values of the expected kind.
LEMMA ReadsType ==
    ASSUME NEW s, StoreType(s)
    PROVE  /\ \A cid \in Cids, a \in Accounts : get_encointer_balance(s, a, cid) \in Nat
           /\ \A a \in Accounts : StoredNonce(s, a) \in Nonces
           /\ StoredCindex(s) \in CeremonyIndices
  <1>1. 0 \in Nonces /\ 0 \in CeremonyIndices
    BY NonceModAssumption, MaxCeremonyIndexAssumption DEF Nonces, CeremonyIndices
  <1> QED BY <1>1 DEF StoreType, get_encointer_balance, StoredNonce, StoredCindex, Get

\* Both pallet calls keep the store well typed.
LEMMA DispatchType ==
    ASSUME NEW s, StoreType(s), NEW call \in Calls
    PROVE  StoreType(Dispatch(s, call))
  <1>1. CASE call.kind = "balance_transfer"
    <2> DEFINE from == call.from  to == call.to  cid == call.cid  v == call.value
               bf == get_encointer_balance(s, from, cid)
               s1 == [s EXCEPT ![BalanceKey(cid, from)] = bf - v]
    <2>1. from \in Accounts /\ to \in Accounts /\ cid \in Cids /\ v \in Nat
      BY <1>1, AmountsAssumption DEF Calls
    <2>2. bf \in Nat BY <2>1, ReadsType
    <2>3. CASE bf < v
      BY <1>1, <2>3 DEF Dispatch, transfer
    <2>4. CASE ~(bf < v)
      <3>1. StoreType(s1) BY <2>1, <2>2, <2>4, BalanceWriteType
      <3>2. get_encointer_balance(s1, to, cid) + v \in Nat BY <3>1, <2>1, ReadsType
      <3>3. StoreType([s1 EXCEPT ![BalanceKey(cid, to)] =
                          get_encointer_balance(s1, to, cid) + v])
        BY <3>1, <3>2, <2>1, BalanceWriteType
      <3> QED BY <1>1, <2>4, <3>3 DEF Dispatch, transfer
    <2> QED BY <2>3, <2>4
  <1>2. CASE call.kind # "balance_transfer"
    <2>1. call.from \in Accounts /\ call.cid \in Cids BY DEF Calls
    <2>2. StoredCindex(s) \in CeremonyIndices BY ReadsType
    <2>3. StoreType([s EXCEPT ![RegistryKey(call.cid, StoredCindex(s), call.from)] = 1])
      BY <2>1, <2>2, RegistryWriteType
    <2> QED BY <1>2, <2>3 DEF Dispatch, register_participant
  <1> QED BY <1>1, <1>2

\* Refreshing the keys of a call from the public chain keeps the store
\* well typed.
LEMMA UpdateType ==
    ASSUME StoreType(store), ChainType, NEW call \in Calls,
           NEW ks \in SUBSET get_storage_hashes_to_update(call)
    PROVE  StoreType(SetAll(store, [k \in ks |-> chain[k]]))
  <1>1. CASE call.kind = "balance_transfer"
    <2>1. ks \subseteq {nonce_key_hash(call.from)}
      BY <1>1 DEF get_storage_hashes_to_update, account
    <2>2. call.from \in Accounts BY DEF Calls
    <2>3. \A k \in ks : chain[k] \in Nonces \cup {Absent} BY <2>1, <2>2 DEF ChainType
    <2> QED BY <2>1, <2>2, <2>3, KindsDisjoint, KeysIn, NonceKeyInjective DEF StoreType, SetAll
  <1>2. CASE call.kind # "balance_transfer"
    <2>1. ks \subseteq SchedulerKeys
      BY <1>2, KeysIn DEF get_storage_hashes_to_update
    <2> DEFINE t == SetAll(store, [k \in ks |-> chain[k]])
    <2>2. DOMAIN t = Keys BY DEF SetAll, StoreType
    <2>3. \A k \in Keys : t[k] = IF k \in ks THEN chain[k] ELSE store[k]
      BY DEF SetAll, StoreType
    <2>4. \A k \in Keys \ SchedulerKeys : t[k] = store[k] BY <2>1, <2>3
    <2>5. PhaseKey \in Keys /\ CindexKey \in Keys /\ CurrencyIdsKey \in Keys BY KeysIn
    <2>6. /\ t[PhaseKey] \in Phases \cup {Absent}
          /\ t[CindexKey] \in CeremonyIndices \cup {Absent}
          /\ t[CurrencyIdsKey] \in {Cids, Absent}
      BY <2>3, <2>5 DEF ChainType, StoreType
    <2>7. /\ \A k \in ParamKeys \cup RegistryKeys \cup NonceKeys \cup BalanceKeys : t[k] = store[k]
      BY <2>4, KindsDisjoint, KeysIn
    <2> QED BY <2>2, <2>6, <2>7, KeysIn DEF StoreType
  <1> QED BY <1>1, <1>2

\* Init is well typed.
LEMMA InitTypeOK == Init => TypeOK
  <1> SUFFICES ASSUME Init PROVE TypeOK OBVIOUS
  <1>1. StoreType(store)
    <2> USE DEF Init, init_state
    <2>1. \A k \in ParamKeys : store[k] \in Nat
      BY KeysIn DEF GenesisValue, ParamKeys
    <2>2. \A k \in Keys \ (ParamKeys \cup BalanceKeys) : store[k] = Absent
      BY DEF GenesisValue, ParamKeys
    <2>3. \A cid \in Cids, a \in Accounts : store[BalanceKey(cid, a)] \in Nat \cup {Absent}
      <3> SUFFICES ASSUME NEW cid \in Cids, NEW a \in Accounts
                   PROVE store[BalanceKey(cid, a)] \in Nat \cup {Absent}
        OBVIOUS
      <3>1. BalanceKey(cid, a) \in BalanceKeys \ ParamKeys BY KeysIn, KindsDisjoint
      <3>2. BalanceKey(cid, a)[3] = cid /\ BalanceKey(cid, a)[4] = a BY DEF BalanceKey
      <3>3. GenesisBalance[cid][a] \in Nat BY GenesisAssumption
      <3>4. store[BalanceKey(cid, a)] \in {GenesisBalance[cid][a], Absent}
        BY <3>1, <3>2, KeysIn DEF GenesisValue, ParamKeys
      <3> QED BY <3>3, <3>4
    <2>4. DOMAIN store = Keys OBVIOUS
    <2>5. \A k \in RegistryKeys \cup NonceKeys \cup SchedulerKeys : store[k] = Absent
      BY <2>2, KeysIn, KindsDisjoint
    <2>6. \A a \in Accounts : store[nonce_key_hash(a)] = Absent BY <2>5, KeysIn
    <2>7. store[PhaseKey] = Absent /\ store[CindexKey] = Absent /\ store[CurrencyIdsKey] = Absent
      BY <2>5, KeysIn
    <2> QED BY <2>1, <2>3, <2>4, <2>5, <2>6, <2>7 DEF StoreType
  <1>2. ChainType
    BY KindsDisjoint, KeysIn, MaxCeremonyIndexAssumption, NonceModAssumption
    DEF Init, ChainInit, ChainType, ChainKeys, Nonces, CeremonyIndices, Phases
  <1>3. accepted \in [Accounts -> 0..MaxCalls]
    BY MaxCallsAssumption DEF Init
  <1> QED BY <1>1, <1>2, <1>3 DEF Init, TypeOK

\* Every step of Stf keeps the state well typed.
LEMMA NextTypeOK == TypeOK /\ [Next]_vars => TypeOK'
  <1> SUFFICES ASSUME TypeOK, [Next]_vars PROVE TypeOK' OBVIOUS
  <1> USE DEF TypeOK
  <1>1. ASSUME NEW op \in SignedOps, execute(op) PROVE TypeOK'
    <2> DEFINE a == account(op.call)
    <2>1. a \in Accounts /\ op.call \in Calls /\ op.nonce \in Nonces
      BY DEF SignedOps, Calls, account
    <2>2. CASE ExecuteRejected(op) \/ ExecuteOverflowPanic(op)
      BY <2>2 DEF ExecuteRejected, ExecuteOverflowPanic, StoreType, ChainType
    <2>3. CASE ExecuteAccepted(op)
      <3>1. (op.nonce + 1) % NonceMod \in Nonces
        BY <2>1, NonceModAssumption DEF Nonces
      <3>2. StoreType([store EXCEPT ![nonce_key_hash(a)] = (op.nonce + 1) % NonceMod])
        BY <2>1, <3>1, NonceWriteType
      <3>3. StoreType(store')
        BY <2>1, <2>3, <3>2, DispatchType DEF ExecuteAccepted
      <3>0. accepted[a] < MaxCalls BY <1>1 DEF execute
      <3>4. accepted' \in [Accounts -> 0..MaxCalls]
        BY <3>0, <2>1, <2>3, MaxCallsAssumption DEF ExecuteAccepted
      <3>5. applied' \in [SignedOps -> Nat]
        BY <2>3 DEF ExecuteAccepted
      <3> QED BY <2>3, <3>3, <3>4, <3>5 DEF ExecuteAccepted, ChainType
    <2> QED BY <1>1, <2>2, <2>3 DEF execute
  <1>2. ASSUME NEW call \in Calls, update_storage(call) PROVE TypeOK'
    <2> DEFINE ks == {k \in get_storage_hashes_to_update(call) : chain[k] # Absent}
    <2>1. StoreType(SetAll(store, [k \in ks |-> chain[k]])) BY UpdateType
    <2> QED BY <1>2, <2>1 DEF update_storage, ChainType
  <1>3. CASE ChainNextPhase
    <2>0. PhaseKey \in DOMAIN chain /\ CindexKey \in DOMAIN chain
      BY KeysIn DEF ChainType, ChainKeys
    <2>1. \A p \in Phases : NextPhase(p) \in Phases BY DEF NextPhase, Phases
    <2>2. chain'[PhaseKey] \in Phases BY <1>3, <2>0, <2>1 DEF ChainNextPhase, ChainType
    <2>3. chain'[CindexKey] \in CeremonyIndices
      BY <1>3, <2>0, KindsDisjoint, MaxCeremonyIndexAssumption
      DEF ChainNextPhase, ChainType, CeremonyIndices
    <2>4. \A k \in ChainKeys \ {PhaseKey, CindexKey} : chain'[k] = chain[k]
      BY <1>3 DEF ChainNextPhase, ChainType
    <2>5. DOMAIN chain' = ChainKeys BY <1>3 DEF ChainNextPhase, ChainType
    <2>1a. ChainType'
      BY <2>2, <2>3, <2>4, <2>5, KindsDisjoint, KeysIn DEF ChainType, ChainKeys
    <2> QED BY <1>3, <2>1a DEF ChainNextPhase
  <1>4. ASSUME NEW a \in ChainAccounts, PublicTransaction(a) PROVE TypeOK'
    <2>1. a \in Accounts BY AccountsAssumption
    <2>2. chain[nonce_key_hash(a)] \in Nonces BY <1>4, <2>1 DEF PublicTransaction, ChainType
    <2>3. chain[nonce_key_hash(a)] + 1 \in Nonces BY <1>4, <2>2, NonceModAssumption DEF PublicTransaction, Nonces
    <2>4. nonce_key_hash(a) \in DOMAIN chain BY <2>1, KeysIn DEF ChainType, ChainKeys
    <2>5. ChainType'
      BY <1>4, <2>1, <2>3, <2>4, KindsDisjoint, KeysIn, NonceKeyInjective
      DEF PublicTransaction, ChainType, ChainKeys
    <2> QED BY <1>4, <2>5 DEF PublicTransaction
  <1>5. CASE UNCHANGED vars
    BY <1>5 DEF vars, StoreType, ChainType
  <1> QED BY <1>1, <1>2, <1>3, <1>4, <1>5 DEF Next

(***************************************************************************)
(* Type correctness: every reachable state is well typed.                  *)
(***************************************************************************)
THEOREM TypeCorrect == Spec => []TypeOK
  BY InitTypeOK, NextTypeOK, PTL DEF Spec

\* The pallet calls write no nonce key.
LEMMA DispatchKeepsNonces ==
    ASSUME NEW s, StoreType(s), NEW call \in Calls, NEW b \in Accounts
    PROVE  Dispatch(s, call)[nonce_key_hash(b)] = s[nonce_key_hash(b)]
  <1>1. nonce_key_hash(b) \in NonceKeys BY KeysIn
  <1>2. CASE call.kind = "balance_transfer"
    <2> DEFINE from == call.from  to == call.to  cid == call.cid  v == call.value
               bf == get_encointer_balance(s, from, cid)
               s1 == [s EXCEPT ![BalanceKey(cid, from)] = bf - v]
    <2>1. BalanceKey(cid, from) \in BalanceKeys /\ BalanceKey(cid, to) \in BalanceKeys
      BY <1>2, KeysIn DEF Calls
    <2>2. s1[nonce_key_hash(b)] = s[nonce_key_hash(b)] /\ DOMAIN s1 = Keys
      BY <1>1, <2>1, KindsDisjoint, KeysIn DEF StoreType
    <2>3. [s1 EXCEPT ![BalanceKey(cid, to)] = get_encointer_balance(s1, to, cid) + v]
            [nonce_key_hash(b)] = s[nonce_key_hash(b)]
      BY <1>1, <2>1, <2>2, KindsDisjoint, KeysIn
    <2> QED BY <1>2, <2>2, <2>3 DEF Dispatch, transfer
  <1>3. CASE call.kind # "balance_transfer"
    <2>1. RegistryKey(call.cid, StoredCindex(s), call.from) \in RegistryKeys
      BY ReadsType, KeysIn DEF Calls
    <2> QED BY <1>1, <1>3, <2>1, KindsDisjoint DEF Dispatch, register_participant
  <1> QED BY <1>2, <1>3

\* A number below the modulus is its own remainder.
LEMMA ModSmall ==
    ASSUME NEW x \in Nat, NEW m \in Nat, x < m
    PROVE  x % m = x
  OBVIOUS

\* The initial state satisfies NoReplayInv.
LEMMA InitNoReplayInv == Init => NoReplayInv
  <1> SUFFICES ASSUME Init, NEW a \in Accounts \ ChainAccounts PROVE NoReplayAt(a)
    BY DEF NoReplayInv
  <1>1. nonce_key_hash(a) \in ChainKeys \ {PhaseKey, CindexKey, CurrencyIdsKey}
    BY KeysIn, KindsDisjoint DEF ChainKeys
  <1>2. nonce_key_hash(a) \notin {nonce_key_hash(b) : b \in ChainAccounts}
    BY NonceKeyInjective, AccountsAssumption
  <1>3. chain[nonce_key_hash(a)] = Absent BY <1>1, <1>2 DEF Init, ChainInit
  <1>4. store[nonce_key_hash(a)] = Absent
    BY KeysIn, KindsDisjoint DEF Init, init_state, GenesisValue, ParamKeys
  <1> QED BY <1>3, <1>4 DEF Init, NoReplayAt, StoredNonce, Get

\* Every Stf step preserves NoReplayInv.
LEMMA NextNoReplayInv == TypeOK /\ NoReplayInv /\ [Next]_vars => NoReplayInv'
  <1> SUFFICES ASSUME TypeOK, NoReplayInv, [Next]_vars,
                      NEW a \in Accounts \ ChainAccounts
               PROVE  NoReplayAt(a)'
    BY DEF NoReplayInv
  <1>0. /\ a \in Accounts
        /\ nonce_key_hash(a) \in Keys /\ nonce_key_hash(a) \in ChainKeys
        /\ NoReplayAt(a)
    BY KeysIn, AccountsAssumption DEF NoReplayInv, ChainKeys
  <1> USE DEF TypeOK
  <1>1. ASSUME NEW op \in SignedOps, execute(op) PROVE NoReplayAt(a)'
    <2> DEFINE b == account(op.call)
               s1 == [store EXCEPT ![nonce_key_hash(b)] = (op.nonce + 1) % NonceMod]
    <2>1. b \in Accounts /\ op.call \in Calls /\ op.nonce \in Nonces
      BY DEF SignedOps, Calls, account
    <2>2. CASE ExecuteRejected(op) \/ ExecuteOverflowPanic(op)
      BY <1>0, <2>2 DEF ExecuteRejected, ExecuteOverflowPanic, NoReplayAt, StoredNonce, Get
    <2>3. CASE ExecuteAccepted(op) /\ b # a
      <3>1. StoreType(s1) BY <2>1, NonceModAssumption, NonceWriteType DEF Nonces
      <3>2. store'[nonce_key_hash(a)] = s1[nonce_key_hash(a)]
        BY <2>1, <2>3, <3>1, DispatchKeepsNonces, <1>0 DEF ExecuteAccepted
      <3>3. s1[nonce_key_hash(a)] = store[nonce_key_hash(a)]
        BY <1>0, <2>1, <2>3, NonceKeyInjective DEF StoreType
      <3>4. accepted'[a] = accepted[a] BY <1>0, <2>3 DEF ExecuteAccepted
      <3>5. \A o \in SignedOps : account(o.call) = a => applied'[o] = applied[o]
        BY <2>3 DEF ExecuteAccepted
      <3> QED BY <1>0, <2>3, <3>2, <3>3, <3>4, <3>5
              DEF ExecuteAccepted, NoReplayAt, StoredNonce, Get
    <2>4. CASE ExecuteAccepted(op) /\ b = a
      <3>1. StoreType(s1) BY <2>1, NonceModAssumption, NonceWriteType DEF Nonces
      <3>2. store'[nonce_key_hash(a)] = (op.nonce + 1) % NonceMod
        BY <1>0, <2>1, <2>4, <3>1, DispatchKeepsNonces DEF ExecuteAccepted, StoreType
      <3>3. op.nonce = StoredNonce(store, a) BY <2>4 DEF ExecuteAccepted
      <3>4. accepted'[a] = accepted[a] + 1 /\ applied'[op] = applied[op] + 1
        BY <1>0, <2>4 DEF ExecuteAccepted
      <3>5. \A o \in SignedOps : o # op => applied'[o] = applied[o]
        BY <2>4 DEF ExecuteAccepted
      <3>6. chain' = chain BY <2>4 DEF ExecuteAccepted
      <3>7. accepted[a] \in Nat /\ NonceMod \in Nat BY <1>0, NonceModAssumption
      <3>8. CASE accepted[a] < NonceMod
        <4>1. op.nonce = accepted[a] BY <1>0, <3>3, <3>8 DEF NoReplayAt
        <4>2. accepted[a] + 1 < NonceMod =>
                (op.nonce + 1) % NonceMod = accepted[a] + 1
          BY <4>1, <3>7, ModSmall
        <4>3. (op.nonce + 1) % NonceMod # Absent
          BY <2>1, NonceModAssumption, AbsentAssumption DEF Nonces
        <4>4. accepted'[a] < NonceMod => StoredNonce(store', a) = accepted'[a]
          BY <3>2, <3>4, <4>2, <4>3 DEF StoredNonce, Get
        <4>0. account(op.call) = a /\ applied[op] \in Nat BY <2>4
        <4>5. applied[op] = 0
          <5>1. applied[op] >= 1 => op.nonce < accepted[a]
            BY <1>0, <3>7, <3>8, <4>0 DEF NoReplayAt
          <5> QED BY <5>1, <4>0, <4>1, <3>7
        <4>6. \A o \in SignedOps : account(o.call) = a =>
                  /\ applied'[o] <= 1
                  /\ applied'[o] >= 1 => o.nonce < accepted'[a]
          <5> SUFFICES ASSUME NEW o \in SignedOps, account(o.call) = a
                       PROVE  /\ applied'[o] <= 1
                              /\ applied'[o] >= 1 => o.nonce < accepted'[a]
            OBVIOUS
          <5>1. CASE o = op BY <5>1, <3>4, <4>1, <4>5, <3>7
          <5>2. CASE o # op
            <6>1. applied'[o] = applied[o] /\ applied[o] \in Nat BY <5>2, <3>5
            <6>2. /\ applied[o] <= 1
                  /\ applied[o] >= 1 => o.nonce < accepted[a]
              BY <1>0, <3>7, <3>8 DEF NoReplayAt
            <6>3. o.nonce \in Nat BY NonceModAssumption DEF SignedOps, Nonces
            <6> QED BY <6>1, <6>2, <6>3, <3>4, <3>7
          <5> QED BY <5>1, <5>2
        <4> QED BY <1>0, <3>6, <4>4, <4>6 DEF NoReplayAt
      <3>9. CASE ~(accepted[a] < NonceMod)
        BY <3>4, <3>6, <3>7, <3>9, <1>0 DEF NoReplayAt
      <3> QED BY <3>8, <3>9
    <2> QED BY <1>1, <2>2, <2>3, <2>4 DEF execute
  <1>2. ASSUME NEW call \in Calls, update_storage(call) PROVE NoReplayAt(a)'
    <2> DEFINE ks == {k \in get_storage_hashes_to_update(call) : chain[k] # Absent}
    <2>1. nonce_key_hash(a) \notin ks BY <1>0 DEF NoReplayAt
    <2>2. store'[nonce_key_hash(a)] = store[nonce_key_hash(a)]
      BY <1>0, <1>2, <2>1 DEF update_storage, SetAll, StoreType
    <2> QED BY <1>0, <1>2, <2>2 DEF update_storage, NoReplayAt, StoredNonce, Get
  <1>3. CASE ChainNextPhase
    <2>1. chain'[nonce_key_hash(a)] = chain[nonce_key_hash(a)]
      <3>1. nonce_key_hash(a) # PhaseKey /\ nonce_key_hash(a) # CindexKey
        <4>1. nonce_key_hash(a) \in NonceKeys BY <1>0, KeysIn
        <4>2. PhaseKey \in SchedulerKeys /\ CindexKey \in SchedulerKeys BY KeysIn
        <4>3. NonceKeys \cap SchedulerKeys = {} BY KindsDisjoint
        <4> QED BY <4>1, <4>2, <4>3
      <3>2. PhaseKey \in ChainKeys /\ CindexKey \in ChainKeys
        BY KeysIn DEF ChainKeys
      <3> QED BY <1>0, <1>3, <3>1, <3>2 DEF ChainNextPhase, ChainType
    <2> QED BY <1>0, <1>3, <2>1 DEF ChainNextPhase, NoReplayAt, StoredNonce, Get
  <1>4. ASSUME NEW c \in ChainAccounts, PublicTransaction(c) PROVE NoReplayAt(a)'
    <2>1. c \in Accounts /\ c # a BY AccountsAssumption
    <2>2. chain'[nonce_key_hash(a)] = chain[nonce_key_hash(a)]
      BY <1>0, <1>4, <2>1, NonceKeyInjective DEF PublicTransaction
    <2> QED BY <1>0, <1>4, <2>2 DEF PublicTransaction, NoReplayAt, StoredNonce, Get
  <1>5. CASE UNCHANGED vars
    BY <1>0, <1>5 DEF vars, NoReplayAt, StoredNonce, Get
  <1> QED BY <1>1, <1>2, <1>3, <1>4, <1>5 DEF Next

(***************************************************************************)
(* Replay protection: for an account without a public account, no signed   *)
(* operation is applied twice before its nonce first wraps.  The proof     *)
(* runs along NoReplayInv: the public chain never holds a nonce for such   *)
(* an account, so update_storage never writes its nonce key; only its own  *)
(* accepted calls do, each raising the nonce to the number of accepted     *)
(* calls; an accepted call carries that number as nonce, which no earlier  *)
(* applied operation of the account carried.                               *)
(***************************************************************************)
THEOREM NoReplayHolds == Spec => []NoReplay
  <1>1. Init => NoReplayInv
    <2> SUFFICES ASSUME Init, NEW a \in Accounts \ ChainAccounts PROVE NoReplayAt(a)
      BY DEF NoReplayInv
    <2>1. nonce_key_hash(a) \in ChainKeys \ {PhaseKey, CindexKey, CurrencyIdsKey}
      BY KeysIn, KindsDisjoint DEF ChainKeys
    <2>2. nonce_key_hash(a) \notin {nonce_key_hash(b) : b \in ChainAccounts}
      BY NonceKeyInjective, AccountsAssumption
    <2>3. chain[nonce_key_hash(a)] = Absent BY <2>1, <2>2 DEF Init, ChainInit
    <2>4. store[nonce_key_hash(a)] = Absent
      BY KeysIn, KindsDisjoint DEF Init, init_state, GenesisValue, ParamKeys
    <2> QED BY <2>3, <2>4 DEF Init, NoReplayAt, StoredNonce, Get
  <1>2. TypeOK /\ NoReplayInv /\ [Next]_vars => NoReplayInv'
    <2> SUFFICES ASSUME TypeOK, NoReplayInv, [Next]_vars,
                        NEW a \in Accounts \ ChainAccounts
                 PROVE  NoReplayAt(a)'
      BY DEF NoReplayInv
    <2>0. /\ a \in Accounts
          /\ nonce_key_hash(a) \in Keys /\ nonce_key_hash(a) \in ChainKeys
          /\ NoReplayAt(a)
      BY KeysIn, AccountsAssumption DEF NoReplayInv, ChainKeys
    <2> USE DEF TypeOK
    <2>1. ASSUME NEW op \in SignedOps, execute(op) PROVE NoReplayAt(a)'
      <3> DEFINE b == account(op.call)
                 s1 == [store EXCEPT ![nonce_key_hash(b)] = (op.nonce + 1) % NonceMod]
      <3>1. b \in Accounts /\ op.call \in Calls /\ op.nonce \in Nonces
        BY DEF SignedOps, Calls, account
      <3>2. CASE ExecuteRejected(op) \/ ExecuteOverflowPanic(op)
        BY <2>0, <3>2 DEF ExecuteRejected, ExecuteOverflowPanic, NoReplayAt, StoredNonce, Get
      <3>3. CASE ExecuteAccepted(op) /\ b # a
        <4>1. StoreType(s1) BY <3>1, NonceModAssumption, NonceWriteType DEF Nonces
        <4>2. store'[nonce_key_hash(a)] = s1[nonce_key_hash(a)]
          BY <3>1, <3>3, <4>1, DispatchKeepsNonces, <2>0 DEF ExecuteAccepted
        <4>3. s1[nonce_key_hash(a)] = store[nonce_key_hash(a)]
          BY <2>0, <3>1, <3>3, NonceKeyInjective DEF StoreType
        <4>4. accepted'[a] = accepted[a] BY <2>0, <3>3 DEF ExecuteAccepted
        <4>5. \A o \in SignedOps : account(o.call) = a => applied'[o] = applied[o]
          BY <3>3 DEF ExecuteAccepted
        <4> QED BY <2>0, <3>3, <4>2, <4>3, <4>4, <4>5
                DEF ExecuteAccepted, NoReplayAt, StoredNonce, Get
      <3>4. CASE ExecuteAccepted(op) /\ b = a
        <4>1. StoreType(s1) BY <3>1, NonceModAssumption, NonceWriteType DEF Nonces
        <4>2. store'[nonce_key_hash(a)] = (op.nonce + 1) % NonceMod
          BY <2>0, <3>1, <3>4, <4>1, DispatchKeepsNonces DEF ExecuteAccepted, StoreType
        <4>3. op.nonce = StoredNonce(store, a) BY <3>4 DEF ExecuteAccepted
        <4>4. accepted'[a] = accepted[a] + 1 /\ applied'[op] = applied[op] + 1
          BY <2>0, <3>4 DEF ExecuteAccepted
        <4>5. \A o \in SignedOps : o # op => applied'[o] = applied[o]
          BY <3>4 DEF ExecuteAccepted
        <4>6. chain' = chain BY <3>4 DEF ExecuteAccepted
        <4>7. accepted[a] \in Nat /\ NonceMod \in Nat BY <2>0, NonceModAssumption
        <4>8. CASE accepted[a] < NonceMod
          <5>1. op.nonce = accepted[a] BY <2>0, <4>3, <4>8 DEF NoReplayAt
          <5>2. accepted[a] + 1 < NonceMod =>
                  (op.nonce + 1) % NonceMod = accepted[a] + 1
            BY <5>1, <4>7, ModSmall
          <5>3. (op.nonce + 1) % NonceMod # Absent
            BY <3>1, NonceModAssumption, AbsentAssumption DEF Nonces
          <5>4. accepted'[a] < NonceMod => StoredNonce(store', a) = accepted'[a]
            BY <4>2, <4>4, <5>2, <5>3 DEF StoredNonce, Get
          <5>0. account(op.call) = a /\ applied[op] \in Nat BY <3>4
          <5>5. applied[op] = 0
            <6>1. applied[op] >= 1 => op.nonce < accepted[a]
              BY <2>0, <4>7, <4>8, <5>0 DEF NoReplayAt
            <6> QED BY <6>1, <5>0, <5>1, <4>7
          <5>6. \A o \in SignedOps : account(o.call) = a =>
                    /\ applied'[o] <= 1
                    /\ applied'[o] >= 1 => o.nonce < accepted'[a]
            <6> SUFFICES ASSUME NEW o \in SignedOps, account(o.call) = a
                         PROVE  /\ applied'[o] <= 1
                                /\ applied'[o] >= 1 => o.nonce < accepted'[a]
              OBVIOUS
            <6>1. CASE o = op BY <6>1, <4>4, <5>1, <5>5, <4>7
            <6>2. CASE o # op
              <7>1. applied'[o] = applied[o] /\ applied[o] \in Nat BY <6>2, <4>5
              <7>2. /\ applied[o] <= 1
                    /\ applied[o] >= 1 => o.nonce < accepted[a]
                BY <2>0, <4>7, <4>8 DEF NoReplayAt
              <7>3. o.nonce \in Nat BY NonceModAssumption DEF SignedOps, Nonces
              <7> QED BY <7>1, <7>2, <7>3, <4>4, <4>7
            <6> QED BY <6>1, <6>2
          <5> QED BY <2>0, <4>6, <5>4, <5>6 DEF NoReplayAt
        <4>9. CASE ~(accepted[a] < NonceMod)
          BY <4>4, <4>6, <4>7, <4>9, <2>0 DEF NoReplayAt
        <4> QED BY <4>8, <4>9
      <3> QED BY <2>1, <3>2, <3>3, <3>4 DEF execute
    <2>2. ASSUME NEW call \in Calls, update_storage(call) PROVE NoReplayAt(a)'
      <3> DEFINE ks == {k \in get_storage_hashes_to_update(call) : chain[k] # Absent}
      <3>1. nonce_key_hash(a) \notin ks BY <2>0 DEF NoReplayAt
      <3>2. store'[nonce_key_hash(a)] = store[nonce_key_hash(a)]
        BY <2>0, <2>2, <3>1 DEF update_storage, SetAll, StoreType
      <3> QED BY <2>0, <2>2, <3>2 DEF update_storage, NoReplayAt, StoredNonce, Get
    <2>3. CASE ChainNextPhase
      <3>1. chain'[nonce_key_hash(a)] = chain[nonce_key_hash(a)]
        <4>1. nonce_key_hash(a) # PhaseKey /\ nonce_key_hash(a) # CindexKey
          <5>1. nonce_key_hash(a) \in NonceKeys BY <2>0, KeysIn
          <5>2. PhaseKey \in SchedulerKeys /\ CindexKey \in SchedulerKeys BY KeysIn
          <5>3. NonceKeys \cap SchedulerKeys = {} BY KindsDisjoint
          <5> QED BY <5>1, <5>2, <5>3
        <4>2. PhaseKey \in ChainKeys /\ CindexKey \in ChainKeys
          BY KeysIn DEF ChainKeys
        <4> QED BY <2>0, <2>3, <4>1, <4>2 DEF ChainNextPhase, ChainType
      <3> QED BY <2>0, <2>3, <3>1 DEF ChainNextPhase, NoReplayAt, StoredNonce, Get
    <2>4. ASSUME NEW c \in ChainAccounts, PublicTransaction(c) PROVE NoReplayAt(a)'
      <3>1. c \in Accounts /\ c # a BY AccountsAssumption
      <3>2. chain'[nonce_key_hash(a)] = chain[nonce_key_hash(a)]
        BY <2>0, <2>4, <3>1, NonceKeyInjective DEF PublicTransaction
      <3> QED BY <2>0, <2>4, <3>2 DEF PublicTransaction, NoReplayAt, StoredNonce, Get
    <2>5. CASE UNCHANGED vars
      BY <2>0, <2>5 DEF vars, NoReplayAt, StoredNonce, Get
    <2> QED BY <2>1, <2>2, <2>3, <2>4, <2>5 DEF Next
  <1>3. NoReplayInv => NoReplay
    BY DEF NoReplayInv, NoReplayAt, NoReplay
  <1> QED BY InitNoReplayInv, NextNoReplayInv, <1>3, TypeCorrect, PTL DEF Spec


\* Adding one to a nonce modulo 2^NonceBits yields another nonce, never
\* the same one (the modulus is at least 2).
LEMMA NonceSuccessor ==
    ASSUME NEW n \in Nonces
    PROVE  /\ (n + 1) % NonceMod \in Nonces
           /\ (n + 1) % NonceMod # n
  <1>1. NonceMod \in Nat /\ NonceMod >= 2 /\ n \in Nat /\ n < NonceMod
    BY NonceModAssumption DEF Nonces
  <1>2. CASE n + 1 < NonceMod BY <1>1, <1>2, ModSmall DEF Nonces
  <1>3. CASE n + 1 = NonceMod BY <1>1, <1>3 DEF Nonces
  <1> QED BY <1>1, <1>2, <1>3

\* The nonce read for an account is a nonce.
LEMMA StoredNonceType ==
    ASSUME NEW s, StoreType(s), NEW a \in Accounts
    PROVE  StoredNonce(s, a) \in Nonces
  BY NonceModAssumption DEF StoreType, StoredNonce, Get, Nonces

(***************************************************************************)
(* Every step of Stf, from a state of NoReplayInv, is a NonceStep or a     *)
(* stutter.  One case per action of Next: an accepted execute of the       *)
(* account's own call stores the successor of the nonce it checked; the    *)
(* other accounts' calls and the pallet dispatch leave its nonce key       *)
(* (DispatchKeepsNonces); update_storage refreshes only keys the chain     *)
(* holds a value for, and NoReplayInv says the chain holds none at it.     *)
(***************************************************************************)
LEMMA NextNonceStep == TypeOK /\ NoReplayInv /\ [Next]_vars => [NonceStep]_vars
  <1> SUFFICES ASSUME TypeOK, NoReplayInv, [Next]_vars,
                      NEW a \in Accounts \ ChainAccounts
               PROVE  /\ (accepted'[a] # accepted[a]) =
                              (StoredNonce(store', a) # StoredNonce(store, a))
                      /\ accepted'[a] # accepted[a] =>
                              /\ accepted'[a] = accepted[a] + 1
                              /\ StoredNonce(store', a) =
                                     (StoredNonce(store, a) + 1) % NonceMod
    BY DEF NonceStep
  <1>0. /\ a \in Accounts
        /\ nonce_key_hash(a) \in Keys
        /\ chain[nonce_key_hash(a)] = Absent
        /\ accepted[a] \in Nat
    BY KeysIn DEF NoReplayInv, NoReplayAt, TypeOK
  <1>2. ASSUME NEW op \in SignedOps, execute(op)
        PROVE  /\ (accepted'[a] # accepted[a]) =
                       (StoredNonce(store', a) # StoredNonce(store, a))
               /\ accepted'[a] # accepted[a] =>
                       /\ accepted'[a] = accepted[a] + 1
                       /\ StoredNonce(store', a) =
                              (StoredNonce(store, a) + 1) % NonceMod
    <2> DEFINE b == account(op.call)
               s1 == [store EXCEPT ![nonce_key_hash(b)] = (op.nonce + 1) % NonceMod]
    <2>1. b \in Accounts /\ op.call \in Calls /\ op.nonce \in Nonces
      BY DEF SignedOps, Calls, account
    <2>2. CASE ExecuteRejected(op) \/ ExecuteOverflowPanic(op)
      BY <2>2 DEF ExecuteRejected, ExecuteOverflowPanic
    <2>3. CASE ExecuteAccepted(op) /\ b # a
      <3>1. StoreType(s1) BY <2>1, NonceModAssumption, NonceWriteType DEF TypeOK, Nonces
      <3>2. store'[nonce_key_hash(a)] = s1[nonce_key_hash(a)]
        BY <1>0, <2>1, <2>3, <3>1, DispatchKeepsNonces DEF ExecuteAccepted
      <3>3. s1[nonce_key_hash(a)] = store[nonce_key_hash(a)]
        BY <1>0, <2>1, <2>3, NonceKeyInjective DEF TypeOK, StoreType
      <3>4. accepted'[a] = accepted[a] BY <2>3 DEF ExecuteAccepted
      <3> QED BY <3>2, <3>3, <3>4 DEF StoredNonce, Get
    <2>4. CASE ExecuteAccepted(op) /\ b = a
      <3>1. StoreType(s1) BY <2>1, NonceModAssumption, NonceWriteType DEF TypeOK, Nonces
      <3>2. store'[nonce_key_hash(a)] = (op.nonce + 1) % NonceMod
        BY <1>0, <2>1, <2>4, <3>1, DispatchKeepsNonces DEF ExecuteAccepted, StoreType
      <3>3. op.nonce = StoredNonce(store, a) BY <2>4 DEF ExecuteAccepted
      <3>4. /\ (op.nonce + 1) % NonceMod \in Nonces
            /\ (op.nonce + 1) % NonceMod # op.nonce
        BY <2>1, NonceSuccessor
      <3>5. StoredNonce(store', a) = (op.nonce + 1) % NonceMod
        BY <3>2, <3>4, AbsentAssumption, NonceModAssumption DEF StoredNonce, Get, Nonces
      <3>6. accepted'[a] = accepted[a] + 1 BY <1>0, <2>4 DEF ExecuteAccepted, TypeOK
      <3>7. accepted'[a] # accepted[a] BY <1>0, <3>6
      <3>8. StoredNonce(store', a) # StoredNonce(store, a) BY <3>3, <3>4, <3>5
      <3> QED BY <3>3, <3>5, <3>6, <3>7, <3>8
    <2> QED BY <1>2, <2>2, <2>3, <2>4 DEF execute
  <1>3. ASSUME NEW call \in Calls, update_storage(call)
        PROVE  accepted'[a] = accepted[a] /\ StoredNonce(store', a) = StoredNonce(store, a)
    <2> DEFINE ks == {k \in get_storage_hashes_to_update(call) : chain[k] # Absent}
    <2>1. nonce_key_hash(a) \notin ks BY <1>0
    <2>2. store'[nonce_key_hash(a)] = store[nonce_key_hash(a)]
      BY <1>0, <1>3, <2>1 DEF update_storage, SetAll, TypeOK, StoreType
    <2> QED BY <1>3, <2>2 DEF update_storage, StoredNonce, Get
  <1>4. CASE ChainNextPhase \/ (\E c \in ChainAccounts : PublicTransaction(c))
    BY <1>4 DEF ChainNextPhase, PublicTransaction
  <1>5. CASE UNCHANGED vars BY <1>5 DEF vars
  <1> QED BY <1>2, <1>3, <1>4, <1>5 DEF Next

(***************************************************************************)
(* The nonce an account without a public account reads changes exactly     *)
(* when Stf::execute accepts one of its calls, and then by one modulo      *)
(* 2^NonceBits (property NonceAdvancesOncePerCall), for every number of    *)
(* accounts, currencies and nonce width.                                   *)
(***************************************************************************)
THEOREM NonceAdvancesOncePerCallHolds == Spec => NonceAdvancesOncePerCall
  <1>1. Spec => []TypeOK BY TypeCorrect
  <1>2. Spec => []NoReplayInv BY InitNoReplayInv, NextNoReplayInv, TypeCorrect, PTL DEF Spec
  <1>3. TypeOK /\ NoReplayInv /\ [Next]_vars => [NonceStep]_vars BY NextNonceStep
  <1> QED BY <1>1, <1>2, <1>3, PTL DEF Spec, NonceAdvancesOncePerCall


-----------------------------------------------------------------------------
(***************************************************************************)
(* Stf implements Ledger.  The relations between the ledger of a store s  *)
(* and that of its successor t that the abstract actions name.            *)
(***************************************************************************)
SameLedger(s, t) ==
    BalancesOf(t) = BalancesOf(s) /\ RegistrationsOf(t) = RegistrationsOf(s)

TransferOf(s, t, cid, from, to, v) ==
    /\ BalancesOf(s)[cid][from] >= v
    /\ BalancesOf(t) = L!Moved(BalancesOf(s), cid, from, to, v)
    /\ RegistrationsOf(t) = RegistrationsOf(s)

RegisterOf(s, t, cid, c, a) ==
    /\ <<cid, c, a>> \notin RegistrationsOf(s)
    /\ RegistrationsOf(t) = RegistrationsOf(s) \cup {<<cid, c, a>>}
    /\ BalancesOf(t) = BalancesOf(s)

\* A write that leaves every balance key leaves the balances.
LEMMA BalancesKeep ==
    ASSUME NEW u, NEW w, \A k \in BalanceKeys : w[k] = u[k]
    PROVE  BalancesOf(w) = BalancesOf(u)
  BY KeysIn DEF BalancesOf, get_encointer_balance, Get

\* A write that leaves every ParticipantIndex key leaves the registrations.
LEMMA RegistrationsKeep ==
    ASSUME NEW u, NEW w, \A k \in RegistryKeys : w[k] = u[k]
    PROVE  RegistrationsOf(w) = RegistrationsOf(u)
  <1>1. \A r \in Cids \X CeremonyIndices \X Accounts :
            RegistryKey(r[1], r[2], r[3]) \in RegistryKeys
    BY KeysIn
  <1> QED BY <1>1 DEF RegistrationsOf

\* Hence a write that leaves both kinds of keys leaves the ledger.
LEMMA LedgerKeep ==
    ASSUME NEW u, NEW w, \A k \in BalanceKeys \cup RegistryKeys : w[k] = u[k]
    PROVE  SameLedger(u, w)
  BY BalancesKeep, RegistrationsKeep DEF SameLedger

\* Stf::init_state holds the genesis balances and no registration.
LEMMA LedgerInit == Init => L!Init
  <1> SUFFICES ASSUME Init
               PROVE  BalancesOf(store) = GenesisBalance /\ RegistrationsOf(store) = {}
    BY DEF L!Init
  <1>1. ASSUME NEW cid \in Cids, NEW a \in Accounts
        PROVE  get_encointer_balance(store, a, cid) = GenesisBalance[cid][a]
    <2>1. BalanceKey(cid, a) \in BalanceKeys /\ BalanceKey(cid, a) \notin ParamKeys
      BY KeysIn, KindsDisjoint
    <2>2. BalanceKey(cid, a) \in Keys BY <2>1, KeysIn
    <2>3. GenesisBalance[cid][a] \in Nat BY GenesisAssumption
    <2>4. store[BalanceKey(cid, a)] = GenesisValue(BalanceKey(cid, a))
      BY <2>2 DEF Init, init_state
    <2> QED BY <2>1, <2>3, <2>4, AbsentAssumption
            DEF GenesisValue, ParamKeys, BalanceKey, get_encointer_balance, Get
  <1>2. BalancesOf(store) = GenesisBalance
    BY <1>1, GenesisAssumption DEF BalancesOf
  <1>3. ASSUME NEW cid \in Cids, NEW c \in CeremonyIndices, NEW a \in Accounts
        PROVE  store[RegistryKey(cid, c, a)] = Absent
    <2>1. RegistryKey(cid, c, a) \in Keys \ (ParamKeys \cup BalanceKeys)
      BY KeysIn, KindsDisjoint
    <2> QED BY <2>1 DEF Init, init_state, GenesisValue, ParamKeys
  <1> QED BY <1>2, <1>3 DEF RegistrationsOf


\* The balances after a move, account by account.
LEMMA MovedValue ==
    ASSUME NEW B, NEW cid \in Cids, NEW from \in Accounts, NEW to \in Accounts, NEW v,
           B \in [Cids -> [Accounts -> Nat]]
    PROVE  L!Moved(B, cid, from, to, v) =
             [c2 \in Cids |-> [a2 \in Accounts |->
                 IF c2 = cid /\ a2 = to
                 THEN (IF to = from THEN B[cid][from] - v ELSE B[cid][to]) + v
                 ELSE IF c2 = cid /\ a2 = from THEN B[cid][from] - v
                 ELSE B[c2][a2]]]
  <1>1. DOMAIN L!Moved(B, cid, from, to, v) = Cids BY DEF L!Moved
  <1>2. ASSUME NEW c2 \in Cids, c2 # cid
        PROVE  L!Moved(B, cid, from, to, v)[c2] = B[c2]
    BY <1>2 DEF L!Moved
  <1>3. L!Moved(B, cid, from, to, v)[cid] =
          [a2 \in Accounts |->
              IF a2 = to THEN (IF to = from THEN B[cid][from] - v ELSE B[cid][to]) + v
              ELSE IF a2 = from THEN B[cid][from] - v
              ELSE B[cid][a2]]
    BY DEF L!Moved
  <1>4. ASSUME NEW c2 \in Cids
        PROVE  L!Moved(B, cid, from, to, v)[c2] =
                 [a2 \in Accounts |->
                     IF c2 = cid /\ a2 = to
                     THEN (IF to = from THEN B[cid][from] - v ELSE B[cid][to]) + v
                     ELSE IF c2 = cid /\ a2 = from THEN B[cid][from] - v
                     ELSE B[c2][a2]]
    <2>1. CASE c2 = cid BY <2>1, <1>3
    <2>2. CASE c2 # cid
      <3>1. B[c2] = [a2 \in Accounts |-> B[c2][a2]] OBVIOUS
      <3> QED BY <2>2, <1>2, <3>1
    <2> QED BY <2>1, <2>2
  <1> QED BY <1>1, <1>4 DEF L!Moved

(***************************************************************************)
(* EncointerBalancesCall::transfer, on a well-typed store, either fails    *)
(* and writes nothing or moves the amount as Ledger's Transfer does; the   *)
(* credit reads the receiver's balance after the debit, so a transfer to  *)
(* oneself leaves the balance as it was.                                   *)
(***************************************************************************)
LEMMA TransferLedger ==
    ASSUME NEW s, StoreType(s), NEW cid \in Cids, NEW from \in Accounts,
           NEW to \in Accounts, NEW v \in Nat
    PROVE  LET t == transfer(s, from, to, cid, v)
           IN  SameLedger(s, t) \/ TransferOf(s, t, cid, from, to, v)
  <1> DEFINE B == BalancesOf(s)
             bf == get_encointer_balance(s, from, cid)
  <1>0. B \in [Cids -> [Accounts -> Nat]] BY ReadsType DEF BalancesOf
  <1>1. bf = B[cid][from] BY DEF BalancesOf
  <1>2. CASE bf < v BY <1>2 DEF transfer, SameLedger
  <1>3. CASE ~(bf < v)
    <2> DEFINE s2 == [s EXCEPT ![BalanceKey(cid, from)] = bf - v]
               t == [s2 EXCEPT ![BalanceKey(cid, to)] = get_encointer_balance(s2, to, cid) + v]
    <2>1. transfer(s, from, to, cid, v) = t BY <1>3 DEF transfer
    <2>2. /\ BalanceKey(cid, from) \in BalanceKeys /\ BalanceKey(cid, to) \in BalanceKeys
          /\ BalanceKeys \subseteq Keys /\ DOMAIN s = Keys
      BY KeysIn DEF StoreType
    <2>3. RegistrationsOf(t) = RegistrationsOf(s)
      <3>1. BalanceKeys \cap RegistryKeys = {} BY KindsDisjoint
      <3>2. ASSUME NEW k \in RegistryKeys PROVE t[k] = s[k]
        <4>1. k # BalanceKey(cid, from) /\ k # BalanceKey(cid, to) BY <2>2, <3>1
        <4>2. k \in Keys BY KeysIn
        <4> QED BY <2>2, <4>1, <4>2
      <3> QED BY <3>2, RegistrationsKeep
    <2>4. ASSUME NEW c2 \in Cids, NEW a2 \in Accounts
          PROVE  get_encointer_balance(t, a2, c2) =
                   IF c2 = cid /\ a2 = to
                   THEN (IF to = from THEN B[cid][from] - v ELSE B[cid][to]) + v
                   ELSE IF c2 = cid /\ a2 = from THEN B[cid][from] - v
                   ELSE B[c2][a2]
      <3>1. bf \in Nat /\ B[cid][to] \in Nat /\ B[c2][a2] \in Nat BY <1>0, <1>1
      <3>2. get_encointer_balance(s2, to, cid) =
                IF to = from THEN bf - v ELSE B[cid][to]
        BY <2>2, <1>3, <3>1, AbsentAssumption DEF get_encointer_balance, Get, BalancesOf, BalanceKey
      <3>3. CASE c2 = cid /\ a2 = to
        BY <1>1, <1>3, <2>2, <3>1, <3>2, <3>3, AbsentAssumption
        DEF get_encointer_balance, Get
      <3>4. CASE c2 = cid /\ a2 = from /\ a2 # to
        BY <1>1, <1>3, <2>2, <3>1, <3>4, AbsentAssumption
        DEF get_encointer_balance, Get, BalanceKey
      <3>5. CASE ~(c2 = cid /\ a2 = to) /\ ~(c2 = cid /\ a2 = from)
        <4>1. BalanceKey(c2, a2) # BalanceKey(cid, to)
              /\ BalanceKey(c2, a2) # BalanceKey(cid, from)
          BY <3>5 DEF BalanceKey
        <4>2. BalanceKey(c2, a2) \in Keys BY <2>2, KeysIn
        <4> QED BY <2>2, <4>1, <4>2, <3>5 DEF get_encointer_balance, Get, BalancesOf
      <3> QED BY <3>3, <3>4, <3>5
    <2>5. BalancesOf(t) =
             [c2 \in Cids |-> [a2 \in Accounts |->
                 IF c2 = cid /\ a2 = to
                 THEN (IF to = from THEN B[cid][from] - v ELSE B[cid][to]) + v
                 ELSE IF c2 = cid /\ a2 = from THEN B[cid][from] - v
                 ELSE B[c2][a2]]]
      <3>1. ASSUME NEW c2 \in Cids
            PROVE  BalancesOf(t)[c2] =
                     [a2 \in Accounts |->
                         IF c2 = cid /\ a2 = to
                         THEN (IF to = from THEN B[cid][from] - v ELSE B[cid][to]) + v
                         ELSE IF c2 = cid /\ a2 = from THEN B[cid][from] - v
                         ELSE B[c2][a2]]
        BY <2>4 DEF BalancesOf
      <3> QED BY <3>1 DEF BalancesOf
    <2>6. L!Moved(B, cid, from, to, v) =
             [c2 \in Cids |-> [a2 \in Accounts |->
                 IF c2 = cid /\ a2 = to
                 THEN (IF to = from THEN B[cid][from] - v ELSE B[cid][to]) + v
                 ELSE IF c2 = cid /\ a2 = from THEN B[cid][from] - v
                 ELSE B[c2][a2]]]
      BY <1>0, MovedValue
    <2>7. B[cid][from] >= v BY <1>0, <1>1, <1>3
    <2> QED BY <2>1, <2>3, <2>5, <2>6, <2>7 DEF TransferOf
  <1> QED BY <1>2, <1>3


(***************************************************************************)
(* EncointerCeremoniesCall::register_participant either writes nothing or  *)
(* adds one registration, for the ceremony index the store holds, that    *)
(* was not there.                                                          *)
(***************************************************************************)
LEMMA RegisterLedger ==
    ASSUME NEW s, StoreType(s), NEW cid \in Cids, NEW from \in Accounts
    PROVE  LET t == register_participant(s, from, cid)
           IN  \/ SameLedger(s, t)
               \/ \E c \in CeremonyIndices : RegisterOf(s, t, cid, c, from)
  <1> DEFINE ci == StoredCindex(s)
             rk == RegistryKey(cid, ci, from)
             t == [s EXCEPT ![rk] = 1]
  <1>1. ci \in CeremonyIndices BY ReadsType
  <1>2. CASE ~(StoredPhase(s) = "REGISTERING" /\ cid \in StoredCids(s) /\ s[rk] = Absent)
    BY <1>2 DEF register_participant, SameLedger
  <1>3. CASE StoredPhase(s) = "REGISTERING" /\ cid \in StoredCids(s) /\ s[rk] = Absent
    <2>1. register_participant(s, from, cid) = t BY <1>3 DEF register_participant
    <2>2. rk \in RegistryKeys /\ rk \notin BalanceKeys /\ rk \in Keys /\ DOMAIN s = Keys
      BY <1>1, KeysIn, KindsDisjoint DEF StoreType
    <2>3. BalancesOf(t) = BalancesOf(s)
      <3>1. ASSUME NEW k \in BalanceKeys PROVE t[k] = s[k] BY <2>2
      <3> QED BY <3>1, BalancesKeep
    <2>4. <<cid, ci, from>> \notin RegistrationsOf(s) BY <1>3 DEF RegistrationsOf
    <2>5. RegistrationsOf(t) = RegistrationsOf(s) \cup {<<cid, ci, from>>}
      <3>1. ASSUME NEW r \in Cids \X CeremonyIndices \X Accounts
            PROVE  t[RegistryKey(r[1], r[2], r[3])] =
                     IF r = <<cid, ci, from>> THEN 1 ELSE s[RegistryKey(r[1], r[2], r[3])]
        <4>1. RegistryKey(r[1], r[2], r[3]) \in Keys BY KeysIn
        <4>2. RegistryKey(r[1], r[2], r[3]) = rk <=> r = <<cid, ci, from>>
          BY DEF RegistryKey
        <4> QED BY <2>2, <4>1, <4>2
      <3>2. <<cid, ci, from>> \in Cids \X CeremonyIndices \X Accounts BY <1>1
      <3> QED BY <3>1, <3>2, AbsentAssumption DEF RegistrationsOf
    <2> QED BY <1>1, <2>1, <2>3, <2>4, <2>5 DEF RegisterOf
  <1> QED BY <1>2, <1>3

\* Each pallet call Stf::execute dispatches to is a stutter, a transfer or
\* a registration of the ledger.
LEMMA DispatchLedger ==
    ASSUME NEW s, StoreType(s), NEW call \in Calls
    PROVE  LET t == Dispatch(s, call)
           IN  \/ SameLedger(s, t)
               \/ \E cid \in Cids, from, to \in Accounts, v \in Amounts :
                      TransferOf(s, t, cid, from, to, v)
               \/ \E cid \in Cids, c \in CeremonyIndices, a \in Accounts :
                      RegisterOf(s, t, cid, c, a)
  <1>1. CASE call.kind = "balance_transfer"
    <2>1. /\ call.cid \in Cids /\ call.from \in Accounts /\ call.to \in Accounts
          /\ call.value \in Amounts /\ call.value \in Nat
      BY <1>1, AmountsAssumption DEF Calls
    <2>2. Dispatch(s, call) = transfer(s, call.from, call.to, call.cid, call.value)
      BY <1>1 DEF Dispatch
    <2> QED BY <2>1, <2>2, TransferLedger
  <1>2. CASE call.kind # "balance_transfer"
    <2>1. call.cid \in Cids /\ call.from \in Accounts BY DEF Calls
    <2>2. Dispatch(s, call) = register_participant(s, call.from, call.cid)
      BY <1>2 DEF Dispatch
    <2> QED BY <2>1, <2>2, RegisterLedger
  <1> QED BY <1>1, <1>2


(***************************************************************************)
(* Every Stf step is a Ledger step or leaves the ledger as it was.  An     *)
(* accepted execute first writes the nonce, which is no balance or         *)
(* registration key, and then dispatches (DispatchLedger); a rejected or   *)
(* panicking execute and the public chain's steps write nothing to the     *)
(* store; update_storage writes only nonce and scheduler keys.             *)
(***************************************************************************)
LEMMA NextLedger == TypeOK /\ [Next]_vars => [L!Next]_(L!vars)
  <1> SUFFICES ASSUME TypeOK, [Next]_vars PROVE [L!Next]_(L!vars) OBVIOUS
  <1>0. StoreType(store) BY DEF TypeOK
  <1>1. SameLedger(store, store') => UNCHANGED L!vars
    BY DEF SameLedger, L!vars
  <1>2. ASSUME NEW s1, SameLedger(store, s1), StoreType(s1),
               NEW call \in Calls, store' = Dispatch(s1, call)
        PROVE  [L!Next]_(L!vars)
    <2>1. CASE SameLedger(s1, store') BY <1>1, <1>2, <2>1 DEF SameLedger
    <2>2. ASSUME NEW cid \in Cids, NEW from \in Accounts, NEW to \in Accounts,
                 NEW v \in Amounts, TransferOf(s1, store', cid, from, to, v)
          PROVE  L!Next
      <3>1. L!Transfer(cid, from, to, v) BY <1>2, <2>2 DEF SameLedger, TransferOf, L!Transfer
      <3> QED BY <3>1 DEF L!Next
    <2>3. ASSUME NEW cid \in Cids, NEW c \in CeremonyIndices, NEW a \in Accounts,
                 RegisterOf(s1, store', cid, c, a)
          PROVE  L!Next
      <3>1. L!Register(cid, c, a) BY <1>2, <2>3 DEF SameLedger, RegisterOf, L!Register
      <3> QED BY <3>1 DEF L!Next
    <2> QED BY <1>2, <2>1, <2>2, <2>3, DispatchLedger
  <1>3. ASSUME NEW op \in SignedOps, execute(op) PROVE [L!Next]_(L!vars)
    <2> DEFINE b == account(op.call)
               s1 == [store EXCEPT ![nonce_key_hash(b)] = (op.nonce + 1) % NonceMod]
    <2>1. b \in Accounts /\ op.call \in Calls /\ op.nonce \in Nonces
      BY DEF SignedOps, Calls, account
    <2>2. CASE ExecuteRejected(op) \/ ExecuteOverflowPanic(op)
      BY <1>1, <2>2 DEF ExecuteRejected, ExecuteOverflowPanic, SameLedger
    <2>3. CASE ExecuteAccepted(op)
      <3>1. StoreType(s1) BY <1>0, <2>1, NonceSuccessor, NonceWriteType
      <3>2. SameLedger(store, s1)
        <4>1. nonce_key_hash(b) \in NonceKeys BY <2>1, KeysIn
        <4>2. ASSUME NEW k \in BalanceKeys \cup RegistryKeys PROVE s1[k] = store[k]
          BY <4>1, KindsDisjoint
        <4> QED BY <4>2, LedgerKeep
      <3>3. store' = Dispatch(s1, op.call) BY <2>3 DEF ExecuteAccepted
      <3> QED BY <2>1, <3>1, <3>2, <3>3, <1>2
    <2> QED BY <1>3, <2>2, <2>3 DEF execute
  <1>4. ASSUME NEW call \in Calls, update_storage(call) PROVE [L!Next]_(L!vars)
    <2> DEFINE ks == {k \in get_storage_hashes_to_update(call) : chain[k] # Absent}
    <2>1. ks \subseteq NonceKeys \cup SchedulerKeys
      BY KeysIn DEF get_storage_hashes_to_update, account, Calls
    <2>2. ASSUME NEW k \in BalanceKeys \cup RegistryKeys PROVE store'[k] = store[k]
      <3>1. k \notin ks /\ k \in Keys BY <2>1, KindsDisjoint, KeysIn
      <3> QED BY <1>0, <1>4, <3>1 DEF update_storage, SetAll, StoreType
    <2> QED BY <2>2, LedgerKeep, <1>1
  <1>5. CASE ChainNextPhase \/ (\E c \in ChainAccounts : PublicTransaction(c))
    BY <1>5 DEF ChainNextPhase, PublicTransaction, L!vars
  <1>6. CASE UNCHANGED vars BY <1>6 DEF vars, L!vars
  <1> QED BY <1>3, <1>4, <1>5, <1>6 DEF Next

(***************************************************************************)
(* Stf implements the abstract Ledger (property LedgerRefinement), for     *)
(* every set of accounts, currencies and amounts and every nonce width:    *)
(* under the mapping of the store to balances and registrations, Stf's     *)
(* initial state is Ledger's and each Stf step is a Ledger step or a       *)
(* stutter.                                                                *)
(***************************************************************************)
THEOREM StfImplementsLedger == Spec => LedgerRefinement
  <1>1. Init => L!Init BY LedgerInit
  <1>2. TypeOK /\ [Next]_vars => [L!Next]_(L!vars) BY NextLedger
  <1> QED BY <1>1, <1>2, TypeCorrect, PTL DEF Spec, LedgerRefinement, L!Spec

=============================================================================
