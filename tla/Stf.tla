-------------------------------- MODULE Stf --------------------------------
(***************************************************************************)
(* The enclave's state transition function (src/stf/src/sgx.rs): one       *)
(* shard's key-value state, the nonce guard and call dispatch of           *)
(* Stf::execute, the read-only Stf::get_state, and the refresh of storage  *)
(* from the public chain through Stf::update_storage on the keys that      *)
(* Stf::get_storage_hashes_to_update names.  The public chain is the       *)
(* environment: its scheduler advances the ceremony phase and index and    *)
(* public accounts send extrinsics that raise their public nonce.          *)
(*                                                                         *)
(* Storage keys are the tuples the key derivation is applied to; the hash  *)
(* layout itself is the subject of module KeyDeriver.  Nonces are u32 in  *)
(* the code; here they are NonceBits wide so that the wrap of nonce + 1 is *)
(* reachable.  The two pallets dispatched to (encointer balances and       *)
(* ceremonies) are not part of this repository and are modelled from the  *)
(* spec by their effect on the keys they write.                            *)
(***************************************************************************)
EXTENDS Integers

CONSTANTS
    Accounts,          \* incognito accounts that sign trusted calls
    ChainAccounts,     \* those of them that also have an account on the public chain
    Cids,              \* currency identifiers; one shard per currency
    Amounts,           \* amounts a transfer may carry
    Absent,            \* no value stored at a key
    NonceBits,         \* width of the nonce (32 in the code)
    MaxCalls,          \* bound: accepted calls per account
    MaxCeremonyIndex,  \* bound: ceremony index the public scheduler reaches
    MaxBalance,        \* bound: largest balance of an account
    GenesisBalance     \* balances of the shard when the run starts

\* Absent is no value the store holds.
ASSUME AbsentAssumption == Absent \notin Nat
ASSUME AccountsAssumption == ChainAccounts \subseteq Accounts
ASSUME NonceBitsAssumption == NonceBits \in Nat \ {0}
ASSUME MaxCallsAssumption == MaxCalls \in Nat
\* The public scheduler starts at ceremony index 1.
ASSUME MaxCeremonyIndexAssumption == MaxCeremonyIndex \in Nat \ {0}
ASSUME AmountsAssumption == Amounts \subseteq Nat \ {0}
ASSUME GenesisAssumption ==
    GenesisBalance \in [Cids -> [Accounts -> 0..MaxBalance]]

NonceMod == 2^NonceBits
Nonces == 0..(NonceMod - 1)

\* A nonce of NonceBits >= 1 bits has at least two values.
ASSUME NonceModAssumption == NonceMod \in Nat /\ NonceMod >= 2

\* CeremonyPhaseType; REGISTERING is its Default.
Phases == {"REGISTERING", "ASSIGNING", "ATTESTING"}

-----------------------------------------------------------------------------
(***************************************************************************)
(* Storage keys (sgx.rs storage_value_key, storage_map_key,                *)
(* storage_double_map_key): module prefix, storage prefix and map keys.    *)
(***************************************************************************)
storage_value_key(m, s) == <<m, s>>
storage_map_key(m, s, k) == <<m, s, k>>
storage_double_map_key(m, s, k1, k2) == <<m, s, k1, k2>>

\* The AccountInfo key where the nonce is stored.
nonce_key_hash(a) == storage_map_key("System", "Account", a)

BalanceKey(cid, a) == storage_double_map_key("EncointerBalances", "Balance", cid, a)
PhaseKey == storage_value_key("EncointerScheduler", "CurrentPhase")
CindexKey == storage_value_key("EncointerScheduler", "CurrentCeremonyIndex")
CurrencyIdsKey == storage_value_key("EncointerCurrencies", "CurrencyIdentifiers")
RewardKey == storage_value_key("EncointerCeremonies", "CeremonyReward")
TimeToleranceKey == storage_value_key("EncointerCeremonies", "TimeTolerance")
LocationToleranceKey == storage_value_key("EncointerCeremonies", "LocationTolerance")
\* ParticipantIndex of the ceremonies pallet, keyed by (cid, cindex) and account.
RegistryKey(cid, c, a) ==
    storage_double_map_key("EncointerCeremonies", "ParticipantIndex", <<cid, c>>, a)

CeremonyIndices == 0..MaxCeremonyIndex

ParamKeys == {RewardKey, TimeToleranceKey, LocationToleranceKey}
SchedulerKeys == {PhaseKey, CindexKey, CurrencyIdsKey}
NonceKeys == {nonce_key_hash(a) : a \in Accounts}
BalanceKeys == {BalanceKey(cid, a) : cid \in Cids, a \in Accounts}
RegistryKeys == {RegistryKey(cid, c, a) : cid \in Cids, c \in CeremonyIndices, a \in Accounts}
Keys == ParamKeys \cup SchedulerKeys \cup NonceKeys \cup BalanceKeys \cup RegistryKeys
\* Keys of the public chain that the worker reads.
ChainKeys == SchedulerKeys \cup NonceKeys

-----------------------------------------------------------------------------
(***************************************************************************)
(* Trusted calls and signed operations.  A signed operation is a call,     *)
(* the nonce it was signed with, and its signer, the call's account.       *)
(***************************************************************************)
Calls ==
    [kind : {"balance_transfer"}, from : Accounts, to : Accounts,
     cid : Cids, value : Amounts]
    \cup [kind : {"ceremonies_register_participant"}, from : Accounts, cid : Cids]

SignedOps == [call : Calls, nonce : Nonces]

\* TrustedCall::account()
account(call) == call.from

VARIABLES
    store,     \* the shard's State: Keys -> value or Absent
    chain,     \* the public chain's storage at ChainKeys
    aborted,   \* the enclave panicked; the execution context is gone
    accepted,  \* history: calls accepted per account
    applied    \* history: how often each signed operation was applied

vars == <<store, chain, aborted, accepted, applied>>

-----------------------------------------------------------------------------
(***************************************************************************)
(* Reads of a store s, with the defaults the code uses for an absent value.*)
(***************************************************************************)
Get(s, k, default) == IF s[k] = Absent THEN default ELSE s[k]
\* u32::decode(get(nonce_key).unwrap_or(0.encode()))
StoredNonce(s, a) == Get(s, nonce_key_hash(a), 0)
\* The pallets read absent scheduler values as their Default.
StoredPhase(s) == Get(s, PhaseKey, "REGISTERING")
StoredCindex(s) == Get(s, CindexKey, 0)
StoredCids(s) == Get(s, CurrencyIdsKey, {})
\* get_encointer_balance: an absent entry reads as zero.
get_encointer_balance(s, who, cid) == Get(s, BalanceKey(cid, who), 0)

\* Writing a map of key-value pairs over the store (sp_io::storage::set).
SetAll(s, m) == [k \in DOMAIN s |-> IF k \in DOMAIN m THEN m[k] ELSE s[k]]

-----------------------------------------------------------------------------
(***************************************************************************)
(* Stf::init_state: only the ceremony parameters are seeded.  The balances *)
(* of the shard when a run starts are GenesisBalance: the ceremony rewards *)
(* the pallet issued before the run, stored as Absent where zero.          *)
(***************************************************************************)
GenesisValue(k) ==
    IF k = RewardKey THEN 1
    ELSE IF k = TimeToleranceKey THEN 600000     \* +-10min
    ELSE IF k = LocationToleranceKey THEN 1000   \* [m]
    ELSE IF k \in BalanceKeys /\ GenesisBalance[k[3]][k[4]] > 0
         THEN GenesisBalance[k[3]][k[4]]
    ELSE Absent

init_state == [k \in Keys |-> GenesisValue(k)]

\* The public chain when the run starts.
ChainInit ==
    [k \in ChainKeys |->
        IF k = PhaseKey THEN "REGISTERING"
        ELSE IF k = CindexKey THEN 1
        ELSE IF k = CurrencyIdsKey THEN Cids
        ELSE IF k \in {nonce_key_hash(a) : a \in ChainAccounts} THEN 0
        ELSE Absent]

Init ==
    /\ store = init_state
    /\ chain = ChainInit
    /\ aborted = FALSE
    /\ accepted = [a \in Accounts |-> 0]
    /\ applied = [op \in SignedOps |-> 0]

-----------------------------------------------------------------------------
(***************************************************************************)
(* The pallet calls that Stf::execute dispatches to, as functions of the   *)
(* store they run on.  Their DispatchResult is discarded by execute.       *)
(***************************************************************************)
\* Mutant: the receiver's balance is read before the sender is debited.
transfer_StaleTo(s, from, to, cid, value) ==
    LET bf == get_encointer_balance(s, from, cid)
    IN  IF bf < value THEN s
        ELSE LET s1 == [s EXCEPT ![BalanceKey(cid, from)] = bf - value]
             IN  [s1 EXCEPT ![BalanceKey(cid, to)] =
                        get_encointer_balance(s, to, cid) + value]

\* EncointerBalancesCall::transfer: fails, writing nothing, when the
\* sender's balance is short.
transfer(s, from, to, cid, value) ==
    LET bf == get_encointer_balance(s, from, cid)
    IN  IF bf < value THEN s
        ELSE LET s1 == [s EXCEPT ![BalanceKey(cid, from)] = bf - value]
             IN  [s1 EXCEPT ![BalanceKey(cid, to)] =
                        get_encointer_balance(s1, to, cid) + value]

\* EncointerCeremoniesCall::register_participant: only in the REGISTERING
\* phase, for a known currency, once per ceremony.
register_participant(s, from, cid) ==
    LET rk == RegistryKey(cid, StoredCindex(s), from)
    IN  IF /\ StoredPhase(s) = "REGISTERING"
           /\ cid \in StoredCids(s)
           /\ s[rk] = Absent
        THEN [s EXCEPT ![rk] = 1]
        ELSE s

Dispatch(s, call) ==
    IF call.kind = "balance_transfer"
    THEN transfer(s, call.from, call.to, call.cid, call.value)
    ELSE register_participant(s, call.from, call.cid)

-----------------------------------------------------------------------------
(***************************************************************************)
(* Stf::execute(ext, call, nonce): inside execute_with, assert that nonce  *)
(* equals the stored nonce of the call's account (0 if absent), store      *)
(* nonce + 1, then dispatch.  A failed assert panics the enclave before    *)
(* anything is written.  nonce + 1 on u32::MAX panics in a debug build and *)
(* wraps to 0 in a release build.                                          *)
(***************************************************************************)
ExecuteRejected(op) ==
    /\ op.nonce # StoredNonce(store, account(op.call))
    /\ aborted' = TRUE
    /\ UNCHANGED <<store, chain, accepted, applied>>

ExecuteOverflowPanic(op) ==
    /\ op.nonce = StoredNonce(store, account(op.call))
    /\ op.nonce = NonceMod - 1
    /\ aborted' = TRUE
    /\ UNCHANGED <<store, chain, accepted, applied>>

\* Mutant: the assert_eq! on the nonce is dropped.
ExecuteAcceptedNoNonceCheck(op) ==
    LET a == account(op.call)
    IN  /\ store' = Dispatch([store EXCEPT ![nonce_key_hash(a)] =
                                    (op.nonce + 1) % NonceMod], op.call)
        /\ accepted' = [accepted EXCEPT ![a] = @ + 1]
        /\ applied' = [applied EXCEPT ![op] = @ + 1]
        /\ UNCHANGED <<chain, aborted>>

\* Mutant: nonce + 1 is stored in a wider integer that never wraps.
ExecuteAcceptedUnwrapped(op) ==
    LET a == account(op.call)
    IN  /\ op.nonce = StoredNonce(store, a)
        /\ store' = Dispatch([store EXCEPT ![nonce_key_hash(a)] = op.nonce + 1],
                             op.call)
        /\ accepted' = [accepted EXCEPT ![a] = @ + 1]
        /\ applied' = [applied EXCEPT ![op] = @ + 1]
        /\ UNCHANGED <<chain, aborted>>

ExecuteAccepted(op) ==
    LET a == account(op.call)
    IN  /\ op.nonce = StoredNonce(store, a)
        /\ store' = Dispatch([store EXCEPT ![nonce_key_hash(a)] =
                                    (op.nonce + 1) % NonceMod], op.call)
        /\ accepted' = [accepted EXCEPT ![a] = @ + 1]
        /\ applied' = [applied EXCEPT ![op] = @ + 1]
        /\ UNCHANGED <<chain, aborted>>

execute(op) ==
    /\ ~aborted
    /\ accepted[account(op.call)] < MaxCalls
    /\ \/ ExecuteRejected(op)
       \/ ExecuteOverflowPanic(op)
       \/ ExecuteAccepted(op)

(***************************************************************************)
(* Stf::get_storage_hashes_to_update(call): the keys to refresh from the   *)
(* public chain for a call.                                                *)
(***************************************************************************)
get_storage_hashes_to_update(call) ==
    IF call.kind = "balance_transfer"
    THEN {nonce_key_hash(account(call))}
    ELSE {PhaseKey, CindexKey, CurrencyIdsKey}

(***************************************************************************)
(* Stf::update_storage(ext, map_update), with the map the worker builds    *)
(* from the public chain's values at get_storage_hashes_to_update(call);   *)
(* a key the chain holds no value for is left out of the map.              *)
(***************************************************************************)
\* Mutant: keys the chain holds no value for are written as absent.
update_storage_AllKeys(call) ==
    /\ ~aborted
    /\ LET ks == get_storage_hashes_to_update(call)
       IN  store' = SetAll(store, [k \in ks |-> chain[k]])
    /\ UNCHANGED <<chain, aborted, accepted, applied>>

update_storage(call) ==
    /\ ~aborted
    /\ LET ks == {k \in get_storage_hashes_to_update(call) : chain[k] # Absent}
       IN  store' = SetAll(store, [k \in ks |-> chain[k]])
    /\ UNCHANGED <<chain, aborted, accepted, applied>>

(***************************************************************************)
(* Stf::get_state(ext, getter): TrustedGetter::balance answers with the    *)
(* balance, zero when absent.  It writes nothing.                          *)
(***************************************************************************)
get_state(s, who, cid) == get_encointer_balance(s, who, cid)

-----------------------------------------------------------------------------
(***************************************************************************)
(* The public chain (environment).  Its scheduler cycles the ceremony      *)
(* phases and raises the ceremony index after ATTESTING; a public account  *)
(* that sends an extrinsic raises its public nonce.                        *)
(***************************************************************************)
NextPhase(p) ==
    IF p = "REGISTERING" THEN "ASSIGNING"
    ELSE IF p = "ASSIGNING" THEN "ATTESTING"
    ELSE "REGISTERING"

ChainNextPhase ==
    /\ chain[PhaseKey] = "ATTESTING" => chain[CindexKey] < MaxCeremonyIndex
    /\ chain' = [chain EXCEPT
                    ![PhaseKey] = NextPhase(@),
                    ![CindexKey] = IF chain[PhaseKey] = "ATTESTING" THEN @ + 1 ELSE @]
    /\ UNCHANGED <<store, aborted, accepted, applied>>

PublicTransaction(a) ==
    /\ chain[nonce_key_hash(a)] # Absent
    /\ chain[nonce_key_hash(a)] < NonceMod - 1
    /\ chain' = [chain EXCEPT ![nonce_key_hash(a)] = @ + 1]
    /\ UNCHANGED <<store, aborted, accepted, applied>>

Next ==
    \/ \E op \in SignedOps : execute(op)
    \/ \E call \in Calls : update_storage(call)
    \/ ChainNextPhase
    \/ \E a \in ChainAccounts : PublicTransaction(a)

Spec == Init /\ [][Next]_vars

-----------------------------------------------------------------------------
(***************************************************************************)
(* Properties.                                                             *)
(***************************************************************************)
\* The values a store holds at each kind of key.
StoreType(s) ==
    /\ DOMAIN s = Keys
    /\ \A k \in ParamKeys : s[k] \in Nat
    /\ \A k \in RegistryKeys : s[k] \in {1, Absent}
    /\ \A a \in Accounts : s[nonce_key_hash(a)] \in Nonces \cup {Absent}
    /\ \A cid \in Cids, a \in Accounts : s[BalanceKey(cid, a)] \in Nat \cup {Absent}
    /\ s[PhaseKey] \in Phases \cup {Absent}
    /\ s[CindexKey] \in CeremonyIndices \cup {Absent}
    /\ s[CurrencyIdsKey] \in {Cids, Absent}

ChainType ==
    /\ DOMAIN chain = ChainKeys
    /\ \A a \in Accounts : chain[nonce_key_hash(a)] \in Nonces \cup {Absent}
    /\ chain[PhaseKey] \in Phases
    /\ chain[CindexKey] \in CeremonyIndices
    /\ chain[CurrencyIdsKey] = Cids

\* Type invariant: the enclave store, the chain's entries and the history
\* variables hold values of the kinds Stf::execute and update_storage write.
TypeOK ==
    /\ StoreType(store)
    /\ ChainType
    /\ aborted \in BOOLEAN
    /\ accepted \in [Accounts -> 0..MaxCalls]
    /\ applied \in [SignedOps -> Nat]

(***************************************************************************)
(* Replay protection of Stf::execute (spec 4.3, 8): a signed trusted call  *)
(* is applied at most once.  Stated for the accounts that have no account  *)
(* on the public chain, and only while fewer than 2^NonceBits calls of the *)
(* account were accepted: update_storage refreshes the nonce key of a      *)
(* public account from the chain, and nonce + 1 wraps after 2^NonceBits    *)
(* calls (run replay_via_chain_nonce shows the first is needed).         *)
(***************************************************************************)
NoReplay ==
    \A a \in Accounts \ ChainAccounts :
        accepted[a] <= NonceMod =>
            \A op \in SignedOps : account(op.call) = a => applied[op] <= 1

(***************************************************************************)
(* The inductive strengthening of NoReplay used by its proof: the public   *)
(* chain holds no nonce for an account without a public account; until    *)
(* its nonce first wraps, its stored nonce is its number of accepted       *)
(* calls, and every applied operation of it was applied once and signed    *)
(* with a nonce below that number.                                         *)
(***************************************************************************)
NoReplayAt(a) ==
    /\ chain[nonce_key_hash(a)] = Absent
    /\ accepted[a] < NonceMod => StoredNonce(store, a) = accepted[a]
    /\ accepted[a] <= NonceMod =>
          \A op \in SignedOps : account(op.call) = a =>
              /\ applied[op] <= 1
              /\ applied[op] >= 1 => op.nonce < accepted[a]

NoReplayInv == \A a \in Accounts \ ChainAccounts : NoReplayAt(a)

(***************************************************************************)
(* The same claim without exemptions, as the spec states it: every signed  *)
(* operation is applied at most once.                                      *)
(***************************************************************************)
ReplayRejected == \A op \in SignedOps : applied[op] <= 1

(***************************************************************************)
(* The nonce an account without a public account reads in the store       *)
(* changes exactly when one of its calls is accepted by Stf::execute, and  *)
(* then by one (mod 2^NonceBits): neither update_storage, nor a rejected   *)
(* or panicking execute, nor another account's call moves it.              *)
(***************************************************************************)
NonceStep ==
    \A a \in Accounts \ ChainAccounts :
        /\ (accepted'[a] # accepted[a]) =
               (StoredNonce(store', a) # StoredNonce(store, a))
        /\ accepted'[a] # accepted[a] =>
               /\ accepted'[a] = accepted[a] + 1
               /\ StoredNonce(store', a) = (StoredNonce(store, a) + 1) % NonceMod

NonceAdvancesOncePerCall == [][NonceStep]_vars


(***************************************************************************)
(* The ledger the store represents: each balance as get_encointer_balance *)
(* reads it (absent is zero), and the registrations whose ParticipantIndex *)
(* entry is present.                                                       *)
(***************************************************************************)
BalancesOf(s) ==
    [cid \in Cids |-> [a \in Accounts |-> get_encointer_balance(s, a, cid)]]

RegistrationsOf(s) ==
    {r \in Cids \X CeremonyIndices \X Accounts : s[RegistryKey(r[1], r[2], r[3])] # Absent}

L == INSTANCE Ledger WITH balance <- BalancesOf(store), registered <- RegistrationsOf(store)

(***************************************************************************)
(* Stf implements the abstract Ledger: every step of execute (accepted,    *)
(* rejected or panicking), of update_storage and of the public chain moves *)
(* balances only as one covered transfer does, adds at most one new        *)
(* registration, or leaves both alone.                                     *)
(***************************************************************************)
LedgerRefinement == L!Spec

=============================================================================
