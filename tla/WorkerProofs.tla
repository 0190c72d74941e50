---------------------------- MODULE WorkerProofs ----------------------------
(***************************************************************************)
(* Proofs about Worker, for every bound on the queue and the submissions.  *)
(*                                                                         *)
(* Worker EXTENDS Stf, so the refinement mapping is the identity on Stf's  *)
(* variables and hides the worker's.  A worker step is an Stf step only if *)
(* the call at the head of the queue is a call Stf knows: the inductive    *)
(* invariant is Stf's type invariant and the queue holding signed          *)
(* operations of Calls.                                                    *)
(***************************************************************************)
EXTENDS Worker, StfProofs, TLAPS

IInvW == TypeOK /\ queue \in Seq(Entries)

\* The entry "transfer" submits is an entry of the queue.
LEMMA TransferEntry ==
    ASSUME NEW from \in Accounts, NEW to \in Accounts, NEW cid \in Cids,
           NEW value \in Amounts
    PROVE  [op |-> [call |-> [kind |-> "balance_transfer", from |-> from,
                              to |-> to, cid |-> cid, value |-> value],
                    nonce |-> 0],
            proof |-> {}] \in Entries
  <1>1. 0 \in Nonces BY NonceModAssumption DEF Nonces
  <1> QED BY <1>1 DEF Entries, SignedOps, Calls

\* The entry "register-participant" submits is an entry of the queue.
LEMMA RegisterEntry ==
    ASSUME TypeOK, NEW who \in Accounts, NEW cid \in Cids, NEW rep \in BOOLEAN
    PROVE  [op |-> [call |-> [kind |-> "ceremonies_register_participant",
                              from |-> who, cid |-> cid],
                    nonce |-> 0],
            proof |-> IF rep THEN {chain[CindexKey] - 1} ELSE {}] \in Entries
  <1>1. 0 \in Nonces BY NonceModAssumption DEF Nonces
  <1>2. chain[CindexKey] - 1 \in Int BY DEF TypeOK, ChainType, CeremonyIndices
  <1> QED BY <1>1, <1>2 DEF Entries, SignedOps, Calls

\* The worker's initial state is one of Stf's, with an empty queue.
LEMMA WInitIInv == WInit => Init /\ IInvW
  <1> SUFFICES ASSUME WInit PROVE Init /\ IInvW OBVIOUS
  <1>1. Init BY DEF WInit
  <1>2. TypeOK BY <1>1, InitTypeOK
  <1>3. queue \in Seq(Entries) BY DEF WInit
  <1> QED BY <1>1, <1>2, <1>3 DEF IInvW

\* Every worker step is an Stf step or leaves Stf's variables alone.
LEMMA WNextStf == IInvW /\ [WNext]_allVars => [Next]_vars
  <1> SUFFICES ASSUME IInvW, [WNext]_allVars PROVE [Next]_vars OBVIOUS
  <1>1. CASE \E from, to \in Accounts, cid \in Cids, value \in Amounts :
               CliTransfer(from, to, cid, value)
    BY <1>1 DEF CliTransfer, Submit
  <1>2. CASE \E who \in Accounts, cid \in Cids, rep \in BOOLEAN :
                 CliRegisterParticipant(who, cid, rep)
    BY <1>2 DEF CliRegisterParticipant, Submit
  <1>3. CASE WorkerSync
    <2>1. Head(queue) \in Entries BY <1>3 DEF WorkerSync, IInvW
    <2>2. Head(queue).op.call \in Calls BY <2>1 DEF Entries, SignedOps
    <2> QED BY <1>3, <2>2 DEF WorkerSync, Next
  <1>4. CASE WorkerExecute
    <2>1. Head(queue) \in Entries BY <1>4 DEF WorkerExecute, IInvW
    <2>2. Head(queue).op \in SignedOps BY <2>1 DEF Entries
    <2> QED BY <1>4, <2>2 DEF WorkerExecute, Next
  <1>5. CASE ChainStep
    BY <1>5 DEF ChainStep, Next
  <1>6. CASE UNCHANGED allVars
    BY <1>6 DEF allVars
  <1> QED BY <1>1, <1>2, <1>3, <1>4, <1>5, <1>6 DEF WNext

\* Every worker step preserves the inductive invariant.
LEMMA WNextIInv == IInvW /\ [WNext]_allVars => IInvW'
  <1> SUFFICES ASSUME IInvW, [WNext]_allVars PROVE IInvW' OBVIOUS
  <1>1. TypeOK' BY WNextStf, NextTypeOK DEF IInvW
  <1>2. queue' \in Seq(Entries)
    <2>0. TypeOK /\ queue \in Seq(Entries) BY DEF IInvW
    <2>1. CASE \E from, to \in Accounts, cid \in Cids, value \in Amounts :
                 CliTransfer(from, to, cid, value)
      <3>1. PICK from, to \in Accounts, cid \in Cids, value \in Amounts :
                   CliTransfer(from, to, cid, value)
        BY <2>1
      <3>2. [op |-> [call |-> [kind |-> "balance_transfer", from |-> from,
                               to |-> to, cid |-> cid, value |-> value],
                     nonce |-> 0],
             proof |-> {}] \in Entries
        BY TransferEntry
      <3> QED BY <3>1, <3>2, <2>0 DEF CliTransfer, Submit
    <2>2. CASE \E who \in Accounts, cid \in Cids, rep \in BOOLEAN :
                 CliRegisterParticipant(who, cid, rep)
      <3>1. PICK who \in Accounts, cid \in Cids, rep \in BOOLEAN :
                   CliRegisterParticipant(who, cid, rep)
        BY <2>2
      <3>2. [op |-> [call |-> [kind |-> "ceremonies_register_participant",
                               from |-> who, cid |-> cid],
                     nonce |-> 0],
             proof |-> IF rep THEN {chain[CindexKey] - 1} ELSE {}] \in Entries
        BY <2>0, RegisterEntry
      <3> QED BY <3>1, <3>2, <2>0 DEF CliRegisterParticipant, Submit
    <2>3. CASE WorkerSync BY <2>3 DEF WorkerSync, IInvW
    <2>4. CASE WorkerExecute BY <2>4 DEF WorkerExecute, IInvW
    <2>5. CASE ChainStep BY <2>5 DEF ChainStep, workerVars, IInvW
    <2>6. CASE UNCHANGED allVars BY <2>6 DEF allVars, workerVars, IInvW
    <2> QED BY <2>1, <2>2, <2>3, <2>4, <2>5, <2>6 DEF WNext
  <1> QED BY <1>1, <1>2 DEF IInvW

(***************************************************************************)
(* The client's commands and the worker's sync-then-execute loop change    *)
(* the enclave's state only by steps Stf allows: the worker implements     *)
(* Stf (StfRefinement), which carries Stf's theorems over to the worker.   *)
(***************************************************************************)
LEMMA WorkerRefinesStf == WSpec => StfRefinement
  <1>1. WInit => Init /\ IInvW BY WInitIInv
  <1>2. IInvW /\ [WNext]_allVars => IInvW' BY WNextIInv
  <1>3. IInvW /\ [WNext]_allVars => [Next]_vars BY WNextStf
  <1> QED BY <1>1, <1>2, <1>3, PTL DEF WSpec, StfRefinement, Spec

(***************************************************************************)
(* Replay protection holds of the composed system: through the worker's    *)
(* queue, a signed call of an account with no public nonce is applied at   *)
(* most once (Stf's NoReplay carried over the refinement).                 *)
(***************************************************************************)
THEOREM WorkerNoReplay == WSpec => []NoReplay
  BY WorkerRefinesStf, NoReplayHolds DEF StfRefinement

-----------------------------------------------------------------------------
(***************************************************************************)
(* Why only an account's first call can abort the enclave.  The client     *)
(* signs every call with nonce 0, so execute panics only on a stored       *)
(* nonce other than 0 (0 + 1 cannot overflow).  A stored nonce leaves 0    *)
(* only by an accepted call of the account, or by update_storage copying   *)
(* the chain's System::Account entry, and the chain's nonce only grows.    *)
(***************************************************************************)
QueueNonceZero == \A i \in 1..Len(queue) : queue[i].op.nonce = 0

NonceFromCallsOrChain ==
    \A a \in Accounts :
        accepted[a] = 0 /\ StoredNonce(store, a) # 0 =>
            chain[nonce_key_hash(a)] \notin {0, Absent}

IInvA ==
    /\ IInvW
    /\ QueueNonceZero
    /\ NonceFromCallsOrChain
    /\ culprit \in Accounts
    /\ AbortOnlyAfterFirstCall

\* An Stf step keeps the stored nonces explained by calls or by the chain.
LEMMA NonceFromCallsOrChainStep ==
    TypeOK /\ NonceFromCallsOrChain /\ [Next]_vars => NonceFromCallsOrChain'
  <1> SUFFICES ASSUME TypeOK, NonceFromCallsOrChain, [Next]_vars,
                      NEW a \in Accounts,
                      accepted'[a] = 0, StoredNonce(store', a) # 0
               PROVE  chain'[nonce_key_hash(a)] \notin {0, Absent}
    BY DEF NonceFromCallsOrChain
  <1> DEFINE na == nonce_key_hash(a)
  <1>0. /\ na \in Keys /\ na \in ChainKeys /\ na \in NonceKeys
        /\ na # PhaseKey /\ na # CindexKey
        /\ accepted[a] \in Nat
    BY KeysIn, KindsDisjoint DEF ChainKeys, TypeOK
  <1>1. ASSUME NEW op \in SignedOps, execute(op)
        PROVE  chain'[na] \notin {0, Absent}
    <2> DEFINE b == account(op.call)
               s1 == [store EXCEPT ![nonce_key_hash(b)] = (op.nonce + 1) % NonceMod]
    <2>1. b \in Accounts /\ op.call \in Calls /\ op.nonce \in Nonces
      BY DEF SignedOps, Calls, account
    <2>2. CASE ExecuteRejected(op) \/ ExecuteOverflowPanic(op)
      BY <2>2 DEF ExecuteRejected, ExecuteOverflowPanic, NonceFromCallsOrChain
    <2>3. CASE ExecuteAccepted(op) /\ b = a
      BY <1>0, <2>3 DEF ExecuteAccepted, TypeOK
    <2>4. CASE ExecuteAccepted(op) /\ b # a
      <3>1. StoreType(s1) BY <2>1, NonceModAssumption, NonceWriteType DEF Nonces, TypeOK
      <3>2. store'[na] = s1[na]
        BY <2>1, <2>4, <3>1, DispatchKeepsNonces DEF ExecuteAccepted
      <3>3. s1[na] = store[na]
        BY <1>0, <2>1, <2>4, NonceKeyInjective DEF StoreType, TypeOK
      <3>4. accepted'[a] = accepted[a] /\ chain' = chain
        BY <2>4 DEF ExecuteAccepted, TypeOK
      <3> QED BY <3>2, <3>3, <3>4 DEF NonceFromCallsOrChain, StoredNonce, Get
    <2> QED BY <1>1, <2>2, <2>3, <2>4 DEF execute
  <1>2. ASSUME NEW call \in Calls, update_storage(call)
        PROVE  chain'[na] \notin {0, Absent}
    <2> DEFINE ks == {k \in get_storage_hashes_to_update(call) : chain[k] # Absent}
    <2>1. store' = SetAll(store, [k \in ks |-> chain[k]])
          /\ UNCHANGED <<chain, accepted>>
      BY <1>2 DEF update_storage
    <2>2. CASE na \in ks
      <3>1. store'[na] = chain[na] /\ chain[na] # Absent
        BY <1>0, <2>1, <2>2 DEF SetAll, TypeOK, StoreType
      <3> QED BY <2>1, <3>1 DEF StoredNonce, Get
    <2>3. CASE na \notin ks
      <3>1. store'[na] = store[na] BY <1>0, <2>1, <2>3 DEF SetAll, TypeOK, StoreType
      <3> QED BY <2>1, <3>1 DEF NonceFromCallsOrChain, StoredNonce, Get
    <2> QED BY <2>2, <2>3
  <1>3. CASE ChainNextPhase
    <2>1. chain'[na] = chain[na] BY <1>0, <1>3 DEF ChainNextPhase, TypeOK, ChainType
    <2> QED BY <1>3, <2>1 DEF ChainNextPhase, NonceFromCallsOrChain, StoredNonce, Get
  <1>4. ASSUME NEW b \in ChainAccounts, PublicTransaction(b)
        PROVE  chain'[na] \notin {0, Absent}
    <2>0. b \in Accounts /\ nonce_key_hash(b) \in ChainKeys
      BY AccountsAssumption, KeysIn DEF ChainKeys
    <2>1. CASE b = a
      <3>1. chain[na] \in Nonces BY <1>4, <2>1 DEF PublicTransaction, TypeOK, ChainType
      <3>2. chain'[na] = chain[na] + 1 BY <1>0, <1>4, <2>1 DEF PublicTransaction, TypeOK, ChainType
      <3> QED BY <3>1, <3>2, AbsentAssumption DEF Nonces
    <2>2. CASE b # a
      <3>1. chain'[na] = chain[na]
        BY <1>0, <1>4, <2>0, <2>2, NonceKeyInjective DEF PublicTransaction, TypeOK, ChainType
      <3> QED BY <1>4, <3>1 DEF PublicTransaction, NonceFromCallsOrChain, StoredNonce, Get
    <2> QED BY <2>1, <2>2
  <1>5. CASE UNCHANGED vars
    BY <1>5 DEF vars, NonceFromCallsOrChain, StoredNonce, Get
  <1> QED BY <1>1, <1>2, <1>3, <1>4, <1>5 DEF Next

\* An Stf step never lowers a count of accepted calls, and a chain nonce
\* that has left 0 never returns to 0 or to absent.
LEMMA StfMonotone ==
    ASSUME TypeOK, [Next]_vars, NEW a \in Accounts
    PROVE  /\ accepted'[a] >= accepted[a]
           /\ chain[nonce_key_hash(a)] \notin {0, Absent} =>
                 chain'[nonce_key_hash(a)] \notin {0, Absent}
  <1> DEFINE na == nonce_key_hash(a)
  <1>0. na \in ChainKeys /\ na # PhaseKey /\ na # CindexKey /\ accepted[a] \in Nat
    BY KeysIn, KindsDisjoint DEF ChainKeys, TypeOK
  <1>1. ASSUME NEW op \in SignedOps, execute(op) PROVE accepted'[a] >= accepted[a] /\ chain' = chain
    BY <1>0, <1>1 DEF execute, ExecuteRejected, ExecuteOverflowPanic, ExecuteAccepted, TypeOK
  <1>2. ASSUME NEW call \in Calls, update_storage(call) PROVE UNCHANGED <<accepted, chain>>
    BY <1>2 DEF update_storage
  <1>3. CASE ChainNextPhase
    BY <1>0, <1>3 DEF ChainNextPhase, TypeOK, ChainType
  <1>4. ASSUME NEW b \in ChainAccounts, PublicTransaction(b)
        PROVE  /\ accepted'[a] >= accepted[a]
               /\ chain[na] \notin {0, Absent} => chain'[na] \notin {0, Absent}
    <2>0. b \in Accounts /\ nonce_key_hash(b) \in ChainKeys
      BY AccountsAssumption, KeysIn DEF ChainKeys
    <2>1. CASE b = a
      <3>1. chain[na] \in Nonces BY <1>4, <2>1 DEF PublicTransaction, TypeOK, ChainType
      <3>2. chain'[na] = chain[na] + 1 BY <1>0, <1>4, <2>1 DEF PublicTransaction, TypeOK, ChainType
      <3> QED BY <1>0, <1>4, <3>1, <3>2, AbsentAssumption DEF Nonces, PublicTransaction
    <2>2. CASE b # a
      BY <1>0, <1>4, <2>0, <2>2, NonceKeyInjective DEF PublicTransaction, TypeOK, ChainType
    <2> QED BY <2>1, <2>2
  <1>5. CASE UNCHANGED vars BY <1>0, <1>5 DEF vars
  <1> QED BY <1>0, <1>1, <1>2, <1>3, <1>4, <1>5 DEF Next

\* The worker's initial state satisfies the strengthened invariant.
LEMMA WInitIInvA == WInit => IInvA
  <1> SUFFICES ASSUME WInit PROVE IInvA OBVIOUS
  <1>1. IInvW /\ Init BY WInitIInv
  <1>2. ASSUME NEW a \in Accounts PROVE store[nonce_key_hash(a)] = Absent
    BY <1>1, KeysIn, KindsDisjoint DEF Init, init_state, GenesisValue, ParamKeys
  <1>3. NonceFromCallsOrChain BY <1>2 DEF NonceFromCallsOrChain, StoredNonce, Get
  <1>4. queue = <<>> /\ culprit \in Accounts /\ aborted = FALSE BY <1>1 DEF WInit, Init
  <1> QED BY <1>1, <1>3, <1>4 DEF IInvA, QueueNonceZero, AbortOnlyAfterFirstCall

\* Every worker step preserves it.
LEMMA WNextIInvA == IInvA /\ [WNext]_allVars => IInvA'
  <1> SUFFICES ASSUME IInvA, [WNext]_allVars PROVE IInvA' OBVIOUS
  <1>0. /\ TypeOK /\ IInvW /\ NonceFromCallsOrChain /\ QueueNonceZero
        /\ culprit \in Accounts /\ AbortOnlyAfterFirstCall
        /\ queue \in Seq(Entries)
    BY DEF IInvA, IInvW
  <1>1. [Next]_vars BY <1>0, WNextStf
  <1>2. IInvW' BY <1>0, WNextIInv
  <1>3. NonceFromCallsOrChain' BY <1>0, <1>1, NonceFromCallsOrChainStep
  <1>4. QueueNonceZero' /\ culprit' \in Accounts /\ AbortOnlyAfterFirstCall'
    <2>1. CASE \E from, to \in Accounts, cid \in Cids, value \in Amounts :
                 CliTransfer(from, to, cid, value)
      <3>1. PICK from, to \in Accounts, cid \in Cids, value \in Amounts :
                   CliTransfer(from, to, cid, value)
        BY <2>1
      <3> QED BY <1>0, <3>1 DEF CliTransfer, Submit, QueueNonceZero, AbortOnlyAfterFirstCall, vars
    <2>2. CASE \E who \in Accounts, cid \in Cids, rep \in BOOLEAN :
                 CliRegisterParticipant(who, cid, rep)
      <3>1. PICK who \in Accounts, cid \in Cids, rep \in BOOLEAN :
                   CliRegisterParticipant(who, cid, rep)
        BY <2>2
      <3> QED BY <1>0, <3>1 DEF CliRegisterParticipant, Submit, QueueNonceZero, AbortOnlyAfterFirstCall, vars
    <2>3. CASE WorkerSync
      BY <1>0, <2>3 DEF WorkerSync, update_storage, QueueNonceZero, AbortOnlyAfterFirstCall
    <2>4. CASE WorkerExecute
      <3> DEFINE op == Head(queue).op
                 a == account(op.call)
      <3>1. queue # <<>> /\ execute(op) BY <2>4 DEF WorkerExecute
      <3>2. op \in SignedOps /\ a \in Accounts /\ op.nonce = 0
        <4>1. Head(queue) = queue[1] /\ 1 \in 1..Len(queue) /\ queue[1] \in Entries
          BY <1>0, <3>1
        <4>2. op \in SignedOps /\ op.nonce = 0 BY <1>0, <4>1 DEF QueueNonceZero, Entries
        <4> QED BY <4>2 DEF SignedOps, Calls, account
      <3>3. QueueNonceZero'
        <4>1. queue' = Tail(queue) BY <2>4 DEF WorkerExecute
        <4>2. Len(Tail(queue)) = Len(queue) - 1
              /\ \A i \in 1..Len(Tail(queue)) : Tail(queue)[i] = queue[i + 1]
          BY <1>0, <3>1
        <4> QED BY <1>0, <4>1, <4>2 DEF QueueNonceZero
      <3>4. culprit' \in Accounts BY <1>0, <2>4, <3>2 DEF WorkerExecute
      <3>5. ~aborted BY <3>1 DEF execute
      <3>6. CASE ExecuteRejected(op)
        <4>1. StoredNonce(store, a) # 0 /\ accepted[a] = accepted'[a]
              /\ chain' = chain /\ culprit' = a /\ accepted[a] \in Nat
          BY <1>0, <2>4, <3>2, <3>5, <3>6 DEF ExecuteRejected, WorkerExecute, TypeOK
        <4>2. accepted[a] >= 1 \/ chain[nonce_key_hash(a)] \notin {0, Absent}
          BY <1>0, <3>2, <4>1 DEF NonceFromCallsOrChain
        <4> QED BY <3>3, <3>4, <4>1, <4>2 DEF AbortOnlyAfterFirstCall
      <3>7. CASE ExecuteOverflowPanic(op)
        BY <3>2, <3>7, NonceModAssumption DEF ExecuteOverflowPanic
      <3>8. CASE ExecuteAccepted(op)
        BY <3>3, <3>4, <3>5, <3>8 DEF ExecuteAccepted, AbortOnlyAfterFirstCall
      <3> QED BY <3>1, <3>6, <3>7, <3>8 DEF execute
    <2>5. CASE ChainStep
      <3>1. UNCHANGED <<queue, culprit>> /\ aborted' = aborted
        BY <2>5 DEF ChainStep, workerVars, ChainNextPhase, PublicTransaction
      <3>2. aborted =>
              \/ accepted'[culprit] >= 1
              \/ chain'[nonce_key_hash(culprit)] \notin {0, Absent}
        <4>1. accepted'[culprit] >= accepted[culprit] /\ accepted[culprit] \in Nat
          BY <1>0, <1>1, StfMonotone DEF TypeOK
        <4>2. chain[nonce_key_hash(culprit)] \notin {0, Absent} =>
                chain'[nonce_key_hash(culprit)] \notin {0, Absent}
          BY <1>0, <1>1, StfMonotone
        <4>3. aborted =>
                \/ accepted[culprit] >= 1
                \/ chain[nonce_key_hash(culprit)] \notin {0, Absent}
          BY <1>0 DEF AbortOnlyAfterFirstCall
        <4>4. accepted'[culprit] \in Nat BY <1>0, <1>2 DEF IInvW, TypeOK
        <4> QED BY <4>1, <4>2, <4>3, <4>4
      <3>3. QueueNonceZero' BY <1>0, <3>1 DEF QueueNonceZero
      <3>4. AbortOnlyAfterFirstCall' BY <3>1, <3>2 DEF AbortOnlyAfterFirstCall
      <3> QED BY <1>0, <3>1, <3>3, <3>4
    <2>6. CASE UNCHANGED allVars
      BY <1>0, <2>6 DEF allVars, vars, workerVars, QueueNonceZero, AbortOnlyAfterFirstCall
    <2> QED BY <2>1, <2>2, <2>3, <2>4, <2>5, <2>6 DEF WNext
  <1> QED BY <1>2, <1>3, <1>4 DEF IInvA

(***************************************************************************)
(* The client's hard-coded nonce 0 aborts the enclave only on a call of an *)
(* account that already had a call accepted, or whose public               *)
(* System::Account entry moved past 0: an account's first call through the *)
(* worker never aborts the enclave, whatever the queue, the syncs and the  *)
(* chain do (cli.rs transfer and register-participant, Stf::execute).      *)
(***************************************************************************)
THEOREM AbortOnlyAfterFirstCallHolds == WSpec => []AbortOnlyAfterFirstCall
  <1>1. IInvA => AbortOnlyAfterFirstCall BY DEF IInvA
  <1> QED BY WInitIInvA, WNextIInvA, <1>1, PTL DEF WSpec

-----------------------------------------------------------------------------
\* The registration the enclave records is of a well-typed entry.
LEMMA NewRegistrationType ==
    ASSUME TypeOK, NEW e \in Entries
    PROVE  NewRegistration(e) \subseteq
              [who : Accounts, cindex : CeremonyIndices, proof : SUBSET Int]
  <1>1. StoredCindex(store) \in CeremonyIndices
    BY MaxCeremonyIndexAssumption DEF TypeOK, StoreType, StoredCindex, Get, CeremonyIndices
  <1>2. e.op.call.from \in Accounts /\ e.proof \in SUBSET Int
    BY DEF Entries, SignedOps, Calls
  <1> QED BY <1>1, <1>2 DEF NewRegistration

\* WTypeOK is inductive.
LEMMA WNextWTypeOK == WTypeOK /\ [WNext]_allVars => WTypeOK'
  <1> DEFINE Regs == [who : Accounts, cindex : CeremonyIndices, proof : SUBSET Int]
  <1> SUFFICES ASSUME WTypeOK, [WNext]_allVars
               PROVE  /\ IInvW'
                      /\ Len(queue') <= MaxQueue
                      /\ synced' \in BOOLEAN
                      /\ submitted' \in 0..MaxSubmissions
                      /\ culprit' \in Accounts
                      /\ registrations' \subseteq Regs
    BY DEF WTypeOK, IInvW
  <1>0. /\ IInvW /\ queue \in Seq(Entries) /\ Len(queue) <= MaxQueue
        /\ synced \in BOOLEAN /\ submitted \in 0..MaxSubmissions
        /\ culprit \in Accounts /\ registrations \subseteq Regs
        /\ MaxQueue \in Nat /\ MaxSubmissions \in Nat
    BY WorkerBoundsAssumption DEF WTypeOK, IInvW
  <1>1. IInvW' BY <1>0, WNextIInv
  <1>2. ASSUME NEW e, Submit(e)
        PROVE  /\ Len(queue') <= MaxQueue
               /\ synced' \in BOOLEAN
               /\ submitted' \in 0..MaxSubmissions
               /\ culprit' \in Accounts
               /\ registrations' \subseteq Regs
    <2>1. Len(queue') = Len(queue) + 1 /\ Len(queue) < MaxQueue
      BY <1>0, <1>2 DEF Submit
    <2>2. submitted' = submitted + 1 /\ submitted < MaxSubmissions
      BY <1>2 DEF Submit
    <2>3. UNCHANGED <<synced, culprit, registrations>> BY <1>2 DEF Submit
    <2> QED BY <1>0, <2>1, <2>2, <2>3
  <1>3. CASE WorkerSync
    BY <1>0, <1>1, <1>3 DEF WorkerSync
  <1>4. CASE WorkerExecute
    <2>1. queue # <<>> /\ queue' = Tail(queue) BY <1>4 DEF WorkerExecute
    <2>2. Len(Tail(queue)) = Len(queue) - 1 BY <1>0, <2>1
    <2>3. Len(queue') <= MaxQueue BY <1>0, <2>1, <2>2
    <2>4. Head(queue) \in Entries BY <1>0, <2>1
    <2>5. NewRegistration(Head(queue)) \subseteq Regs
      BY <1>0, <2>4, NewRegistrationType DEF IInvW
    <2>6. account(Head(queue).op.call) \in Accounts
      BY <2>4 DEF Entries, SignedOps, Calls, account
    <2>7. culprit' \in Accounts BY <1>0, <1>4, <2>6 DEF WorkerExecute
    <2>8. registrations' \subseteq Regs BY <1>0, <1>4, <2>5 DEF WorkerExecute
    <2>9. synced' \in BOOLEAN /\ submitted' = submitted BY <1>4 DEF WorkerExecute
    <2> QED BY <1>0, <1>1, <2>3, <2>7, <2>8, <2>9
  <1>5. CASE ChainStep
    BY <1>0, <1>1, <1>5 DEF ChainStep, workerVars
  <1>6. CASE UNCHANGED allVars
    BY <1>0, <1>1, <1>6 DEF allVars, workerVars
  <1> QED BY <1>1, <1>2, <1>3, <1>4, <1>5, <1>6 DEF WNext, CliTransfer, CliRegisterParticipant

(***************************************************************************)
(* Type correctness of the composition: the worker's queue holds signed    *)
(* operations and stays within MaxQueue, the client runs at most          *)
(* MaxSubmissions commands, and every registration the enclave makes is of *)
(* an account in a ceremony index within its bounds.                       *)
(***************************************************************************)
THEOREM WorkerTypeCorrect == WSpec => []WTypeOK
  <1>1. WInit => WTypeOK
    <2> SUFFICES ASSUME WInit PROVE WTypeOK OBVIOUS
    <2>1. IInvW BY WInitIInv
    <2>2. queue = <<>> /\ synced = FALSE /\ submitted = 0 /\ culprit \in Accounts
          /\ registrations = {}
      BY DEF WInit
    <2>3. Len(queue) <= MaxQueue /\ submitted \in 0..MaxSubmissions
      BY <2>2, WorkerBoundsAssumption
    <2> QED BY <2>1, <2>2, <2>3 DEF WTypeOK, IInvW
  <1> QED BY <1>1, WNextWTypeOK, PTL DEF WSpec

=============================================================================
