------------------------------- MODULE Worker -------------------------------
(***************************************************************************)
(* The client's trusted-call commands (src/stf/src/cli.rs: "transfer" and  *)
(* "register-participant") composed with the enclave's STF (Stf).          *)
(*                                                                         *)
(* The client signs each call and hands it to the worker, which queues it; *)
(* for the call at the head of its queue the worker first copies the keys  *)
(* of get_storage_hashes_to_update from the public chain into the enclave  *)
(* (update_storage) and then executes it.  The worker's loop is not part   *)
(* of this repository; it is modelled from the contract of                 *)
(* get_storage_hashes_to_update ("what callers re-sync before a call").    *)
(***************************************************************************)
EXTENDS Stf, Sequences

CONSTANTS
    MaxQueue,        \* bound on the worker's queue of trusted operations
    MaxSubmissions   \* bound on the commands the clients run

ASSUME WorkerBoundsAssumption ==
    MaxQueue \in Nat \ {0} /\ MaxSubmissions \in Nat

(***************************************************************************)
(* An entry of the worker's queue: the signed operation and the proof of   *)
(* attendance register-participant sends with it, as the set of ceremony   *)
(* indices it proves: {} for None, {c} for a proof for ceremony c.  The    *)
(* register_participant of Stf does not read the proof, so it travels next *)
(* to the signed call rather than inside it.                               *)
(***************************************************************************)
Entries == [op : SignedOps, proof : SUBSET Int]

VARIABLES
    queue,          \* entries submitted and not yet executed
    synced,         \* the head of the queue has had its keys synced
    submitted,      \* commands run so far
    culprit,        \* history: the account whose call aborted the enclave
    registrations   \* history: the registrations the enclave made

workerVars == <<queue, synced, submitted, culprit, registrations>>
allVars == <<vars, workerVars>>

WInit ==
    /\ Init
    /\ queue = <<>>
    /\ synced = FALSE
    /\ submitted = 0
    /\ culprit \in Accounts
    /\ registrations = {}

\* perform_operation: the signed operation reaches the worker's queue; a
\* full queue refuses it.
Submit(e) ==
    /\ Len(queue) < MaxQueue
    /\ submitted < MaxSubmissions
    /\ queue' = Append(queue, e)
    /\ submitted' = submitted + 1
    /\ UNCHANGED <<vars, synced, culprit, registrations>>

\* Mutant: the client signs with nonce 1.
CliTransferNonceOne(from, to, cid, value) ==
    Submit([op |-> [call |-> [kind |-> "balance_transfer", from |-> from, to |-> to,
                              cid |-> cid, value |-> value],
                    nonce |-> 1],
            proof |-> {}])

(***************************************************************************)
(* "transfer": the call balance_transfer(from, to, shard, amount), shard   *)
(* taken as the currency, signed with the hard-coded nonce 0.              *)
(***************************************************************************)
CliTransfer(from, to, cid, value) ==
    Submit([op |-> [call |-> [kind |-> "balance_transfer", from |-> from, to |-> to,
                              cid |-> cid, value |-> value],
                    nonce |-> 0],
            proof |-> {}])

(***************************************************************************)
(* "register-participant": reads CurrentCeremonyIndex from the chain once, *)
(* and with --reputation proves attendance for cindex - 1 ("the last       *)
(* ceremony", module Attendance); then sends                              *)
(* ceremonies_register_participant(who, shard, proof) signed with the      *)
(* hard-coded nonce 0.                                                     *)
(***************************************************************************)
CliRegisterParticipant(who, cid, reputation) ==
    Submit([op |-> [call |-> [kind |-> "ceremonies_register_participant",
                              from |-> who, cid |-> cid],
                    nonce |-> 0],
            proof |-> IF reputation THEN {chain[CindexKey] - 1} ELSE {}])

\* The worker syncs the keys of the call at the head of its queue.
WorkerSync ==
    /\ queue # <<>>
    /\ ~synced
    /\ update_storage(Head(queue).op.call)
    /\ synced' = TRUE
    /\ UNCHANGED <<queue, submitted, culprit, registrations>>

(***************************************************************************)
(* ... then executes it.  A registration the enclave makes is recorded     *)
(* with the enclave's ceremony index and the proof the call carried.      *)
(***************************************************************************)
NewRegistration(e) ==
    LET c == e.op.call
        rk == RegistryKey(c.cid, StoredCindex(store), c.from)
    IN  IF c.kind = "ceremonies_register_participant" /\ store'[rk] # store[rk]
        THEN {[who |-> c.from, cindex |-> StoredCindex(store), proof |-> e.proof]}
        ELSE {}

WorkerExecute ==
    /\ queue # <<>>
    /\ synced
    /\ execute(Head(queue).op)
    /\ queue' = Tail(queue)
    /\ synced' = FALSE
    /\ culprit' = IF aborted' /\ ~aborted THEN account(Head(queue).op.call)
                  ELSE culprit
    /\ registrations' = registrations \cup NewRegistration(Head(queue))
    /\ UNCHANGED submitted

\* The public chain moves on meanwhile.
ChainStep ==
    /\ \/ ChainNextPhase
       \/ \E a \in ChainAccounts : PublicTransaction(a)
    /\ UNCHANGED workerVars

WNext ==
    \/ \E from, to \in Accounts, cid \in Cids, value \in Amounts :
          CliTransfer(from, to, cid, value)
    \/ \E who \in Accounts, cid \in Cids, rep \in BOOLEAN :
          CliRegisterParticipant(who, cid, rep)
    \/ WorkerSync
    \/ WorkerExecute
    \/ ChainStep

WSpec == WInit /\ [][WNext]_allVars

-----------------------------------------------------------------------------
\* Type invariant: Stf's, and the worker's queue of signed operations within
\* its bound.
WTypeOK ==
    /\ TypeOK
    /\ queue \in Seq(Entries) /\ Len(queue) <= MaxQueue
    /\ synced \in BOOLEAN
    /\ submitted \in 0..MaxSubmissions
    /\ culprit \in Accounts
    /\ registrations \subseteq [who : Accounts, cindex : CeremonyIndices,
                                proof : SUBSET Int]

(***************************************************************************)
(* What the client's nonce 0 does reach: the enclave is aborted only by a  *)
(* call of an account that already had a call accepted, or whose public    *)
(* System::Account entry has moved past 0; the first call of every other   *)
(* account goes through, whatever the queue, the syncs and the chain do.   *)
(***************************************************************************)
AbortOnlyAfterFirstCall ==
    aborted =>
        \/ accepted[culprit] >= 1
        \/ chain[nonce_key_hash(culprit)] \notin {0, Absent}

(***************************************************************************)
(* The worker composed with the client implements Stf: every change the    *)
(* worker's loop makes to the enclave's state is an execute or an          *)
(* update_storage Stf allows (the worker's own variables are hidden), so   *)
(* what is proved of Stf, replay protection included, holds of the worker. *)
(***************************************************************************)
StfRefinement == Spec

=============================================================================
