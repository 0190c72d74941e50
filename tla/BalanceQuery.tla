---------------------------- MODULE BalanceQuery ----------------------------
(***************************************************************************)
(* The "balance" command of the client (src/stf/src/cli.rs) end to end:    *)
(* the signed getter goes through the worker (worker-api get_stf_state) to *)
(* the enclave's get_state, which answers with get_encointer_balance       *)
(* encoded; the client decodes the answer as a BalanceEntry and applies    *)
(* demurrage at the chain's current block.  Meanwhile the balances pallet  *)
(* in the enclave rewrites the account's BalanceEntry.                     *)
(*                                                                         *)
(* SCALE encoding is modelled by what it does to lengths and fields: a     *)
(* fixed-width value is a run of byte cells, each naming the field, the    *)
(* value and its place, and decoding a fixed-width type reads the first    *)
(* cells of the input and leaves the rest (SCALE decode does not require  *)
(* the input to be used up).  The answer the enclave gives never decodes   *)
(* as a BalanceEntry, so apply_demurrage and the chain reads before it are *)
(* never reached from "balance" and are left out.                          *)
(***************************************************************************)
EXTENDS Naturals, Sequences

CONSTANTS
    Principals,   \* balances the account may hold (BalanceType values)
    MaxBlock,     \* bound on the enclave's block numbers
    BlockBytes    \* width of the encoding of my_node_runtime::BlockNumber

ASSUME BoundsAssumption ==
    /\ Principals \subseteq Nat
    /\ MaxBlock \in Nat /\ BlockBytes \in Nat \ {0}

\* BalanceType is fixed::I64F64: 16 bytes.
BalanceBytes == 16

Blocks == 0..MaxBlock
Absent == [absent |-> TRUE]

\* The encoding of value v of a fixed-width field: w byte cells.
Enc(field, v, w) == [i \in 1..w |-> [field |-> field, v |-> v, at |-> i]]

\* Decoding a fixed-width field from the front of bytes: the value the
\* first w cells encode, "garbage" when they are not one value's encoding,
\* and failure when the input is shorter than w.
DecodeFixed(bytes, field, w) ==
    IF Len(bytes) < w THEN [ok |-> FALSE]
    ELSE [ok |-> TRUE,
          v |-> IF SubSeq(bytes, 1, w) = Enc(field, bytes[1].v, w)
                THEN bytes[1].v ELSE "garbage",
          rest |-> SubSeq(bytes, w + 1, Len(bytes))]

\* BalanceEntry<BlockNumber> {principal, last_update}, as the pallet stores it.
EncEntry(p, u) == Enc("balance", p, BalanceBytes) \o Enc("block", u, BlockBytes)

DecodeEntry(bytes) ==
    LET b == DecodeFixed(bytes, "balance", BalanceBytes)
        u == IF b.ok THEN DecodeFixed(b.rest, "block", BlockBytes) ELSE b
    IN  IF b.ok /\ u.ok THEN [ok |-> TRUE, principal |-> b.v, last_update |-> u.v]
        ELSE [ok |-> FALSE]

\* Mutant: the stored value is decoded only when it is exactly one BalanceType.
get_encointer_balance_Exact(stored) ==
    IF stored # Absent /\ Len(stored) = BalanceBytes
    THEN DecodeFixed(stored, "balance", BalanceBytes).v
    ELSE 0

(***************************************************************************)
(* get_encointer_balance: the stored bytes at the Balance double-map key,  *)
(* decoded as a BalanceType; absent or undecodable is 0.                   *)
(***************************************************************************)
get_encointer_balance(stored) ==
    IF stored # Absent /\ DecodeFixed(stored, "balance", BalanceBytes).ok
    THEN DecodeFixed(stored, "balance", BalanceBytes).v
    ELSE 0

\* Mutant: the getter answers with the stored bytes as they are.
get_state_Raw(stored) == stored

\* get_state(balance): Some(get_encointer_balance(who, cid).encode()).
get_state(stored) == Enc("balance", get_encointer_balance(stored), BalanceBytes)

VARIABLES
    stored,     \* the BalanceEntry bytes of the account, or Absent
    pc,         \* the balance command: idle, decode, chain, done
    answer,     \* what perform_operation returned: a byte sequence or Absent
    entry,      \* the BalanceEntry the client decoded
    queried,    \* history: the stored value when the enclave answered
    printed     \* what the command printed

vars == <<stored, pc, answer, entry, queried, printed>>

Init ==
    /\ stored = Absent
    /\ pc = "idle"
    /\ answer = Absent
    /\ entry = Absent
    /\ queried = Absent
    /\ printed = 0

(***************************************************************************)
(* The balances pallet inside the enclave writes the account's entry (a    *)
(* transfer).  Its last_update is the enclave runtime's block number,      *)
(* which update_storage never syncs (get_storage_hashes_to_update lists no *)
(* System::Number): any block number, ahead of the chain's or behind it.  *)
(***************************************************************************)
BalanceWrite(p, u) ==
    /\ stored' = EncEntry(p, u)
    /\ UNCHANGED <<pc, answer, entry, queried, printed>>

(***************************************************************************)
(* "balance": the signed getter reaches the enclave through the worker.    *)
(* get_stf_state returns the value inside the enclave's Some, and a ws     *)
(* error is Err; perform_operation turns Err into None.                    *)
(***************************************************************************)
Query ==
    /\ pc \in {"idle", "done"}
    /\ \/ answer' = get_state(stored)
       \/ answer' = Absent
    /\ queried' = stored
    /\ pc' = "decode"
    /\ UNCHANGED <<stored, entry, printed>>

(***************************************************************************)
(* The answer decoded as a BalanceEntry<BlockNumber>; no answer or an      *)
(* answer that does not decode prints 0.  A decoded entry goes on to the   *)
(* chain reads and apply_demurrage (not modelled: never reached).          *)
(***************************************************************************)
DecodeAnswer ==
    /\ pc = "decode"
    /\ IF answer # Absent /\ DecodeEntry(answer).ok
       THEN /\ entry' = DecodeEntry(answer)
            /\ pc' = "chain"
            /\ UNCHANGED printed
       ELSE /\ printed' = 0
            /\ pc' = "done"
            /\ UNCHANGED entry
    /\ UNCHANGED <<stored, answer, queried>>

Next ==
    \/ \E p \in Principals, u \in Blocks : BalanceWrite(p, u)
    \/ Query
    \/ DecodeAnswer

Spec == Init /\ [][Next]_vars

-----------------------------------------------------------------------------
\* Type invariant.
TypeOK ==
    /\ stored = Absent \/ \E p \in Principals, u \in Blocks : stored = EncEntry(p, u)
    /\ pc \in {"idle", "decode", "chain", "done"}
    /\ answer = Absent \/ \E p \in Principals \cup {0} : answer = Enc("balance", p, BalanceBytes)
    /\ queried = Absent \/ \E p \in Principals, u \in Blocks : queried = EncEntry(p, u)
    /\ printed \in Principals \cup {0}

(***************************************************************************)
(* Spec 4.2 and 7: the enclave's getter answers with the principal of the *)
(* BalanceEntry the pallet stored (the decode reads the BalanceType at     *)
(* its front and leaves last_update), and with 0 for an absent entry.      *)
(***************************************************************************)
GetterAnswersPrincipal ==
    pc = "decode" /\ answer # Absent =>
        answer = Enc("balance",
                     IF queried = Absent THEN 0 ELSE queried[1].v, BalanceBytes)

(***************************************************************************)
(* Spec 2 and 4.5: the client and the enclave agree on the getter's        *)
(* format: what the enclave answers for TrustedGetter::balance decodes as  *)
(* the BalanceEntry the client applies demurrage to.                       *)
(***************************************************************************)
AnswerDecodes ==
    pc = "decode" /\ answer # Absent => DecodeEntry(answer).ok

=============================================================================
