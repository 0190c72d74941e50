-------------------------- MODULE AttendanceProofs --------------------------
(***************************************************************************)
(* Proofs about Attendance, for every set of participants and currencies   *)
(* and every bound on the ceremony index.                                  *)
(*                                                                         *)
(* ProofBindsCeremony is not inductive: a state whose proof does not       *)
(* verify satisfies it whatever the proof's signature says, and one        *)
(* rewrite by the relay can make such a proof verify.  What is preserved   *)
(* is a fact about the signature alone:                                    *)
(* every signature on the wire was made by an attendee over an endorsed    *)
(* (prover, cindex).  Relabel never touches the signature.                 *)
(***************************************************************************)
EXTENDS Attendance, TLAPS

\* Every signature on the wire signs an endorsed payload.
SignaturesEndorsed ==
    \A w \in wire : \E e \in endorsed :
        /\ e.attendee = w.attendee_signature.signer
        /\ <<e.prover, e.cindex>> = w.attendee_signature.payload

IInv == TypeOK /\ SignaturesEndorsed

\* The proof the account makes for itself is a well-typed proof whose
\* signature is over the entry it endorses.
LEMMA ProveAttendanceFacts ==
    ASSUME NEW who \in Participants, NEW cid \in Cids,
           NEW c \in CeremonyIndices
    PROVE  /\ prove_attendance(who, cid, c, who) \in Proofs
           /\ prove_attendance(who, cid, c, who).attendee_signature.signer = who
           /\ prove_attendance(who, cid, c, who).attendee_signature.payload = <<who, c>>
  BY DEF prove_attendance, Proofs, Sign

\* Init establishes the inductive invariant.
LEMMA InitIInv == Init => IInv
  BY MaxCeremonyIndexAssumption DEF Init, IInv, TypeOK, SignaturesEndorsed

\* Every step preserves it.
LEMMA NextIInv == IInv /\ [Next]_vars => IInv'
  <1> SUFFICES ASSUME IInv, [Next]_vars PROVE IInv'
    OBVIOUS
  <1>1. CASE \E who \in Participants, cid \in Cids : RegisterWithReputation(who, cid)
    <2>1. PICK who \in Participants, cid \in Cids : RegisterWithReputation(who, cid)
      BY <1>1
    <2>2. cindex - 1 \in CeremonyIndices
      BY MaxCeremonyIndexAssumption DEF IInv, TypeOK, CeremonyIndices
    <2>3. TypeOK'
      BY <2>1, <2>2, ProveAttendanceFacts DEF RegisterWithReputation, IInv, TypeOK
    <2>4. SignaturesEndorsed'
      <3> DEFINE e == [attendee |-> who, prover |-> who, cid |-> cid,
                       cindex |-> cindex - 1]
      <3>1. e \in endorsed' BY <2>1 DEF RegisterWithReputation
      <3>2. \A w \in wire' : w = prove_attendance(who, cid, cindex - 1, who)
        BY <2>1 DEF RegisterWithReputation
      <3> QED BY <3>1, <3>2, <2>2, ProveAttendanceFacts DEF SignaturesEndorsed
    <2> QED BY <2>3, <2>4 DEF IInv
  <1>2. CASE NextCeremony
    <2>1. TypeOK'
      <3>0. cindex \in 1..MaxCeremonyIndex BY DEF IInv, TypeOK
      <3>1. cindex' \in 1..MaxCeremonyIndex
        BY <3>0, <1>2, MaxCeremonyIndexAssumption DEF NextCeremony
      <3>2. UNCHANGED <<endorsed, wire>> BY <1>2 DEF NextCeremony
      <3> QED BY <3>1, <3>2 DEF IInv, TypeOK
    <2>2. SignaturesEndorsed' BY <1>2 DEF NextCeremony, IInv, SignaturesEndorsed
    <2> QED BY <2>1, <2>2 DEF IInv
  <1>3. CASE Relabel
    <2>1. PICK w \in wire :
             \/ \E cid \in Cids : wire' = {[w EXCEPT !.currency_identifier = cid]}
             \/ \E c \in CeremonyIndices : wire' = {[w EXCEPT !.ceremony_index = c]}
             \/ \E p \in Participants : wire' = {[w EXCEPT !.prover_public = p]}
      BY <1>3 DEF Relabel
    <2>2. w \in Proofs BY DEF IInv, TypeOK
    <2>3. PICK v \in wire' : wire' = {v}
      BY <2>1
    <2>4. v \in Proofs /\ v.attendee_signature = w.attendee_signature
      BY <2>1, <2>2, <2>3 DEF Proofs
    <2>5. UNCHANGED <<cindex, endorsed>> BY <1>3 DEF Relabel
    <2>6. TypeOK' BY <2>3, <2>4, <2>5 DEF IInv, TypeOK
    <2>7. SignaturesEndorsed' BY <2>3, <2>4, <2>5 DEF IInv, SignaturesEndorsed
    <2> QED BY <2>6, <2>7 DEF IInv
  <1>4. CASE UNCHANGED vars
    BY <1>4 DEF vars, IInv, TypeOK, SignaturesEndorsed
  <1> QED BY <1>1, <1>2, <1>3, <1>4 DEF Next

\* The inductive invariant implies the property: a proof that verifies
\* names the signer as attendee and the signed payload as prover and index.
LEMMA IInvBinds == IInv => ProofBindsCeremony
  BY DEF IInv, SignaturesEndorsed, ProofBindsCeremony, Verifies, verify

(***************************************************************************)
(* prove_attendance with the relay: in every reachable state, a proof of   *)
(* attendance the consumer accepts was endorsed by its attendee for its    *)
(* prover and ceremony index, however the relay rewrote it.                *)
(***************************************************************************)
THEOREM ProofBindsCeremonyHolds == Spec => []ProofBindsCeremony
  <1>1. Init => IInv BY InitIInv
  <1>2. IInv /\ [Next]_vars => IInv' BY NextIInv
  <1>3. IInv => ProofBindsCeremony BY IInvBinds
  <1> QED BY <1>1, <1>2, <1>3, PTL DEF Spec

(***************************************************************************)
(* Type correctness of Attendance: the ceremony index stays in its bounds  *)
(* and the wire holds at most one well-formed proof.                       *)
(***************************************************************************)
THEOREM AttendanceTypeCorrect == Spec => []TypeOK
  <1>1. IInv => TypeOK BY DEF IInv
  <1> QED BY InitIInv, NextIInv, <1>1, PTL DEF Spec

=============================================================================
