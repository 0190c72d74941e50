----------------------------- MODULE Attendance -----------------------------
(***************************************************************************)
(* Proofs of attendance (src/stf/src/cli.rs prove_attendance, and the      *)
(* "register-participant --reputation" command that makes one): the       *)
(* attendee signs the payload (prover, cindex) and the proof carries the  *)
(* prover, the currency, the ceremony index and the attendee.  Whoever     *)
(* relays a proof may change its fields; the consumer (the ceremonies      *)
(* pallet, spec 4.7) accepts a proof whose signature verifies against the  *)
(* payload rebuilt from the proof's own fields.                            *)
(*                                                                         *)
(* Signatures are ideal: a signature is the signer and the payload, and    *)
(* only the signer's key produces it.                                      *)
(***************************************************************************)
EXTENDS Naturals

CONSTANTS
    Participants,      \* accounts that register with reputation
    Cids,              \* currencies (shards)
    MaxCeremonyIndex   \* bound on CurrentCeremonyIndex

ASSUME MaxCeremonyIndexAssumption == MaxCeremonyIndex \in Nat \ {0}

CeremonyIndices == 0..MaxCeremonyIndex

Sign(key, msg) == [signer |-> key, payload |-> msg]
verify(sig, msg, pub) == sig.signer = pub /\ sig.payload = msg

Proofs == [prover_public : Participants, currency_identifier : Cids,
           ceremony_index : CeremonyIndices, attendee_public : Participants,
           attendee_signature : [signer : Participants,
                                 payload : Participants \X CeremonyIndices]]

VARIABLES
    cindex,    \* EncointerScheduler::CurrentCeremonyIndex
    endorsed,  \* history: what attendees signed proofs for
    wire       \* the proof last submitted to the consumer: {} or {proof}

vars == <<cindex, endorsed, wire>>

Init ==
    /\ cindex = 1
    /\ endorsed = {}
    /\ wire = {}

\* Mutant: the payload's ceremony index is left at its default.
prove_attendance_NoCindex(prover, cid, c, attendee) ==
    [prover_public |-> prover, currency_identifier |-> cid, ceremony_index |-> c,
     attendee_public |-> attendee,
     attendee_signature |-> Sign(attendee, <<prover, 0>>)]

(***************************************************************************)
(* prove_attendance: msg = (prover, cindex), signed by the attendee; the   *)
(* currency goes into the proof but not into the signed payload.           *)
(***************************************************************************)
prove_attendance(prover, cid, c, attendee) ==
    [prover_public |-> prover, currency_identifier |-> cid, ceremony_index |-> c,
     attendee_public |-> attendee,
     attendee_signature |-> Sign(attendee, <<prover, c>>)]

(***************************************************************************)
(* register-participant --reputation: reads CurrentCeremonyIndex and       *)
(* proves attendance of the account itself (prover and attendee) for       *)
(* cindex - 1 in its shard.                                                *)
(***************************************************************************)
RegisterWithReputation(who, cid) ==
    /\ wire' = {prove_attendance(who, cid, cindex - 1, who)}
    /\ endorsed' = endorsed \cup
         {[attendee |-> who, prover |-> who, cid |-> cid, cindex |-> cindex - 1]}
    /\ UNCHANGED cindex

\* The scheduler starts the next ceremony.
NextCeremony ==
    /\ cindex < MaxCeremonyIndex
    /\ cindex' = cindex + 1
    /\ UNCHANGED <<endorsed, wire>>

(***************************************************************************)
(* A relay of the proof on the wire changes one of its fields: the         *)
(* currency, the ceremony index or the prover.                             *)
(***************************************************************************)
Relabel ==
    /\ \E w \in wire :
          \/ \E cid \in Cids : wire' = {[w EXCEPT !.currency_identifier = cid]}
          \/ \E c \in CeremonyIndices : wire' = {[w EXCEPT !.ceremony_index = c]}
          \/ \E p \in Participants : wire' = {[w EXCEPT !.prover_public = p]}
    /\ UNCHANGED <<cindex, endorsed>>

Next ==
    \/ \E who \in Participants, cid \in Cids : RegisterWithReputation(who, cid)
    \/ NextCeremony
    \/ Relabel

Spec == Init /\ [][Next]_vars

-----------------------------------------------------------------------------
\* The consumer's check: the signature against (prover_public, ceremony_index).
Verifies(p) ==
    verify(p.attendee_signature, <<p.prover_public, p.ceremony_index>>,
           p.attendee_public)

\* Type invariant.
TypeOK ==
    /\ cindex \in 1..MaxCeremonyIndex
    /\ endorsed \subseteq [attendee : Participants, prover : Participants,
                           cid : Cids, cindex : CeremonyIndices]
    /\ wire \subseteq Proofs /\ \A v, w \in wire : v = w

(***************************************************************************)
(* Spec 4.7: a proof the consumer accepts binds the ceremony: its attendee *)
(* endorsed exactly this prover for exactly this ceremony index, however   *)
(* the proof was relabelled on its way.                                    *)
(***************************************************************************)
ProofBindsCeremony ==
    \A w \in wire : Verifies(w) =>
        \E e \in endorsed :
            /\ e.attendee = w.attendee_public
            /\ e.prover = w.prover_public
            /\ e.cindex = w.ceremony_index

=============================================================================
