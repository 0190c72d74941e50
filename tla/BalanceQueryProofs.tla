------------------------- MODULE BalanceQueryProofs -------------------------
(***************************************************************************)
(* Proofs about the balance command (module BalanceQuery), for every set  *)
(* of balances, every bound on the enclave's block numbers and every      *)
(* width of their encoding.                                               *)
(***************************************************************************)
EXTENDS BalanceQuery, SequenceTheorems, TLAPS

(***************************************************************************)
(* The answer perform_operation returned, when there is one, is what      *)
(* get_state computes from the entry stored when the enclave answered: a  *)
(* BalanceWrite after the query changes stored, never the answer.          *)
(***************************************************************************)
AnswerOfQueried == answer # Absent => answer = get_state(queried)

\* The inductive invariant behind GetterAnswersPrincipal.
IInv == TypeOK /\ AnswerOfQueried


\* The byte cells of the two fields of a BalanceEntry.
Cells == [field : {"balance", "block"}, v : Nat, at : Nat]

\* The encoding of a fixed-width field is a sequence of w cells.
LEMMA EncSeq ==
    ASSUME NEW f \in {"balance", "block"}, NEW x \in Nat, NEW w \in Nat
    PROVE  /\ Enc(f, x, w) \in Seq(Cells)
           /\ Len(Enc(f, x, w)) = w
  BY DEF Enc, Cells

(***************************************************************************)
(* get_encointer_balance of a stored BalanceEntry is its principal: the   *)
(* entry is longer than a BalanceType, and its first 16 cells are the     *)
(* principal's encoding.                                                   *)
(***************************************************************************)
LEMMA DecodeStored ==
    ASSUME NEW p \in Principals, NEW u \in Blocks
    PROVE  /\ get_encointer_balance(EncEntry(p, u)) = p
           /\ EncEntry(p, u)[1].v = p
           /\ EncEntry(p, u) # Absent
  <1> DEFINE e1 == Enc("balance", p, BalanceBytes)
             e2 == Enc("block", u, BlockBytes)
             e == e1 \o e2
  <1>1. p \in Nat /\ u \in Nat /\ BlockBytes \in Nat \ {0}
    BY BoundsAssumption DEF Blocks
  <1>2. /\ e1 \in Seq(Cells) /\ Len(e1) = BalanceBytes
        /\ e2 \in Seq(Cells) /\ Len(e2) = BlockBytes
    BY <1>1, EncSeq DEF BalanceBytes
  <1>3. /\ Len(e) = BalanceBytes + BlockBytes
        /\ \A j \in 1..BalanceBytes : e[j] = e1[j]
    <2>1. /\ Len(e1 \o e2) = Len(e1) + Len(e2)
          /\ \A j \in 1 .. Len(e1) + Len(e2) :
                (e1 \o e2)[j] = IF j <= Len(e1) THEN e1[j] ELSE e2[j - Len(e1)]
      BY <1>2, ConcatProperties
    <2>2. \A j \in 1..BalanceBytes : j \in 1 .. Len(e1) + Len(e2) /\ j <= Len(e1)
      <3>1. Len(e1) = 16 BY <1>2 DEF BalanceBytes
      <3>2. Len(e2) \in Nat BY <1>1, <1>2
      <3>3. \A j \in 1..16 : j \in 1 .. 16 + Len(e2) /\ j <= 16 BY <3>2
      <3> QED BY <3>1, <3>3 DEF BalanceBytes
    <2> QED BY <2>1, <2>2, <1>2
  <1>4. SubSeq(e, 1, BalanceBytes) = e1
    BY <1>2, <1>3 DEF BalanceBytes, Enc
  <1>5. e[1].v = p BY <1>3 DEF BalanceBytes, Enc
  <1>6. e # Absent
    <2>1. DOMAIN e = 1..(BalanceBytes + BlockBytes) BY <1>2, <1>3
    <2>2. DOMAIN Absent = {"absent"} BY DEF Absent
    <2>3. 1 \in DOMAIN e /\ 2 \in DOMAIN e /\ 1 # 2 BY <2>1, <1>1 DEF BalanceBytes
    <2> QED BY <2>2, <2>3
  <1>7. DecodeFixed(e, "balance", BalanceBytes).ok
        /\ DecodeFixed(e, "balance", BalanceBytes).v = p
    <2>1. ~(Len(e) < BalanceBytes) BY <1>1, <1>3 DEF BalanceBytes
    <2>2. SubSeq(e, 1, BalanceBytes) = Enc("balance", e[1].v, BalanceBytes) BY <1>4, <1>5
    <2> QED BY <2>1, <2>2, <1>5 DEF DecodeFixed
  <1> QED BY <1>5, <1>6, <1>7 DEF get_encointer_balance, EncEntry


\* What get_encointer_balance reads from an entry the pallet may have
\* stored: 0 when absent, else the principal in its first cells.
LEMMA StoredBalance ==
    ASSUME NEW x, x = Absent \/ \E p \in Principals, u \in Blocks : x = EncEntry(p, u)
    PROVE  /\ get_encointer_balance(x) = IF x = Absent THEN 0 ELSE x[1].v
           /\ get_encointer_balance(x) \in Principals \cup {0}
  <1>1. CASE x = Absent BY <1>1 DEF get_encointer_balance
  <1>2. CASE \E p \in Principals, u \in Blocks : x = EncEntry(p, u)
    <2>1. PICK p \in Principals, u \in Blocks : x = EncEntry(p, u) BY <1>2
    <2> QED BY <2>1, DecodeStored
  <1> QED BY <1>1, <1>2

\* Init satisfies the inductive invariant.
LEMMA InitIInv == Init => IInv
  BY DEF Init, IInv, TypeOK, AnswerOfQueried

(***************************************************************************)
(* Each step preserves IInv.  Query records in queried the entry it        *)
(* answers from, and BalanceWrite, which changes the entry, touches        *)
(* neither the answer nor queried.                                         *)
(***************************************************************************)
LEMMA NextIInv == IInv /\ [Next]_vars => IInv'
  <1> SUFFICES ASSUME IInv, [Next]_vars PROVE IInv' OBVIOUS
  <1>1. ASSUME NEW p \in Principals, NEW u \in Blocks, BalanceWrite(p, u) PROVE IInv'
    BY <1>1 DEF BalanceWrite, IInv, TypeOK, AnswerOfQueried
  <1>2. CASE Query
    <2>1. get_encointer_balance(stored) \in Principals \cup {0}
      BY StoredBalance DEF IInv, TypeOK
    <2>2. answer' = Absent \/ \E q \in Principals \cup {0} : answer' = Enc("balance", q, BalanceBytes)
      BY <1>2, <2>1 DEF Query, get_state
    <2>3. AnswerOfQueried' BY <1>2 DEF Query, AnswerOfQueried
    <2> QED BY <1>2, <2>2, <2>3 DEF Query, IInv, TypeOK
  <1>3. CASE DecodeAnswer
    BY <1>3 DEF DecodeAnswer, IInv, TypeOK, AnswerOfQueried
  <1>4. CASE UNCHANGED vars
    BY <1>4 DEF vars, IInv, TypeOK, AnswerOfQueried
  <1> QED BY <1>1, <1>2, <1>3, <1>4 DEF Next

(***************************************************************************)
(* Type correctness of the balance command with the pallet's writes: the  *)
(* stored entry, the answer and queried have the shapes get_state and the *)
(* pallet produce (property TypeOK).                                       *)
(***************************************************************************)
THEOREM BalanceQueryTypeCorrect == Spec => []TypeOK
  <1>1. IInv => TypeOK BY DEF IInv
  <1> QED BY <1>1, InitIInv, NextIInv, PTL DEF Spec

(***************************************************************************)
(* Spec 4.2 and 7, for every set of balances, block bound and encoding     *)
(* width: the answer the client holds in its decode step is the encoding   *)
(* of the principal of the entry stored when the enclave answered, or of   *)
(* 0 when there was none, however the pallet rewrote the entry since       *)
(* (property GetterAnswersPrincipal).                                      *)
(***************************************************************************)
THEOREM GetterAnswersPrincipalHolds == Spec => []GetterAnswersPrincipal
  <1>1. IInv => GetterAnswersPrincipal
    <2> SUFFICES ASSUME IInv, pc = "decode", answer # Absent
                 PROVE  answer = Enc("balance", IF queried = Absent THEN 0 ELSE queried[1].v,
                                     BalanceBytes)
      BY DEF GetterAnswersPrincipal
    <2>1. answer = Enc("balance", get_encointer_balance(queried), BalanceBytes)
      BY DEF IInv, AnswerOfQueried, get_state
    <2>2. get_encointer_balance(queried) = IF queried = Absent THEN 0 ELSE queried[1].v
      BY StoredBalance DEF IInv, TypeOK
    <2> QED BY <2>1, <2>2
  <1> QED BY <1>1, InitIInv, NextIInv, PTL DEF Spec

=============================================================================
