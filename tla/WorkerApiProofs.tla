-------------------------- MODULE WorkerApiProofs --------------------------
(***************************************************************************)
(* Proofs about WorkerApi, for every bound on the client's requests.       *)
(*                                                                         *)
(* OkIffAnswered speaks of idle calls only; to carry it through a call the *)
(* invariant also says what the channel holds at each step of Api::get:    *)
(* nothing before the worker answers, and afterwards at most the one       *)
(* answer the worker sent on this call's connection, which is an answer to *)
(* this call's request.  TypeOK is carried as Parts, which names the two   *)
(* shapes of the channel instead of a set of sequences.                    *)
(***************************************************************************)
EXTENDS WorkerApi, TLAPS

Values == {"some", "port", "json"}
AllAnswers == {"port", "json", "some", "none", "nothex"}

\* TypeOK with the channel given by its two shapes.
Parts ==
    /\ pc \in {"idle", "connecting", "open", "closed", "joined"}
    /\ kind \in Kinds
    /\ \/ port = <<>> /\ answered = NoAnswer
       \/ port = <<answered>> /\ answered \in AllAnswers
    /\ worker \in {"up", "down"}
    /\ answered \in AllAnswers \cup {NoAnswer}
    /\ result \in Outcomes
    /\ calls \in 0..MaxCalls

\* The channel of the current call and the answer history agree.
ChannelMatches ==
    /\ pc \in {"connecting", "open"} => port = <<>> /\ answered = NoAnswer
    /\ pc \in {"closed", "joined"} /\ port # <<>> => answered \in Answers(kind)

IInv == Parts /\ ChannelMatches /\ OkIffAnswered

\* get_stf_state's outcome on each answer a getter may get.
LEMMA StfStateOutcome ==
    ASSUME NEW a \in Answers("StfState")
    PROVE  get_stf_state(a) = "Ok" <=> a \in Values
  BY DEF Answers, get_stf_state, Values

\* The answers to all requests.
LEMMA AnswersIn ==
    /\ UNION {Answers(k) : k \in Kinds} = AllAnswers
    /\ \A k \in Kinds : Answers(k) \subseteq AllAnswers
  BY DEF Answers, Kinds, AllAnswers

\* The channel's two shapes are sequences of answers of length at most 1.
LEMMA ShapesInSeq ==
    ASSUME NEW S, NEW a \in S
    PROVE  /\ <<>> \in Seq(S) /\ Len(<<>>) = 0
           /\ <<a>> \in Seq(S) /\ Len(<<a>>) = 1
  OBVIOUS

LEMMA PartsTypeOK == Parts => TypeOK
  <1> SUFFICES ASSUME Parts PROVE TypeOK
    OBVIOUS
  <1>1. port \in Seq(AllAnswers) /\ Len(port) <= 1
    <2>1. CASE port = <<>>
      BY <2>1, ShapesInSeq
    <2>2. CASE port = <<answered>> /\ answered \in AllAnswers
      BY <2>2, ShapesInSeq
    <2> QED BY <2>1, <2>2 DEF Parts
  <1>2. answered \in AllAnswers \cup {NoAnswer}
    BY DEF Parts
  <1>3. UNION {Answers(k) : k \in Kinds} = AllAnswers
    BY AnswersIn
  <1> QED BY <1>1, <1>2, <1>3 DEF Parts, TypeOK

LEMMA InitIInv == Init => IInv
  BY MaxCallsAssumption DEF Init, IInv, Parts, ChannelMatches, OkIffAnswered,
                           Kinds, Outcomes

LEMMA NextIInv == IInv /\ [Next]_vars => IInv'
  <1> SUFFICES ASSUME IInv, [Next]_vars PROVE IInv'
    OBVIOUS
  <1> USE DEF IInv, Parts, ChannelMatches, OkIffAnswered
  <1>1. CASE \E k \in Kinds : Get(k)
    BY <1>1, MaxCallsAssumption DEF Get
  <1>2. CASE ConnectRefused
    BY <1>2 DEF ConnectRefused
  <1>3. CASE ConnectOpen
    BY <1>3 DEF ConnectOpen
  <1>4. CASE \E a \in Answers(kind) : WorkerAnswer(a)
    <2>1. PICK a \in Answers(kind) : WorkerAnswer(a) BY <1>4
    <2>2. a \in AllAnswers BY AnswersIn
    <2>3. port' = <<a>> /\ answered' = a /\ pc' = "closed"
      BY <2>1 DEF WorkerAnswer
    <2> QED BY <2>1, <2>2, <2>3 DEF WorkerAnswer
  <1>5. CASE WorkerCrash
    BY <1>5 DEF WorkerCrash
  <1>6. CASE WorkerRestart
    BY <1>6 DEF WorkerRestart
  <1>7. CASE Join
    BY <1>7 DEF Join
  <1>8. CASE Recv
    <2>1. pc = "joined" /\ pc' = "idle" /\ UNCHANGED <<kind, port, worker, answered, calls>>
      BY <1>8 DEF Recv
    <2>2. CASE port = <<>>
      <3>1. result' = "Err" BY <1>8, <2>2 DEF Recv
      <3>2. answered = NoAnswer BY <2>2
      <3> QED BY <2>1, <3>1, <3>2 DEF Values, NoAnswer, Outcomes
    <2>3. CASE port # <<>> /\ kind = "StfState"
      <3>1. port = <<answered>> /\ answered \in Answers("StfState") BY <2>1, <2>3
      <3>2. result' = get_stf_state(answered) BY <1>8, <2>3, <3>1 DEF Recv
      <3>3. result' = "Ok" <=> answered \in Values BY <3>1, <3>2, StfStateOutcome
      <3>4. result' \in Outcomes BY <3>2 DEF get_stf_state, Outcomes
      <3> QED BY <2>1, <3>3, <3>4 DEF Values
    <2>4. CASE port # <<>> /\ kind # "StfState"
      <3>1. answered \in Answers(kind) /\ kind \in Kinds BY <2>1, <2>4
      <3>2. answered \in Values BY <3>1, <2>4 DEF Answers, Values, Kinds
      <3>3. result' = "Ok" BY <1>8, <2>4 DEF Recv
      <3> QED BY <2>1, <3>2, <3>3 DEF Values, Outcomes
    <2> QED BY <2>2, <2>3, <2>4
  <1>9. CASE UNCHANGED vars
    BY <1>9 DEF vars
  <1> QED BY <1>1, <1>2, <1>3, <1>4, <1>5, <1>6, <1>7, <1>8, <1>9 DEF Next

(***************************************************************************)
(* Api::get and get_stf_state: in every reachable state, a call that has   *)
(* returned returned Ok exactly when the worker answered it with a value;  *)
(* a refused or dropped connection, the enclave's None and an answer that  *)
(* is not hex all return Err.                                              *)
(***************************************************************************)
THEOREM OkIffAnsweredHolds == Spec => []OkIffAnswered
  <1>1. IInv => OkIffAnswered BY DEF IInv
  <1> QED BY InitIInv, NextIInv, <1>1, PTL DEF Spec

(***************************************************************************)
(* Type correctness of WorkerApi: the channel of a call holds at most one  *)
(* message and the client makes at most MaxCalls requests.                 *)
(***************************************************************************)
THEOREM WorkerApiTypeCorrect == Spec => []TypeOK
  <1>1. IInv => TypeOK BY PartsTypeOK DEF IInv
  <1> QED BY InitIInv, NextIInv, <1>1, PTL DEF Spec

=============================================================================
