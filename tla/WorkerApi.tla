------------------------------ MODULE WorkerApi ------------------------------
(***************************************************************************)
(* The client's request to the worker (src/worker/worker-api/src/lib.rs,   *)
(* Api::get and its callers).  Api::get makes a fresh channel, spawns a    *)
(* thread that connects a websocket whose handler (WsClient) sends the     *)
(* request on open and forwards the first message to the channel, joins    *)
(* that thread, and then reads the channel: a message is Ok, a channel     *)
(* whose senders are all gone is Err.                                      *)
(*                                                                         *)
(* WsClient (client.rs) and the worker are not in this repository; their   *)
(* behaviour is modelled from the contract Api::get relies on.  The worker *)
(* may answer, crash (closing the connection), restart, or keep the        *)
(* connection open without ever answering.                                 *)
(***************************************************************************)
EXTENDS Naturals, Sequences

CONSTANTS
    MaxCalls   \* bound on the requests the client makes

ASSUME MaxCallsAssumption == MaxCalls \in Nat

\* ClientRequest: MuRaPortWorker, PubKeyWorker, StfState(getter, shard).
Kinds == {"MuRaPortWorker", "PubKeyWorker", "StfState"}

(***************************************************************************)
(* What the worker may answer: the port, the enclave's key as JSON, and    *)
(* for a getter the hex of the enclave's Option<Vec<u8>> (Some or None) or *)
(* a text that is not hex.                                                 *)
(***************************************************************************)
Answers(k) ==
    IF k = "MuRaPortWorker" THEN {"port"}
    ELSE IF k = "PubKeyWorker" THEN {"json"}
    ELSE {"some", "none", "nothex"}

NoAnswer == "no_answer"
Outcomes == {"Ok", "Err"}

VARIABLES
    pc,        \* where the client's current Api::get is
    kind,      \* its request
    port,      \* messages in the channel of this call
    worker,    \* "up" or "down"
    answered,  \* history: what the worker sent on this call's connection
    result,    \* what the caller got back from its last call
    calls      \* requests made

vars == <<pc, kind, port, worker, answered, result, calls>>

Init ==
    /\ pc = "idle"
    /\ kind = "MuRaPortWorker"
    /\ port = <<>>
    /\ worker \in {"up", "down"}
    /\ answered = NoAnswer
    /\ result = "Err"
    /\ calls = 0

\* Mutant: every request reuses one channel, whatever an earlier thread left
\* in it.
GetSharedChannel(k) ==
    /\ pc = "idle"
    /\ calls < MaxCalls
    /\ pc' = "connecting"
    /\ kind' = k
    /\ answered' = NoAnswer
    /\ calls' = calls + 1
    /\ UNCHANGED <<worker, result, port>>

\* Api::get: a fresh channel, a thread that connects to the worker.
Get(k) ==
    /\ pc = "idle"
    /\ calls < MaxCalls
    /\ pc' = "connecting"
    /\ kind' = k
    /\ port' = <<>>
    /\ answered' = NoAnswer
    /\ calls' = calls + 1
    /\ UNCHANGED <<worker, result>>

\* connect fails: "Could not connect to worker"; the thread ends.
ConnectRefused ==
    /\ pc = "connecting"
    /\ worker = "down"
    /\ pc' = "closed"
    /\ UNCHANGED <<kind, port, worker, answered, result, calls>>

\* connect succeeds: WsClient sends the request on open.
ConnectOpen ==
    /\ pc = "connecting"
    /\ worker = "up"
    /\ pc' = "open"
    /\ UNCHANGED <<kind, port, worker, answered, result, calls>>

\* The worker answers; WsClient forwards the message and closes.
WorkerAnswer(a) ==
    /\ pc = "open"
    /\ worker = "up"
    /\ port' = Append(port, a)
    /\ answered' = a
    /\ pc' = "closed"
    /\ UNCHANGED <<kind, worker, result, calls>>

\* The worker crashes; an open connection closes without a message.
WorkerCrash ==
    /\ worker = "up"
    /\ worker' = "down"
    /\ pc' = IF pc = "open" THEN "closed" ELSE pc
    /\ UNCHANGED <<kind, port, answered, result, calls>>

WorkerRestart ==
    /\ worker = "down"
    /\ worker' = "up"
    /\ UNCHANGED <<pc, kind, port, answered, result, calls>>

\* client.join(): the thread has ended and dropped its senders.
Join ==
    /\ pc = "closed"
    /\ pc' = "joined"
    /\ UNCHANGED <<kind, port, worker, answered, result, calls>>

(***************************************************************************)
(* get_stf_state: an answer that is not hex is Err, the hex of Some(val)   *)
(* is Ok(val), the hex of None ("an SgxResult::Err inside enclave") is     *)
(* Err; a ws error is Err.  The other requests return get's result.        *)
(***************************************************************************)
get_stf_state(r) == IF r = "some" THEN "Ok" ELSE "Err"

\* Mutant: the enclave's None is passed on as an empty value.
RecvNoneIsOk ==
    /\ pc = "joined"
    /\ result' = IF port = <<>> THEN "Err"
                 ELSE IF kind = "StfState" /\ Head(port) = "nothex" THEN "Err"
                 ELSE "Ok"
    /\ pc' = "idle"
    /\ UNCHANGED <<kind, port, worker, answered, calls>>

\* Mutant: the caller keeps a sender, so recv blocks on an empty channel.
RecvKeepsSender ==
    /\ pc = "joined"
    /\ port # <<>>
    /\ result' = IF kind = "StfState" THEN get_stf_state(Head(port)) ELSE "Ok"
    /\ pc' = "idle"
    /\ UNCHANGED <<kind, port, worker, answered, calls>>

\* port_out.recv(): a message is Ok, a channel without senders is Err.
Recv ==
    /\ pc = "joined"
    /\ result' = IF port = <<>> THEN "Err"
                 ELSE IF kind = "StfState" THEN get_stf_state(Head(port))
                 ELSE "Ok"
    /\ pc' = "idle"
    /\ UNCHANGED <<kind, port, worker, answered, calls>>

Next ==
    \/ \E k \in Kinds : Get(k)
    \/ ConnectRefused
    \/ ConnectOpen
    \/ \E a \in Answers(kind) : WorkerAnswer(a)
    \/ WorkerCrash
    \/ WorkerRestart
    \/ Join
    \/ Recv

Spec == Init /\ [][Next]_vars

(***************************************************************************)
(* The client's thread runs to its end (WF of its steps).  The worker is   *)
(* assumed to answer or drop each open connection eventually; nothing in   *)
(* Api::get enforces that (the hazard at lib.rs:94).                      *)
(***************************************************************************)
ClientFairness ==
    /\ WF_vars(ConnectRefused \/ ConnectOpen)
    /\ WF_vars(Join)
    /\ WF_vars(Recv)

FairSpec ==
    /\ Spec
    /\ ClientFairness
    /\ WF_vars(WorkerCrash \/ \E a \in Answers(kind) : WorkerAnswer(a))

-----------------------------------------------------------------------------
\* Type invariant.
TypeOK ==
    /\ pc \in {"idle", "connecting", "open", "closed", "joined"}
    /\ kind \in Kinds
    /\ port \in Seq(UNION {Answers(k) : k \in Kinds}) /\ Len(port) <= 1
    /\ worker \in {"up", "down"}
    /\ answered \in (UNION {Answers(k) : k \in Kinds}) \cup {NoAnswer}
    /\ result \in Outcomes
    /\ calls \in 0..MaxCalls

(***************************************************************************)
(* Spec 6 and 7: a call returns Ok exactly when the worker answered it     *)
(* with a value: a refused or dropped connection, the enclave's None and   *)
(* an unreadable answer are a definite Err, never a value.                 *)
(***************************************************************************)
OkIffAnswered ==
    pc = "idle" /\ calls > 0 =>
        (result = "Ok" <=> answered \in {"some", "port", "json"})

(***************************************************************************)
(* Spec 7: a request to the worker ends, with a value or a definite        *)
(* failure.                                                                *)
(***************************************************************************)
GetReturns == pc # "idle" ~> pc = "idle"

=============================================================================
