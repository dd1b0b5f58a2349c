------------------------------ MODULE IvshmRpc ------------------------------
(***************************************************************************)
(* Remote procedure calls over the pipe: the client threads in             *)
(* ivshm_rpc_call and the endpoint thread in ivshm_rpc_consume, which      *)
(* share one buffer, one event and one transaction counter per service     *)
(* (dev/ivshmem/services/rpc/ivshmem-rpc.c).                               *)
(*                                                                         *)
(* The peer is Linux and not part of the repository: it answers every      *)
(* request of a procedure that has an output, in order, with the id and    *)
(* the tid of the request, and may send calls of its own that expect no    *)
(* answer (RPC_HDMI_HANDLE_EVENT_ID).                                      *)
(* A payload is the number of the call that it answers.                    *)
(***************************************************************************)
EXTENDS Integers, Sequences

CONSTANTS Clients,    \* threads that call ivshm_rpc_call
          MaxCalls,   \* bound: calls in a behaviour
          MaxEvents,  \* bound: calls of the peer in a behaviour
          Retries,    \* responses with a wrong tid that are skipped (5)
          Sizes,      \* output sizes of the procedures that are called, 0 for none
          EventSize,  \* size of the parameters of a call of the peer
          Late        \* an answer may take longer than service->timeout

RpcAssumption ==
    /\ "none" \notin Clients
    /\ MaxCalls \in Nat
    /\ MaxEvents \in Nat
    /\ Retries \in Nat \ {0}
    /\ Sizes \subseteq Nat
    /\ EventSize \in Nat
    /\ Late \in BOOLEAN

\* Decrementing an unsigned 0 gives UINT_MAX; any number that is not reached
\* otherwise stands for it.
UintMax == 2147483647

Decrement(n) == IF n = 0 THEN UintMax ELSE n - 1

VARIABLES
    tid,       \* service->tid
    buf,       \* service->buf
    event,     \* service->wait is signalled
    mutex,     \* holder of service->mutex
    pc,        \* control point of every client
    size,      \* *out_len of the call; stands for its rpc_id as well
    retry,     \* local retry of the call
    outcome,   \* what the last call of a client returned
    result,    \* the payload copied to its caller
    epc,       \* control point of the endpoint thread
    requests,  \* requests on their way to the peer that it has to answer
    answers,   \* messages on their way from the peer
    events,    \* calls made by the peer (bound)
    panicked   \* the endpoint thread has met an unknown type

clientVars == <<mutex, tid, pc, size, retry, outcome, result>>
vars == <<clientVars, buf, event, epc, requests, answers, events, panicked>>

NoOne == "none"

\* A message: its header and the call its payload belongs to.  The procedure
\* is identified by the size of its output, a call of the peer by 0.
Message(type, id, len, t, call) ==
    [type |-> type, id |-> id, len |-> len, tid |-> t, call |-> call]

\* memset of the header; the payload stays
Cleared(m) == Message("zero", -1, 0, 0, m.call)

Init ==
    /\ tid = 0 /\ event = FALSE /\ mutex = NoOne
    /\ buf = Message("zero", -1, 0, 0, 0)
    /\ pc = [c \in Clients |-> "idle"]
    /\ size = [c \in Clients |-> 0]
    /\ retry = [c \in Clients |-> 0]
    /\ outcome = [c \in Clients |-> "none"]
    /\ result = [c \in Clients |-> 0]
    /\ epc = "idle"
    /\ requests = <<>> /\ answers = <<>> /\ events = 0
    /\ panicked = FALSE

(***************************************************************************)
(* ivshm_rpc_call                                                          *)
(***************************************************************************)

\* The mutex is taken, the transaction numbered and the header cleared.
Call(c) ==
    /\ ~panicked
    /\ pc[c] = "idle"
    /\ mutex = NoOne
    /\ tid < MaxCalls
    /\ mutex' = c
    /\ tid' = tid + 1
    /\ \E s \in Sizes : size' = [size EXCEPT ![c] = s]
    /\ outcome' = [outcome EXCEPT ![c] = "none"]
    /\ result' = [result EXCEPT ![c] = 0]
    /\ buf' = Cleared(buf)
    /\ pc' = [pc EXCEPT ![c] = "send"]
    /\ UNCHANGED <<retry, event, epc, requests, answers, events, panicked>>

Send(c) ==
    /\ ~panicked
    /\ pc[c] = "send" /\ size[c] # 0
    /\ requests' = Append(requests, [id |-> size[c], tid |-> tid])
    /\ retry' = [retry EXCEPT ![c] = Retries]
    /\ pc' = [pc EXCEPT ![c] = "wait"]
    /\ UNCHANGED <<mutex, tid, size, outcome, result, buf, event, epc, answers, events,
                   panicked>>

\* The call returns and releases the mutex.
Return(c, what) ==
    /\ outcome' = [outcome EXCEPT ![c] = what]
    /\ mutex' = NoOne
    /\ pc' = [pc EXCEPT ![c] = "idle"]

\* No response is expected: the call returns as soon as it is sent.
SendOnly(c) ==
    /\ ~panicked
    /\ pc[c] = "send" /\ size[c] = 0
    /\ Return(c, "ok")
    /\ UNCHANGED <<tid, size, retry, result, buf, event, epc, requests, answers, events,
                   panicked>>

\* The call goes on and keeps the mutex.
GoOn(c, where) ==
    /\ pc' = [pc EXCEPT ![c] = where]
    /\ UNCHANGED <<mutex, outcome>>

\* The event resets itself when it wakes the client up.
Wake(c) ==
    /\ ~panicked
    /\ pc[c] = "wait"
    /\ event
    /\ event' = FALSE
    /\ pc' = [pc EXCEPT ![c] = "check"]
    /\ UNCHANGED <<mutex, tid, size, retry, outcome, result, buf, epc, requests, answers,
                   events, panicked>>

\* Mutant: only the first wait for a response has a timeout
TimedFirst(c) == retry[c] = Retries

\* Every wait has a timeout.
Timed(c) == TRUE

TimeOut(c) ==
    /\ ~panicked
    /\ Late /\ Timed(c)
    /\ pc[c] = "wait"
    /\ ~event
    /\ Return(c, "timed_out")
    /\ UNCHANGED <<tid, size, retry, result, buf, event, epc, requests, answers, events,
                   panicked>>

\* Mutant: the tid is not looked at
WrongNever(c) == FALSE

\* The response is that of an earlier call.
Wrong(c) == buf.tid # tid

\* The tests on the response, in the order of the code.  retry is unsigned
\* and is decremented by the test itself, past 0 too.
Check(c) ==
    /\ ~panicked
    /\ pc[c] = "check"
    /\ LET wrong == Wrong(c)
           left  == IF wrong THEN Decrement(retry[c]) ELSE retry[c] IN
       /\ retry' = [retry EXCEPT ![c] = IF buf.len > size[c] THEN @ ELSE left]
       /\ IF buf.len > size[c] THEN Return(c, "too_long")
          ELSE IF wrong /\ retry[c] > 0 THEN GoOn(c, "wait")
          ELSE IF left = 0 THEN Return(c, "internal")
          ELSE IF buf.id # size[c] THEN Return(c, "not_ready")
          ELSE GoOn(c, "copy")
    /\ UNCHANGED <<tid, size, result, buf, event, epc, requests, answers, events,
                   panicked>>

\* The payload is copied out of the shared buffer.
Copy(c) ==
    /\ ~panicked
    /\ pc[c] = "copy"
    /\ result' = [result EXCEPT ![c] = buf.call]
    /\ Return(c, "ok")
    /\ UNCHANGED <<tid, size, retry, buf, event, epc, requests, answers, events, panicked>>

(***************************************************************************)
(* ivshm_rpc_consume, in the endpoint thread                               *)
(***************************************************************************)

\* The message is stored in the service buffer.
Store ==
    /\ ~panicked
    /\ epc = "idle"
    /\ answers # <<>>
    /\ buf' = Head(answers)
    /\ answers' = Tail(answers)
    /\ epc' = "dispatch"
    /\ UNCHANGED <<clientVars, event, requests, events, panicked>>

\* The type is read back from the buffer: a reply wakes the client up, a call
\* runs its callback, which leaves this state alone.
Dispatch ==
    /\ ~panicked
    /\ epc = "dispatch"
    /\ event' = (event \/ buf.type = "REPLY")
    /\ panicked' = (buf.type \notin {"REPLY", "CALL"})
    /\ epc' = "idle"
    /\ UNCHANGED <<clientVars, buf, requests, answers, events>>

(***************************************************************************)
(* The peer                                                                *)
(***************************************************************************)

PeerReply ==
    /\ requests # <<>>
    /\ LET r == Head(requests) IN
       answers' = Append(answers, Message("REPLY", r.id, r.id, r.tid, r.tid))
    /\ requests' = Tail(requests)
    /\ UNCHANGED <<clientVars, buf, event, epc, events, panicked>>

\* The peer numbers its calls on its own.
PeerCall ==
    /\ events < MaxEvents
    /\ events' = events + 1
    /\ answers' = Append(answers, Message("CALL", 0, EventSize, events + 1, 0))
    /\ UNCHANGED <<clientVars, buf, event, epc, requests, panicked>>

Next ==
    \/ \E c \in Clients :
          Call(c) \/ Send(c) \/ SendOnly(c) \/ Wake(c) \/ TimeOut(c) \/ Check(c) \/ Copy(c)
    \/ Store \/ Dispatch
    \/ PeerReply \/ PeerCall

\* The scheduler runs every thread that is ready, and the peer answers.
Fairness ==
    /\ \A c \in Clients : /\ WF_vars(Send(c)) /\ WF_vars(SendOnly(c)) /\ WF_vars(Wake(c))
                          /\ WF_vars(TimeOut(c)) /\ WF_vars(Check(c)) /\ WF_vars(Copy(c))
    /\ WF_vars(Store) /\ WF_vars(Dispatch) /\ WF_vars(PeerReply)

Spec == Init /\ [][Next]_vars /\ Fairness

(***************************************************************************)
(* Properties                                                              *)
(***************************************************************************)

Messages == [type : {"zero", "REPLY", "CALL"}, id : Sizes \cup {0, -1}, len : Nat,
             tid : Nat, call : Nat]

\* Every variable holds a value of its type: in particular retry is unsigned.
TypeOK ==
    /\ tid \in 0..MaxCalls /\ buf \in Messages /\ event \in BOOLEAN
    /\ mutex \in Clients \cup {NoOne}
    /\ pc \in [Clients -> {"idle", "send", "wait", "check", "copy"}]
    /\ size \in [Clients -> Sizes \cup {0}]
    /\ retry \in [Clients -> 0..Retries \cup {UintMax}]
    /\ outcome \in [Clients -> {"none", "ok", "timed_out", "too_long", "internal",
                                "not_ready"}]
    /\ result \in [Clients -> 0..MaxCalls]
    /\ epc \in {"idle", "dispatch"}
    /\ requests \in Seq([id : Sizes, tid : 1..MaxCalls])
    /\ answers \in Seq(Messages)
    /\ events \in 0..MaxEvents /\ panicked \in BOOLEAN

(***************************************************************************)
(* A call that succeeds never returns the payload of the response to       *)
(* another call, however late that response is.  (Calls of the peer, which *)
(* have payload 0 here, are stored in the same buffer and do get through.) *)
(***************************************************************************)
OwnReply ==
    [][\A c \in Clients : outcome'[c] = "ok" /\ outcome[c] # "ok" => result'[c] \in {0, tid}]_vars

(***************************************************************************)
(* Every call that has taken the mutex returns, and so releases it: it is  *)
(* not left waiting for an event, whatever has overwritten its response.   *)
(***************************************************************************)
CallsReturn ==
    \A c \in Clients : (pc[c] # "idle" ~> pc[c] = "idle" \/ panicked)

=============================================================================
