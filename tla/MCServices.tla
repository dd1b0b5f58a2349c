----------------------------- MODULE MCServices -----------------------------
(***************************************************************************)
(* The endpoint and three of the services that are built on it, for TLC.   *)
(* Each has its own model; they share nothing, so that their products are  *)
(* not explored: in a behaviour one of them moves, and the others stay in  *)
(* their initial state, where none of their fair actions is enabled.       *)
(***************************************************************************)
EXTENDS Integers, Sequences, FiniteSets

CONSTANTS Callers, MaxBuffers, Lengths, PktWrap, MaxRetry, Capacity, NoOverwrite,
          Clients, MaxCalls, MaxEvents, Retries, Sizes, EventSize,
          MaxFrames, MaxSwitches, CbufRoom, CbMax,
          Lens, BufSize, Credit, Wrap, MaxCycles, Builds, Late

VARIABLES
    moves,  \* the one that moves
    \* of the binary service
    length, copied, pktList, semQueue, cpc, cbuffer, tpc, current, lastPkt, retry, offset,
    ack, semAck, apc, data, acks, rstate, rlast, level, stored, failed,
    \* of the rpc service
    tid, buf, event, mutex, pc, size, rpcRetry, outcome, result, epc, requests, answers,
    events, panicked,
    \* of the serial service
    arrived, serialEpc, rxCb, bufferRx, cbuf, lock, serialApc, left, switches, dropped,
    handled, lost, serialFailed,
    \* of the endpoint
    build, exists, alive, ring, capacity, sem, stop, ppc, plen, pushLeft, endpointPc, rest,
    cycles, sent, got, endpointFailed

Binary == INSTANCE IvshmBinary
Rpc == INSTANCE IvshmRpc WITH retry <- rpcRetry
Serial == INSTANCE IvshmSerial
            WITH Capacity <- CbufRoom, epc <- serialEpc, apc <- serialApc,
                 failed <- serialFailed
Endpoint == INSTANCE IvshmEndpoint
            WITH left <- pushLeft, tpc <- endpointPc, failed <- endpointFailed

ASSUME ServicesAssumption ==
    /\ Binary!BinaryAssumption /\ Rpc!RpcAssumption
    /\ Serial!SerialAssumption /\ Endpoint!EndpointAssumption

binaryVars ==
    <<length, copied, pktList, semQueue, cpc, cbuffer, tpc, current, lastPkt, retry, offset,
      ack, semAck, apc, data, acks, rstate, rlast, level, stored, failed>>
rpcVars ==
    <<tid, buf, event, mutex, pc, size, rpcRetry, outcome, result, epc, requests, answers,
      events, panicked>>
serialVars ==
    <<arrived, serialEpc, rxCb, bufferRx, cbuf, lock, serialApc, left, switches, dropped,
      handled, lost, serialFailed>>
endpointVars ==
    <<build, exists, alive, ring, capacity, sem, stop, ppc, plen, pushLeft, endpointPc, rest,
      cycles, sent, got, endpointFailed>>
vars == <<moves, binaryVars, rpcVars, serialVars, endpointVars>>

Init ==
    /\ moves \in {"binary", "rpc", "serial", "endpoint"}
    /\ Binary!Init /\ Rpc!Init /\ Serial!Init /\ Endpoint!Init
    /\ moves # "endpoint" => build = "LK"

BinaryNext ==
    /\ moves = "binary" /\ Binary!Next
    /\ UNCHANGED <<moves, rpcVars, serialVars, endpointVars>>

RpcNext ==
    /\ moves = "rpc" /\ Rpc!Next
    /\ UNCHANGED <<moves, binaryVars, serialVars, endpointVars>>

SerialNext ==
    /\ moves = "serial" /\ Serial!Next
    /\ UNCHANGED <<moves, binaryVars, rpcVars, endpointVars>>

EndpointNext ==
    /\ moves = "endpoint" /\ Endpoint!Next
    /\ UNCHANGED <<moves, binaryVars, rpcVars, serialVars>>

Next == BinaryNext \/ RpcNext \/ SerialNext \/ EndpointNext

Spec == Init /\ [][Next]_vars /\ Binary!Fairness /\ Rpc!Fairness /\ Endpoint!Fairness

-----------------------------------------------------------------------------
\* The variables of the four models have their types.
TypeOK == Binary!TypeOK /\ Rpc!TypeOK /\ Serial!TypeOK /\ Endpoint!TypeOK

\* The properties of the four models, stated there.
InOrder == Binary!InOrder
CountedIsStored == Binary!CountedIsStored
OwnReply == Rpc!OwnReply
CountedIsComplete == Endpoint!CountedIsComplete
ChannelSpec == Endpoint!ChannelSpec

\* What the binary service's sender queues, and what the pipe pushes to an
\* endpoint, reaches its reader.
AllDelivered == Binary!AllDelivered /\ Endpoint!PushedIsRead

\* An rpc call returns, and so does the destruction of an endpoint.
CallsReturn == Rpc!CallsReturn /\ Endpoint!DestroyReturns

\* A character that arrives is in one place of the serial service, and lost
\* only where the code says so.
NothingLost == Serial!OnePlace /\ Serial!NothingLost
=============================================================================
