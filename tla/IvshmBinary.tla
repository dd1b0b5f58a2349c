---------------------------- MODULE IvshmBinary ----------------------------
(***************************************************************************)
(* The binary service on top of the pipe, in one direction: buffers queued *)
(* by cipc_write_buf are cut into chunks, sent one at a time and stored by *)
(* the peer (dev/ivshmem/services/binary/ivshmem-binary.c; both peers run  *)
(* this code).                                                             *)
(*                                                                         *)
(* Processes: the Callers of cipc_write_buf, the transmission thread       *)
(* (ivshm_binary_tx_thread with _ivshm_binary_write), the endpoint thread  *)
(* of the sender, which consumes acknowledgements, and that of the         *)
(* receiver, which consumes packets.  Frames travel in order and are not   *)
(* lost: IvshmChannel.                                                     *)
(*                                                                         *)
(* A chunk is named <<b, i>>: the i-th chunk of buffer b, the buffers      *)
(* being numbered in the order in which they were queued.                  *)
(***************************************************************************)
EXTENDS Integers, Sequences, FiniteSets

CONSTANTS Callers,      \* threads that call cipc_write_buf
          MaxBuffers,   \* bound: buffers queued in a behaviour
          Lengths,      \* lengths of a buffer, in chunks of CHUNK_SIZE
          PktWrap,      \* last_pkt is taken modulo PktWrap (a char: 256)
          MaxRetry,     \* transmissions of a packet (10 in the code)
          Capacity,     \* chunks the receiver's circular buffer holds
          NoOverwrite,  \* the no-overwrite property of the device tree node
          Late          \* an answer may take longer than the timeout (10 s)

BinaryAssumption ==
    /\ MaxBuffers \in Nat
    /\ Lengths \subseteq Nat \ {0}
    /\ PktWrap \in Nat \ {0, 1}
    /\ MaxRetry \in Nat \ {0}
    /\ Capacity \in Nat \ {0}
    /\ NoOverwrite \in BOOLEAN
    /\ Late \in BOOLEAN

Buffers == 1..MaxBuffers

VARIABLES
    length,     \* length of every buffer queued so far
    copied,     \* the buffers whose payload has been copied
    pktList,    \* tx handler->pkt_list
    semQueue,   \* count of tx handler->sem_queue
    cpc,        \* control point of every caller
    cbuffer,    \* the buffer a caller is queueing
    tpc,        \* control point of the transmission thread
    current,    \* the buffer being sent
    lastPkt,    \* tx handler->last_pkt
    retry,      \* tx handler->retry
    offset,     \* chunks of the current buffer counted as sent
    ack,        \* tx handler->ack
    semAck,     \* count of tx handler->sem_ack
    apc,        \* control point of the sender's endpoint thread
    data,       \* packets on their way to the receiver
    acks,       \* acknowledgements on their way back
    rstate,     \* rx handler->state
    rlast,      \* rx handler->last_pkt
    level,      \* chunks in rx handler->cbuf
    stored,     \* history: the chunks written to rx handler->cbuf
    failed      \* the assertion that has stopped the system

queueVars == <<length, copied, pktList, semQueue, cpc, cbuffer>>
sendVars  == <<tpc, current, lastPkt, retry, offset>>
ackVars   == <<ack, semAck, apc>>
recvVars  == <<rstate, rlast, level, stored>>
vars == <<queueVars, sendVars, ackVars, data, acks, recvVars, failed>>

Init ==
    /\ length = <<>> /\ copied = {} /\ pktList = <<>> /\ semQueue = 0
    /\ cpc = [c \in Callers |-> "idle"]
    /\ cbuffer = [c \in Callers |-> 0]
    /\ tpc = "wait" /\ current = 0 /\ lastPkt = 0 /\ retry = 0 /\ offset = 0
    /\ ack = "NAK" /\ semAck = 0 /\ apc = "idle"
    /\ data = <<>> /\ acks = 0
    /\ rstate = "RESET" /\ rlast = 0 /\ level = 0 /\ stored = <<>>
    /\ failed = "none"

Running == failed = "none"

(***************************************************************************)
(* cipc_write_buf: ivshm_binary_queue_buffer                               *)
(***************************************************************************)

\* Mutant: the thread is woken up when the packet joins the list
QueuedPosts == semQueue' = semQueue + 1

Queued == UNCHANGED semQueue

\* The packet joins the list, its payload not yet copied.
Queue(c) ==
    /\ Running
    /\ cpc[c] = "idle"
    /\ Len(length) < MaxBuffers
    /\ \E n \in Lengths : length' = Append(length, n)
    /\ pktList' = Append(pktList, Len(length) + 1)
    /\ cbuffer' = [cbuffer EXCEPT ![c] = Len(length) + 1]
    /\ cpc' = [cpc EXCEPT ![c] = "copy"]
    /\ Queued
    /\ UNCHANGED <<copied, sendVars, ackVars, data, acks, recvVars, failed>>

\* The payload is copied outside of the critical section.
Copy(c) ==
    /\ Running
    /\ cpc[c] = "copy"
    /\ copied' = copied \cup {cbuffer[c]}
    /\ cpc' = [cpc EXCEPT ![c] = "post"]
    /\ UNCHANGED <<length, pktList, semQueue, cbuffer, sendVars, ackVars, data, acks,
                   recvVars, failed>>

\* The transmission thread is woken up.
Post(c) ==
    /\ Running
    /\ cpc[c] = "post"
    /\ semQueue' = semQueue + 1
    /\ cbuffer' = [cbuffer EXCEPT ![c] = 0]
    /\ cpc' = [cpc EXCEPT ![c] = "idle"]
    /\ UNCHANGED <<length, copied, pktList, sendVars, ackVars, data, acks, recvVars,
                   failed>>

(***************************************************************************)
(* ivshm_binary_tx_thread and _ivshm_binary_write                          *)
(***************************************************************************)

\* A packet is taken off the list and its transmission set up.
TxTake ==
    /\ Running
    /\ tpc = "wait"
    /\ semQueue > 0
    /\ semQueue' = semQueue - 1
    /\ IF pktList = <<>>
       THEN /\ failed' = "no_packet"
            /\ UNCHANGED <<pktList, sendVars>>
       ELSE /\ current' = Head(pktList)
            /\ pktList' = Tail(pktList)
            /\ lastPkt' = 1
            /\ retry' = MaxRetry
            /\ offset' = 0
            /\ tpc' = "send"
            /\ UNCHANGED failed
    /\ UNCHANGED <<length, copied, cpc, cbuffer, ackVars, data, acks, recvVars>>

\* The next chunk of the current buffer is sent.
TxSend ==
    /\ Running
    /\ tpc = "send"
    /\ ack' = "NAK"
    /\ data' = Append(data,
          [hdr   |-> IF offset + 1 < length[current] THEN "SOH" ELSE "EOT",
           pkt   |-> lastPkt,
           chunk |-> <<current, offset + 1>>])
    /\ tpc' = "ack"
    /\ UNCHANGED <<queueVars, current, lastPkt, retry, offset, semAck, apc, acks,
                   recvVars, failed>>

\* _ivshm_binary_write returns the number of chunks it has counted, and the
\* thread asserts that this is the whole buffer.
Return(sent) ==
    /\ failed' = IF sent = length[current] THEN "none" ELSE "not_all_sent"
    /\ tpc' = "wait"
    /\ current' = 0 /\ lastPkt' = 0 /\ retry' = 0 /\ offset' = 0

\* The packet was not acknowledged: it is sent again, until retry is used up.
Again ==
    IF retry = 1
    THEN Return(offset)
    ELSE /\ retry' = retry - 1
         /\ tpc' = "send"
         /\ UNCHANGED <<current, lastPkt, offset, failed>>

\* The semaphore of the acknowledgement is taken: go on with the next chunk,
\* or return after the last one.
TxAcked ==
    /\ Running
    /\ tpc = "ack"
    /\ semAck > 0
    /\ semAck' = semAck - 1
    /\ IF ack = "ACK"
       THEN IF offset + 1 = length[current]
            THEN Return(offset + 1)
            ELSE /\ retry' = MaxRetry
                 /\ lastPkt' = (lastPkt + 1) % PktWrap
                 /\ offset' = offset + 1
                 /\ tpc' = "send"
                 /\ UNCHANGED <<current, failed>>
       ELSE Again
    /\ UNCHANGED <<queueVars, ack, apc, data, acks, recvVars>>

\* The wait for the acknowledgement times out.
TxTimeout ==
    /\ Running
    /\ Late
    /\ tpc = "ack"
    /\ semAck = 0
    /\ Again
    /\ UNCHANGED <<queueVars, ackVars, data, acks, recvVars>>

(***************************************************************************)
(* The sender's endpoint thread: ivshm_binary_tx_consume                   *)
(***************************************************************************)

AckStore ==
    /\ Running
    /\ apc = "idle"
    /\ acks > 0
    /\ acks' = acks - 1
    /\ ack' = "ACK"
    /\ apc' = "post"
    /\ UNCHANGED <<queueVars, sendVars, semAck, data, recvVars, failed>>

\* Mutant: the transmission thread is not woken up
AckedSilently == UNCHANGED semAck

Acked == semAck' = semAck + 1

AckPost ==
    /\ Running
    /\ apc = "post"
    /\ Acked
    /\ apc' = "idle"
    /\ UNCHANGED <<queueVars, sendVars, ack, data, acks, recvVars, failed>>

(***************************************************************************)
(* The receiver's endpoint thread: ivshm_binary_rx_consume                 *)
(***************************************************************************)

\* Mutant: a retransmitted packet is taken for a new one
FreshAny(p) == rstate = "RESET" \/ p.pkt =< rlast + 1

\* Mutant: the packet is compared with the last one received
FreshSame(p) == rstate = "RESET" \/ p.pkt = rlast

\* The packet opens a transfer or is the next one of the transfer in course;
\* the comparison is made in int, where last_pkt + 1 does not wrap.
Fresh(p) == rstate = "RESET" \/ p.pkt = rlast + 1

\* The level once a chunk was written: a full buffer drops its oldest chunk.
Level(l) == IF l = Capacity THEN l ELSE l + 1

\* ivshm_binary_write_cbuf: when the buffer is full the oldest chunk is
\* dropped, unless the endpoint asks not to.
Store(p) ==
    /\ stored' = Append(stored, p.chunk)
    /\ level' = Level(level)

RxConsume ==
    /\ Running
    /\ data # <<>>
    /\ data' = Tail(data)
    /\ LET p == Head(data) IN
       IF rstate = "RESET" /\ p.pkt # 1
       THEN /\ failed' = "first_packet"
            /\ UNCHANGED <<recvVars, acks>>
       ELSE IF Fresh(p) /\ level = Capacity /\ NoOverwrite
       THEN /\ failed' = "full"
            /\ UNCHANGED <<recvVars, acks>>
       ELSE /\ IF Fresh(p) THEN Store(p) /\ rlast' = p.pkt
                           ELSE UNCHANGED <<stored, level, rlast>>
            /\ rstate' = IF p.hdr = "EOT" THEN "RESET" ELSE "RECEIVING"
            /\ acks' = acks + 1
            /\ UNCHANGED failed
    /\ UNCHANGED <<queueVars, sendVars, ackVars>>

\* The peer's application reads a chunk: cipc_read_buf.
Read ==
    /\ Running
    /\ level > 0
    /\ level' = level - 1
    /\ UNCHANGED <<queueVars, sendVars, ackVars, data, acks, rstate, rlast, stored, failed>>

Next ==
    \/ \E c \in Callers : Queue(c) \/ Copy(c) \/ Post(c)
    \/ TxTake \/ TxSend \/ TxAcked \/ TxTimeout
    \/ AckStore \/ AckPost
    \/ RxConsume \/ Read

Fairness ==
    /\ \A c \in Callers : WF_vars(Copy(c)) /\ WF_vars(Post(c))
    /\ WF_vars(TxTake) /\ WF_vars(TxSend) /\ WF_vars(TxAcked)
    /\ WF_vars(AckStore) /\ WF_vars(AckPost)
    /\ WF_vars(RxConsume)

Spec == Init /\ [][Next]_vars /\ Fairness

(***************************************************************************)
(* Properties                                                              *)
(***************************************************************************)

Numbers == 0..PktWrap - 1
Chunks == Buffers \X Nat
Packets == [hdr : {"SOH", "EOT"}, pkt : Numbers, chunk : Chunks]

\* Every variable holds a value of its type: in particular the circular buffer
\* never holds more than it has room for.
TypeOK ==
    /\ length \in Seq(Lengths) /\ copied \subseteq Buffers
    /\ pktList \in Seq(Buffers) /\ semQueue \in Nat
    /\ cpc \in [Callers -> {"idle", "copy", "post"}]
    /\ cbuffer \in [Callers -> Buffers \cup {0}]
    /\ tpc \in {"wait", "send", "ack"} /\ current \in Buffers \cup {0}
    /\ lastPkt \in Numbers /\ retry \in 0..MaxRetry /\ offset \in Nat
    /\ ack \in {"ACK", "NAK"} /\ semAck \in Nat /\ apc \in {"idle", "post"}
    /\ data \in Seq(Packets) /\ acks \in Nat
    /\ rstate \in {"RESET", "RECEIVING"} /\ rlast \in Numbers
    /\ level \in 0..Capacity /\ stored \in Seq(Chunks)
    /\ failed \in {"none", "no_packet", "not_all_sent", "first_packet", "full"}

StoredChunks == {stored[i] : i \in DOMAIN stored}

(***************************************************************************)
(* The receiver stores the buffers in the order in which they were queued, *)
(* chunk after chunk: retransmissions neither duplicate nor skip one.  And *)
(* the payload of a chunk was there when it was sent, although             *)
(* ivshm_binary_queue_buffer copies it after it has queued the packet.     *)
(***************************************************************************)
InOrder ==
    /\ \A i \in DOMAIN data : data[i].chunk[1] \in copied
    /\ \A i \in DOMAIN stored :
        LET b == stored[i][1] n == stored[i][2] IN
        IF i = 1 THEN b = 1 /\ n = 1
        ELSE \/ stored[i - 1] = <<b, n - 1>>
             \/ n = 1 /\ b > 1 /\ stored[i - 1] = <<b - 1, length[b - 1]>>

(***************************************************************************)
(* What the sender has counted as sent is in the receiver's buffer, or on  *)
(* its way there: an acknowledgement, a late one as well, never stands for *)
(* a chunk that is dropped (the number of bytes that cipc.h promises).     *)
(***************************************************************************)
CountedIsStored ==
    tpc # "wait" => \A n \in 1..offset :
        \/ <<current, n>> \in StoredChunks
        \/ \E i \in DOMAIN data : data[i].chunk = <<current, n>>

(***************************************************************************)
(* Every buffer that was queued is stored in full, unless an assertion     *)
(* stops the system.                                                       *)
(***************************************************************************)
AllDelivered ==
    \A b \in Buffers :
        b =< Len(length) ~> (b =< Len(length) /\ <<b, length[b]>> \in StoredChunks) \/ ~Running

=============================================================================
