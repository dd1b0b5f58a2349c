---------------------------- MODULE IvshmEndpoint ----------------------------
(***************************************************************************)
(* An endpoint: the circular buffer and the thread between the pipe and a  *)
(* service (dev/ivshmem/ivshmem-endpoint.c; one source for Little Kernel   *)
(* and for Linux).                                                         *)
(*                                                                         *)
(* Processes: the pipe thread, which creates the endpoint when it enters   *)
(* RUN, pushes frames and destroys the endpoint when it leaves RUN, and    *)
(* the endpoint thread (ivshm_endpoint_thread, ivshm_endpoint_pkt_read).   *)
(*                                                                         *)
(* The buffer is a sequence of cells; a cell names its packet, its place   *)
(* in it and the length that the header of the packet announces.           *)
(***************************************************************************)
EXTENDS Integers, Sequences, FiniteSets

CONSTANTS Lens,        \* lengths of a packet, in cells
          BufSize,     \* size of the endpoint, in cells: bufsize of create
          Credit,      \* packets the peer sends ahead of the consumer at most
          Wrap,        \* packets are numbered modulo Wrap
          MaxCycles,   \* bound: times the endpoint is destroyed
          Builds       \* how the source may be built, see below

EndpointAssumption ==
    /\ Lens \subseteq 1..BufSize - 1
    /\ BufSize \in Nat \ {0}
    /\ Credit \in Nat /\ Wrap \in Nat /\ Credit < Wrap
    /\ MaxCycles \in Nat
    /\ Builds \subseteq {"LK", "permissive", "Linux"}

(***************************************************************************)
(* "LK" is Little Kernel; "permissive" is Little Kernel built with         *)
(* ENABLE_PERMISSIVE_MODE, where a full buffer is waited for; "Linux" has  *)
(* a buffer that grows and a thread that can be stopped.                   *)
(***************************************************************************)
VARIABLES
    build,     \* how this endpoint was built
    exists,    \* the endpoint is in endpoints_list
    alive,     \* its memory is allocated
    ring,      \* the cells of ep->rx
    capacity,  \* cells ep->rx has room for
    sem,       \* count of ep->rx_pkt_sem
    stop,      \* kthread_stop has been called
    ppc,       \* control point of the pipe thread
    plen,      \* length of the packet being pushed
    left,      \* local remaining of ivshm_endpoint_push
    tpc,       \* control point of the endpoint thread
    rest,      \* local remaining of ivshm_endpoint_pkt_read
    cycles,    \* times destroyed so far (bound)
    sent,      \* history: number of the next packet to be pushed
    got,       \* history: number of the next packet to be read
    failed     \* what has stopped the system

memory  == <<exists, alive>>
buffer  == <<ring, capacity>>
pipeVars == <<ppc, plen, left>>
threadVars == <<tpc, rest>>
vars == <<build, memory, buffer, sem, stop, pipeVars, threadVars, cycles, sent, got, failed>>

Init ==
    /\ build \in Builds
    /\ exists = FALSE /\ alive = FALSE
    /\ ring = <<>> /\ capacity = BufSize - 1
    /\ sem = 0 /\ stop = FALSE
    /\ ppc = "idle" /\ plen = 0 /\ left = 0
    /\ tpc = "none" /\ rest = 0
    /\ cycles = 0 /\ sent = 0 /\ got = 0
    /\ failed = "none"

Running == failed = "none"
Linux == build = "Linux"

(***************************************************************************)
(* The pipe thread                                                         *)
(***************************************************************************)

\* ivshm_endpoint_create: memory, buffer and semaphore, the thread, the list.
\* It waits here for a thread of an earlier endpoint that was not stopped,
\* which is followed no further than ThreadFreed.
Create ==
    /\ Running
    /\ ppc = "idle"
    /\ ~alive
    /\ tpc \in {"none", "gone"}
    /\ alive' = TRUE /\ exists' = TRUE
    /\ capacity' = BufSize - 1
    /\ sem' = 0 /\ stop' = FALSE
    /\ tpc' = "loop" /\ rest' = 0
    /\ UNCHANGED <<build, ring, pipeVars, cycles, sent, got, failed>>

\* ivshm_endpoint_push is called for a frame; without an endpoint the frame
\* is dropped.
Push ==
    /\ Running
    /\ ppc = "idle"
    /\ exists
    /\ (sent - got) % Wrap < Credit
    /\ \E n \in Lens : plen' = n /\ left' = n
    /\ ppc' = "write"
    /\ UNCHANGED <<build, memory, buffer, sem, stop, threadVars, cycles, sent, got, failed>>

\* The next n cells of the packet that is being pushed
Cells(n) ==
    [i \in 1..n |-> [pkt |-> sent, pos |-> plen - left + i, len |-> plen]]

\* Room of the buffer; Linux makes it larger when the packet may not fit
Room == IF Linux /\ capacity - Len(ring) < plen THEN Len(ring) + plen ELSE capacity

\* Mutant: a packet counts as written once its first part is
LeftNone(n) == 0

\* How many of n cells cbuf_write stores, and how many are left
Fitting(n) == LET free == Room - Len(ring) IN IF free < n THEN free ELSE n
Left(n) == left - n

\* cbuf_write stores what fits.  When nothing fits, the assertion stops the
\* system; in permissive mode the write is tried again.
PushWrite ==
    /\ Running
    /\ ppc = "write"
    /\ capacity' = Room
    /\ LET n == Fitting(left) IN
       IF n = 0
       THEN /\ build # "permissive"
            /\ failed' = "full"
            /\ UNCHANGED <<ring, left, ppc, plen, sent>>
       ELSE /\ ring' = ring \o Cells(n)
            /\ left' = Left(n)
            /\ IF Left(n) = 0
               THEN ppc' = "post" /\ sent' = (sent + 1) % Wrap /\ plen' = 0
               ELSE UNCHANGED <<ppc, sent, plen>>
            /\ UNCHANGED failed
    /\ UNCHANGED <<build, memory, sem, stop, threadVars, cycles, got>>

\* Mutant: the thread is woken up when it had nothing to do
PostWhenIdle == sem' = IF sem = 0 THEN 1 ELSE sem

Post == sem' = sem + 1

\* The thread is woken up, and ivshm_endpoint_push returns.
PushPost ==
    /\ Running
    /\ ppc = "post"
    /\ Post
    /\ ppc' = "idle"
    /\ UNCHANGED <<build, memory, buffer, stop, plen, left, threadVars, cycles, sent, got, failed>>

\* ivshm_endpoint_destroy takes the endpoint off the list and stops the
\* thread; in Little Kernel the code that does is compiled out.
Destroy ==
    /\ Running
    /\ ppc = "idle"
    /\ exists
    /\ cycles < MaxCycles
    /\ cycles' = cycles + 1
    /\ exists' = FALSE
    /\ stop' = Linux
    /\ ppc' = "free"
    /\ UNCHANGED <<build, alive, buffer, sem, plen, left, threadVars, sent, got, failed>>

\* Mutant: the memory is freed without waiting for the thread
MayFreeAtOnce == TRUE

MayFree == Linux => tpc = "gone"

\* kthread_stop has waited for the thread; semaphore, buffer and endpoint go.
DestroyFree ==
    /\ Running
    /\ ppc = "free"
    /\ MayFree
    /\ alive' = FALSE
    /\ ring' = <<>> /\ sent' = 0 /\ got' = 0
    /\ ppc' = "idle"
    /\ UNCHANGED <<build, exists, capacity, sem, stop, plen, left, threadVars, cycles, failed>>

(***************************************************************************)
(* The endpoint thread                                                     *)
(***************************************************************************)

\* while (ep->thread_running), or while (!kthread_should_stop())
ThreadLoop ==
    /\ Running
    /\ alive
    /\ tpc = "loop"
    /\ tpc' = IF stop THEN "gone" ELSE "wait"
    /\ UNCHANGED <<build, memory, buffer, sem, stop, pipeVars, rest, cycles, sent, got, failed>>

ThreadWake ==
    /\ Running
    /\ alive
    /\ tpc = "wait"
    /\ sem > 0
    /\ sem' = sem - 1
    /\ tpc' = "peek"
    /\ UNCHANGED <<build, memory, buffer, stop, pipeVars, rest, cycles, sent, got, failed>>

\* Mutant: the wait has no timeout on Linux either
TimedNever == FALSE

\* down_timeout, against sem_wait in Little Kernel
Timed == Linux

\* On Linux the wait times out.
ThreadTimeout ==
    /\ Running
    /\ alive
    /\ Timed
    /\ tpc = "wait"
    /\ sem = 0
    /\ tpc' = "loop"
    /\ UNCHANGED <<build, memory, buffer, sem, stop, pipeVars, rest, cycles, sent, got, failed>>

\* Mutant: the header is not counted in the length to be read
LengthOfPayload(c) == c.len - 1

LengthOf(c) == c.len

\* The header is read where it lies; it must be there, and its length fit.
ThreadPeek ==
    /\ Running
    /\ alive
    /\ tpc = "peek"
    /\ IF ring = <<>> \/ ring[1].pos # 1 \/ ring[1].len >= BufSize
       THEN failed' = "bad_packet" /\ UNCHANGED <<tpc, rest>>
       ELSE tpc' = "read" /\ rest' = LengthOf(ring[1]) /\ UNCHANGED failed
    /\ UNCHANGED <<build, memory, buffer, sem, stop, pipeVars, cycles, sent, got>>

\* cbuf_read takes what there is, and waits when there is nothing.
ThreadRead ==
    /\ Running
    /\ alive
    /\ tpc = "read"
    /\ ring # <<>>
    /\ LET n == IF Len(ring) < rest THEN Len(ring) ELSE rest IN
       /\ ring' = SubSeq(ring, n + 1, Len(ring))
       /\ rest' = rest - n
       /\ IF n = rest
          THEN tpc' = "consume" /\ got' = (got + 1) % Wrap
          ELSE UNCHANGED <<tpc, got>>
    /\ UNCHANGED <<build, memory, capacity, sem, stop, pipeVars, cycles, sent, failed>>

\* The service's consume callback
ThreadConsume ==
    /\ Running
    /\ alive
    /\ tpc = "consume"
    /\ tpc' = "loop"
    /\ UNCHANGED <<build, memory, buffer, sem, stop, pipeVars, rest, cycles, sent, got, failed>>

\* A thread that was not stopped goes on with an endpoint that was freed; one
\* that waits is woken up when the semaphore is destroyed.
ThreadFreed ==
    /\ Running
    /\ ~alive
    /\ tpc \notin {"none", "gone"}
    /\ failed' = "freed"
    /\ UNCHANGED <<build, memory, buffer, sem, stop, pipeVars, threadVars, cycles, sent, got>>

Pipe == Create \/ Push \/ PushWrite \/ PushPost \/ Destroy \/ DestroyFree
Thread == ThreadLoop \/ ThreadWake \/ ThreadTimeout \/ ThreadPeek \/ ThreadRead
          \/ ThreadConsume \/ ThreadFreed

Next == Pipe \/ Thread

\* Both threads run when they can; nothing obliges the peer to send, nor the
\* pipe to leave RUN.  In permissive mode the pipe thread spins at a higher
\* priority: the endpoint thread then needs a second processor (WITH_SMP).
Fairness ==
    /\ WF_vars(PushWrite) /\ WF_vars(PushPost) /\ WF_vars(DestroyFree)
    /\ WF_vars(ThreadLoop) /\ WF_vars(ThreadWake) /\ WF_vars(ThreadTimeout)
    /\ WF_vars(ThreadPeek) /\ WF_vars(ThreadRead) /\ WF_vars(ThreadConsume)

Spec == Init /\ [][Next]_vars /\ Fairness

(***************************************************************************)
(* Properties                                                              *)
(***************************************************************************)

CellType == [pkt : 0..Wrap - 1, pos : Lens \cup (1..BufSize), len : Lens]

\* Every variable holds a value of its type; the buffer never holds more than
\* it has room for.
TypeOK ==
    /\ build \in Builds
    /\ exists \in BOOLEAN /\ alive \in BOOLEAN /\ stop \in BOOLEAN
    /\ ring \in Seq(CellType) /\ capacity \in Nat /\ Len(ring) =< capacity
    /\ sem \in Nat
    /\ ppc \in {"idle", "write", "post", "free"}
    /\ plen \in Lens \cup {0} /\ left \in 0..BufSize
    /\ tpc \in {"none", "loop", "wait", "peek", "read", "consume", "gone"}
    /\ rest \in 0..BufSize
    /\ cycles \in 0..MaxCycles
    /\ sent \in 0..Wrap - 1 /\ got \in 0..Wrap - 1
    /\ failed \in {"none", "full", "bad_packet", "freed"}

\* The places of the last cells of packets, and the number of one among them
Ends == {i \in DOMAIN ring : ring[i].pos = ring[i].len}
Rank(e) == Cardinality({d \in Ends : d =< e})

\* The packets of which the last cell is in the buffer, oldest first
Complete == [i \in 1..Cardinality(Ends) |-> ring[CHOOSE e \in Ends : Rank(e) = i].pkt]

(***************************************************************************)
(* The assertions of ivshm_endpoint_pkt_read hold: a count of the          *)
(* semaphore stands for a packet that is complete, the header of which is  *)
(* at the front of the buffer.  In the Linux build the buffer is moreover  *)
(* there: ivshm_endpoint_destroy stops the thread before it frees it.  The *)
(* thread of the Little Kernel build is stopped by nothing.                *)
(***************************************************************************)
CountedIsComplete ==
    /\ failed # "bad_packet"
    /\ Linux => failed # "freed"
    /\ alive => sem + (IF tpc \in {"peek", "read"} THEN 1 ELSE 0) =< Len(Complete)

(***************************************************************************)
(* The buffer implements a channel: the packets that are read are those    *)
(* that were pushed, whole and in order, although a packet may be written  *)
(* in several parts and lengths are only known from headers.               *)
(***************************************************************************)
Channel == INSTANCE IvshmChannel WITH chan <- Complete, Capacity <- Credit
ChannelSpec == Channel!Spec

(***************************************************************************)
(* A packet that the pipe has begun to push is read, also when the buffer  *)
(* is full and the pipe thread waits for room in permissive mode; unless   *)
(* the endpoint is destroyed or an assertion stops the system.             *)
(***************************************************************************)
PushedIsRead ==
    /\ ppc = "write" ~> ppc # "write" \/ ~Running
    /\ \A n \in 0..Wrap - 1 : (sent # got /\ got = n) ~> (got # n \/ ~exists \/ ~Running)

(***************************************************************************)
(* A pipe that leaves RUN gets past ivshm_endpoint_destroy, whatever the   *)
(* endpoint thread is waiting for.                                         *)
(***************************************************************************)
DestroyReturns == ppc = "free" ~> ppc = "idle"

=============================================================================
