----------------------------- MODULE IvshmVring -----------------------------
(***************************************************************************)
(* One direction of a running ivshmem pipe: the virtio ring and the data   *)
(* ring through which one peer hands frames to the other                   *)
(* (dev/ivshmem/ivshmem-pipe.c).                                           *)
(*                                                                         *)
(* The transmitting peer has Writers threads in ivshm_write and a pipe     *)
(* thread that runs ivshm_tx_clean from ivshm_pipe_poll.  The receiving    *)
(* peer has its pipe thread, in the loop of ivshm_pipe_poll.  Handshake,   *)
(* interrupts and restarts are modelled in IvshmPipe.                      *)
(*                                                                         *)
(* The data ring is an array of cells of SMP_CACHE_BYTES; a cell holds the *)
(* number of the frame whose bytes were last copied into it.               *)
(***************************************************************************)
EXTENDS Integers, Sequences, FiniteSets

CONSTANTS Writers,   \* the threads that call ivshm_write
          Num,       \* vr.num, the number of descriptors
          Size,      \* tx.size, in cells
          MaxLen,    \* bound: the longest frame, in cells
          Wrap,      \* ring indices are taken modulo Wrap (65536 in the code)
          Credit     \* frames the callers keep outstanding at most

Pipe == "pipe"               \* the transmitting peer's pipe thread
None == "none"               \* nobody holds a lock

\* What a use of this module provides
VringAssumption ==
    /\ Pipe \notin Writers /\ None \notin Writers
    /\ Num \in Nat \ {0}
    /\ Size \in Nat \ {0}
    /\ MaxLen \in 1..Size
    /\ Wrap \in Nat
    /\ 2 * Num =< Wrap
    /\ Wrap % Num = 0
    /\ Credit \in Nat

Threads == Writers \cup {Pipe}
Desc == 0..Num - 1
Index == 0..Wrap - 1

VARIABLES
    desc,        \* descriptor table: address and length in cells, next
    avail,       \* vr.avail->ring
    availIdx,    \* vr.avail->idx, the transmitter's last_avail_idx
    used,        \* vr.used->ring
    usedIdx,     \* vr.used->idx, the receiver's last_used_idx
    usedEvent,   \* vring_used_event(tx)
    mem,         \* the cells of the data ring
    freeHead,    \* tx.free_head
    numFree,     \* tx.num_free
    lastUsed,    \* tx.last_used_idx
    head,        \* tx.head
    tail,        \* tx.tail
    cleanLock,   \* holder of tx_clean_lock
    freeLock,    \* holder of tx_free_lock
    pc,          \* control point of every thread of the transmitter
    clean,       \* locals of ivshm_tx_clean: used_idx, last, num, fdesc, fhead
    frame,       \* locals of ivshm_tx_frame: count, desc_idx
    lastAvail,   \* rx.last_avail_idx of the receiver
    rpc,         \* control point of the receiver
    rdesc,       \* the descriptor the receiver works on
    halted,      \* a BUG_ON has stopped the transmitter
    sent,        \* history: frames published, modulo Wrap
    got          \* history: frames pushed to an endpoint, modulo Wrap

ring  == <<avail, availIdx, used, usedIdx>>
locks == <<cleanLock, freeLock>>
rx    == <<lastAvail, rpc, rdesc, got>>
free  == <<freeHead, numFree>>
vars  == <<desc, ring, usedEvent, mem, free, lastUsed, head, tail, locks,
           pc, clean, frame, rx, halted, sent>>

NoFrame == [len |-> 1, d |-> 0]
NoBatch == [limit |-> 0, last |-> 0, num |-> 0, first |-> 0, top |-> 0]

\* ivshm_init_queues
Init ==
    /\ desc = [d \in Desc |-> [addr |-> 0, len |-> 0,
                               next |-> IF d = Num - 1 THEN 0 ELSE d + 1]]
    /\ avail = [i \in Desc |-> 0]
    /\ used  = [i \in Desc |-> 0]
    /\ availIdx = 0 /\ usedIdx = 0 /\ usedEvent = 0
    /\ mem = [c \in 0..Size - 1 |-> 0]
    /\ freeHead = 0 /\ numFree = Num
    /\ lastUsed = 0 /\ head = 0 /\ tail = 0
    /\ cleanLock = None /\ freeLock = None
    /\ pc = [t \in Threads |-> "idle"]
    /\ clean = [t \in Threads |-> NoBatch]
    /\ frame = [t \in Threads |-> NoFrame]
    /\ lastAvail = 0 /\ rpc = "idle" /\ rdesc = 0
    /\ halted = FALSE
    /\ sent = 0 /\ got = 0

(***************************************************************************)
(* Helpers                                                                 *)
(***************************************************************************)

Inc(i) == (i + 1) % Wrap

\* ivshm_tx_advance: where a frame of len cells goes when the position is p
Place(p, len) == IF Size - p < len THEN 0 ELSE p

\* ivshm_tx_space
TxSpace == IF head < tail THEN tail - head
           ELSE IF Size - head > tail THEN Size - head ELSE tail

\* ivshm_tx_ok
TxOk(len) == numFree >= 1 /\ TxSpace >= len

\* The checks of ivshm_desc_data
DescOk(d) == desc[d].addr < Size /\ desc[d].len =< Size - desc[d].addr

\* The frames whose ivshm_write has begun and those the receiver has not
\* pushed to an endpoint yet.
Outstanding ==
    Cardinality({w \in Writers : pc[w] # "idle"}) + ((sent - got) % Wrap)

(***************************************************************************)
(* ivshm_tx_clean, called first by ivshm_write and by ivshm_pipe_poll      *)
(***************************************************************************)

\* A service calls ivshm_write.  It keeps at most Credit frames outstanding:
\* it waits for an answer of the peer before it goes on.
Write(w) ==
    /\ ~halted
    /\ pc[w] = "idle"
    /\ Outstanding < Credit
    /\ \E len \in 1..MaxLen : frame' = [frame EXCEPT ![w].len = len]
    /\ pc' = [pc EXCEPT ![w] = "clean"]
    /\ UNCHANGED <<desc, ring, usedEvent, mem, free, lastUsed, head, tail, locks,
                   clean, rx, halted, sent>>

\* The pipe thread enters ivshm_pipe_poll.
Poll ==
    /\ ~halted
    /\ pc[Pipe] = "idle"
    /\ pc' = [pc EXCEPT ![Pipe] = "clean"]
    /\ UNCHANGED <<desc, ring, usedEvent, mem, free, lastUsed, head, tail, locks,
                   clean, frame, rx, halted, sent>>

\* tx_clean_lock is taken and the used index read.
CleanBegin(t) ==
    /\ ~halted
    /\ pc[t] = "clean"
    /\ cleanLock = None
    /\ cleanLock' = t
    /\ clean' = [clean EXCEPT ![t] =
                   [NoBatch EXCEPT !.limit = usedIdx, !.last = lastUsed]]
    /\ pc' = [pc EXCEPT ![t] = "cleaning"]
    /\ UNCHANGED <<desc, ring, usedEvent, mem, free, lastUsed, head, tail,
                   freeLock, frame, rx, halted, sent>>

\* The descriptor of the used entry that ivshm_tx_clean looks at
UsedDesc(t) == used[clean[t].last % Num]

\* The entry passes the checks of the loop: its frame is the oldest one of
\* the data ring.
UsedOk(t) ==
    /\ DescOk(UsedDesc(t))
    /\ desc[UsedDesc(t)].addr = Place(tail, desc[UsedDesc(t)].len)

Entries(t) == clean[t].last # clean[t].limit /\ UsedOk(t)

\* Mutant: the tail does not wrap where the head did
TailStraight(len) == tail + len

\* The tail behind a frame of len cells
TailAfter(len) == Place(tail, len) + len

\* Mutant: the descriptors of a batch are not linked
LinkNone(t) == UNCHANGED desc

\* A descriptor that is not the first of its batch is put in front of it.
Link(t) ==
    IF clean[t].num = 0
    THEN UNCHANGED desc
    ELSE desc' = [desc EXCEPT ![UsedDesc(t)].next = clean[t].top]

\* One turn of the loop: the frame leaves the data ring, its descriptor joins
\* the batch.
CleanEntry(t) ==
    /\ ~halted
    /\ pc[t] = "cleaning"
    /\ Entries(t)
    /\ tail' = TailAfter(desc[UsedDesc(t)].len)
    /\ clean' = [clean EXCEPT ![t].last = Inc(@),
                              ![t].num = @ + 1,
                              ![t].first = IF clean[t].num = 0 THEN UsedDesc(t) ELSE @,
                              ![t].top = UsedDesc(t)]
    /\ Link(t)
    /\ UNCHANGED <<ring, usedEvent, mem, free, lastUsed, head, locks, pc, frame,
                   rx, halted, sent>>

\* After ivshm_tx_clean, a writer goes on with ivshm_write, the pipe thread
\* with the receiving half of ivshm_pipe_poll.
AfterClean(t) == IF t = Pipe THEN "idle" ELSE "check"

\* The loop ends, at the used index or at a bad entry; the lock is dropped.
CleanEnd(t) ==
    /\ ~halted
    /\ pc[t] = "cleaning"
    /\ ~Entries(t)
    /\ lastUsed' = clean[t].last
    /\ cleanLock' = None
    /\ IF clean[t].num > 0
       THEN /\ pc' = [pc EXCEPT ![t] = "splice"]
            /\ clean' = [clean EXCEPT ![t].limit = 0, ![t].last = 0]
       ELSE /\ pc' = [pc EXCEPT ![t] = AfterClean(t)]
            /\ clean' = [clean EXCEPT ![t] = NoBatch]
    /\ UNCHANGED <<desc, ring, usedEvent, mem, free, head, tail, freeLock, frame,
                   rx, halted, sent>>

\* Mutant: num_free grows by one, whatever the batch holds
FreedOne(t) == numFree + 1

Freed(t) == numFree + clean[t].num

\* The batch is put in front of the free list, under tx_free_lock.
Splice(t) ==
    /\ ~halted
    /\ pc[t] = "splice"
    /\ freeLock = None
    /\ desc' = [desc EXCEPT ![clean[t].first].next = freeHead]
    /\ freeHead' = clean[t].top
    /\ numFree' = Freed(t)
    /\ halted' = (numFree' > Num)
    /\ clean' = [clean EXCEPT ![t] = NoBatch]
    /\ pc' = [pc EXCEPT ![t] = AfterClean(t)]
    /\ UNCHANGED <<ring, usedEvent, mem, lastUsed, head, tail, locks, frame, rx, sent>>

(***************************************************************************)
(* The rest of ivshm_write                                                 *)
(***************************************************************************)

\* ivshm_write looks whether there is room, without a lock.  When there is
\* none it asks for an interrupt, and goes on all the same.
WriteCheck(w) ==
    /\ ~halted
    /\ pc[w] = "check"
    /\ usedEvent' = IF TxOk(frame[w].len) THEN usedEvent ELSE lastUsed
    /\ pc' = [pc EXCEPT ![w] = "frame"]
    /\ UNCHANGED <<desc, ring, mem, free, lastUsed, head, tail, locks, clean, frame,
                   rx, halted, sent>>

\* ivshm_tx_frame takes tx_free_lock, a descriptor and a place in the ring.
TxTake(w) ==
    /\ ~halted
    /\ pc[w] = "frame"
    /\ freeLock = None
    /\ IF numFree < 1
       THEN /\ halted' = TRUE
            /\ UNCHANGED <<desc, free, head, freeLock, pc, frame>>
       ELSE /\ freeLock' = w
            /\ frame' = [frame EXCEPT ![w].d = freeHead]
            /\ freeHead' = desc[freeHead].next
            /\ numFree' = numFree - 1
            /\ LET at == Place(head, frame[w].len) IN
               /\ head' = at + frame[w].len
               /\ desc' = [desc EXCEPT ![freeHead].addr = at,
                                       ![freeHead].len = frame[w].len]
            /\ pc' = [pc EXCEPT ![w] = "copy"]
            /\ UNCHANGED halted
    /\ UNCHANGED <<ring, usedEvent, mem, lastUsed, tail, cleanLock, clean, rx, sent>>

\* The cells of descriptor d
Cells(d) == desc[d].addr..desc[d].addr + desc[d].len - 1

\* Mutant: the copy misses a cell
CopiedShort(d) == {c \in Cells(d) : c + 1 \in Cells(d)}

\* iovec_to_membuf copies all of the frame.
Copied(d) == Cells(d)

\* The bytes of the frame are copied.
TxCopy(w) ==
    /\ ~halted
    /\ pc[w] = "copy"
    /\ mem' = [c \in DOMAIN mem |-> IF c \in Copied(frame[w].d) THEN sent ELSE mem[c]]
    /\ pc' = [pc EXCEPT ![w] = "publish"]
    /\ UNCHANGED <<desc, ring, usedEvent, free, lastUsed, head, tail, locks, clean,
                   frame, rx, halted, sent>>

\* The descriptor is handed to the receiver and the lock dropped; whether the
\* receiver is notified is decided in IvshmPipe.
TxPublish(w) ==
    /\ ~halted
    /\ pc[w] = "publish"
    /\ avail' = [avail EXCEPT ![availIdx % Num] = frame[w].d]
    /\ availIdx' = Inc(availIdx)
    /\ sent' = Inc(sent)
    /\ freeLock' = None
    /\ frame' = [frame EXCEPT ![w] = NoFrame]
    /\ pc' = [pc EXCEPT ![w] = "idle"]
    /\ UNCHANGED <<desc, used, usedIdx, usedEvent, mem, free, lastUsed, head, tail,
                   cleanLock, clean, rx, halted>>

(***************************************************************************)
(* The receiver: the loop of ivshm_pipe_poll                               *)
(***************************************************************************)

\* ivshm_rx_desc and ivshm_desc_data: the next frame, or the end of the loop
\* when its descriptor is bad.
RxDesc ==
    /\ rpc = "idle"
    /\ availIdx # lastAvail
    /\ rdesc' = avail[lastAvail % Num]
    /\ lastAvail' = Inc(lastAvail)
    /\ rpc' = IF DescOk(rdesc') THEN "push" ELSE "idle"
    /\ UNCHANGED <<desc, ring, usedEvent, mem, free, lastUsed, head, tail, locks, pc,
                   clean, frame, halted, sent, got>>

\* ivshm_endpoint_push copies the frame into the endpoint.
RxPush ==
    /\ rpc = "push"
    /\ rpc' = "finish"
    /\ got' = Inc(got)
    /\ UNCHANGED <<desc, ring, usedEvent, mem, free, lastUsed, head, tail, locks, pc,
                   clean, frame, lastAvail, rdesc, halted, sent>>

\* ivshm_rx_finish gives the descriptor back.
RxFinish ==
    /\ rpc = "finish"
    /\ used' = [used EXCEPT ![usedIdx % Num] = rdesc]
    /\ usedIdx' = Inc(usedIdx)
    /\ rpc' = "idle"
    /\ rdesc' = 0
    /\ UNCHANGED <<desc, avail, availIdx, usedEvent, mem, free, lastUsed, head, tail,
                   locks, pc, clean, frame, lastAvail, got, halted, sent>>

Next ==
    \/ \E w \in Writers :
          Write(w) \/ WriteCheck(w) \/ TxTake(w) \/ TxCopy(w) \/ TxPublish(w)
    \/ Poll
    \/ \E t \in Threads :
          CleanBegin(t) \/ CleanEntry(t) \/ CleanEnd(t) \/ Splice(t)
    \/ RxDesc
    \/ RxPush
    \/ RxFinish

Spec == Init /\ [][Next]_vars

(***************************************************************************)
(* Properties                                                              *)
(***************************************************************************)

Positions == 0..Size

\* Every variable holds a value of its type: in particular head and tail stay
\* inside the data ring.
TypeOK ==
    /\ desc \in [Desc -> [addr : Positions, len : 0..MaxLen, next : Desc]]
    /\ avail \in [Desc -> Desc] /\ used \in [Desc -> Desc]
    /\ availIdx \in Index /\ usedIdx \in Index /\ usedEvent \in Index
    /\ mem \in [0..Size - 1 -> Index]
    /\ freeHead \in Desc /\ numFree \in Nat
    /\ lastUsed \in Index
    /\ head \in Positions /\ tail \in Positions
    /\ cleanLock \in Threads \cup {None} /\ freeLock \in Writers \cup {None}
    /\ pc \in [Threads -> {"idle", "clean", "cleaning", "splice", "check",
                           "frame", "copy", "publish"}]
    /\ clean \in [Threads -> [limit : Index, last : Index, num : Nat,
                              first : Desc, top : Desc]]
    /\ frame \in [Threads -> [len : 1..MaxLen, d : Desc]]
    /\ lastAvail \in Index /\ rpc \in {"idle", "push", "finish"} /\ rdesc \in Desc
    /\ halted \in BOOLEAN
    /\ sent \in Index /\ got \in Index

(***************************************************************************)
(* The assertions of the transmitter hold: BUG_ON(tx->num_free < 1) in     *)
(* ivshm_tx_frame and BUG_ON(tx->num_free > vr->num) in ivshm_tx_clean.    *)
(***************************************************************************)
NoBugOn == ~halted

\* The n-th descriptor of the chain of next fields that starts at d
Chain(d) ==
    LET c[n \in 0..Num] == IF n = 0 THEN d ELSE desc[c[n - 1]].next IN c

\* The entries of a ring from index i up to index j, wherever they lie
Between(i, j) == {k \in Index : (k - i) % Wrap < (j - i) % Wrap}

\* The used entries that ivshm_tx_clean has still to look at
Unclean == IF cleanLock = None THEN lastUsed ELSE clean[cleanLock].last

\* The places at which descriptor d is held: in the free list, in the batch of
\* a thread between the two critical sections of ivshm_tx_clean, by the thread
\* that fills it, in the available ring, by the receiver, in the used ring.
Holders(d) ==
    {<<"free", i>> : i \in {i \in 0..numFree - 1 : Chain(freeHead)[i] = d}}
    \cup (UNION {{<<t, i>> : i \in {i \in 0..clean[t].num - 1 :
                                      Chain(clean[t].top)[i] = d}} : t \in Threads})
    \cup {<<"fill", w>> : w \in {w \in Writers : /\ pc[w] \in {"copy", "publish"}
                                                 /\ frame[w].d = d}}
    \cup {<<"avail", k>> : k \in {k \in Between(lastAvail, availIdx) : avail[k % Num] = d}}
    \cup {<<"receiver", 0>> : k \in {k \in {0} : rpc # "idle" /\ rdesc = d}}
    \cup {<<"used", k>> : k \in {k \in Between(Unclean, usedIdx) : used[k % Num] = d}}

(***************************************************************************)
(* Every descriptor is in exactly one place at every moment, whichever     *)
(* threads are in the middle of ivshm_tx_clean, ivshm_tx_frame or          *)
(* ivshm_pipe_poll: none leaks and none is used for two frames.            *)
(***************************************************************************)
HeldOnce == ~halted => \A d \in Desc : Cardinality(Holders(d)) = 1

(***************************************************************************)
(* ivshm_tx_clean never meets a "bad tx descriptor": the tail it recomputes *)
(* from the lengths follows the head as ivshm_tx_frame advanced it.  A bad *)
(* entry would stay in the used ring and stop the transmitter for good.    *)
(***************************************************************************)
CleanGoesThrough ==
    \A t \in Threads :
        pc[t] = "cleaning" /\ clean[t].last # clean[t].limit => UsedOk(t)

\* The frame that the memory holds for descriptor d, -1 when its cells have
\* come from different frames
Content(d) ==
    IF \A c \in Cells(d) : mem[c] = mem[desc[d].addr] THEN mem[desc[d].addr] ELSE -1

InFlight ==
    LET first == IF rpc = "push" THEN (lastAvail - 1) % Wrap ELSE lastAvail IN
    [i \in 1..(availIdx - first) % Wrap |->
        Content(avail[(first + i - 1) % Num])]

(***************************************************************************)
(* The rings implement a channel: what the receiver reads for each frame,  *)
(* up to the moment it has copied it, is what was queued, whole and in     *)
(* order.                                                                  *)
(***************************************************************************)
Channel == INSTANCE IvshmChannel WITH chan <- InFlight, Capacity <- Num
ChannelSpec == Channel!Spec

=============================================================================
